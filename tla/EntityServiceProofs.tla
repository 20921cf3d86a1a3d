------------------------ MODULE EntityServiceProofs ------------------------
(***************************************************************************)
(* Theorems about EntityService for any number of handlers and documents,  *)
(* with or without an array, and for all faults.                           *)
(***************************************************************************)
EXTENDS EntityService, Stage1Proofs

\* What the locals l of handler h owe to the collections and to Stage 1: a
\* handler that synchronises has saved its document, a request it has built
\* is about that document, the call it awaits is for that request, and what
\* it is about to write to last_sync is true.
Fits(l, h) ==
    /\ l.pc # "idle" => l.id \in Ids
    /\ l.pc \in {"save", "sync"} => l.doc \in Doc
    /\ l.pc \in {"save", "sync", "enqueue"} => ~l.ok
    /\ l.pc \in {"sync", "await", "enqueue", "last_sync"} => db[l.id] \in Doc
    /\ l.pc \in {"await", "enqueue", "last_sync"} =>
          /\ l.request_id \in Rids
          /\ requests[l.request_id] \in Request
          /\ requests[l.request_id].id = l.id
    /\ l.pc = "await" => calls[h].request_id = l.request_id
    /\ l.pc = "last_sync" => IF l.ok THEN l.request_id \in applied
                             ELSE outbox[l.request_id] \in Item

HandlersFit == \A h \in Handlers : Fits(handlers[h], h)

\* A document to be stored brings no last_sync that the handler did not find.
DocumentsAreOwn ==
    \A h \in Handlers : handlers[h].pc = "save"
        => db[handlers[h].id] \in Doc \/ handlers[h].doc.last_sync = Null

\* A payload is about a document that is stored, and stays so.
RequestsAreStored ==
    \A r \in Rids : requests[r] \in Request => db[requests[r].id] \in Doc

\* Every invariant of the module rests on the ones before it in this list.
EntityInv ==
    /\ Stage1Inv
    /\ TypeOK
    /\ HandlersFit
    /\ DocumentsAreOwn
    /\ RequestsAreStored
    /\ RemoteKnowsOnlyStored
    /\ OkMeansApplied
    /\ FailureIsQueued

\* A step of a handler that writes to no collection; Stage 1 may get a
\* request and the handler's call may begin or end.
LEMMA HandlerMoves ==
    ASSUME EntityInv, Stage1Inv',
           NEW h \in Handlers, NEW l \in Handler,
           handlers' = [handlers EXCEPT ![h] = l],
           UNCHANGED <<remote, applied, db, outbox>>,
           \A c \in Callers \ {h} : calls'[c] = calls[c],
           \A r \in Rids : \/ requests'[r] = requests[r]
                           \/ /\ requests[r] = Null
                              /\ requests'[r] \in Request => db[requests'[r].id] \in Doc,
           Fits(l, h)',
           l.pc = "save" => db[l.id] \in Doc \/ l.doc.last_sync = Null
    PROVE  EntityInv'
  <1>1. TypeOK'
    BY DEF EntityInv, TypeOK, Stage1Inv
  <1>2. handlers'[h] = l /\ \A g \in Handlers \ {h} : handlers'[g] = handlers[g]
    BY DEF EntityInv, TypeOK
  <1>3. \A r \in Rids : requests[r] \in Request => requests'[r] = requests[r]
    BY NullIsNoRecord
  <1>4. HandlersFit'
    <2> SUFFICES ASSUME NEW g \in Handlers PROVE Fits(handlers[g], g)'
      BY DEF HandlersFit
    <2>1. CASE g = h
      BY <2>1, <1>2 DEF Fits
    <2>2. CASE g # h
      <3>1. Fits(handlers[g], g) /\ calls'[g] = calls[g]
        BY <2>2, EntityServiceAssumption DEF EntityInv, HandlersFit
      <3> QED
        BY <2>2, <3>1, <1>2, <1>3 DEF Fits
    <2> QED
      BY <2>1, <2>2
  <1>5. DocumentsAreOwn'
    BY <1>2 DEF EntityInv, DocumentsAreOwn
  <1>6. RequestsAreStored' /\ RemoteKnowsOnlyStored' /\ OkMeansApplied'
    BY <1>3 DEF EntityInv, RequestsAreStored, RemoteKnowsOnlyStored, OkMeansApplied
  <1>7. FailureIsQueued'
    BY <1>3 DEF EntityInv, FailureIsQueued, TypeOK, Doc, LastSync, Stage1Inv, Stage1TypeOK
  <1> QED
    BY <1>1, <1>4, <1>5, <1>6, <1>7 DEF EntityInv

\* A step of a handler that stores a document; what it says of the last
\* synchronisation is nothing, what it said before, or what is true.
LEMMA DocumentSaved ==
    ASSUME EntityInv, UNCHANGED <<stage1Vars, outbox>>,
           NEW h \in Handlers, NEW l \in Handler,
           handlers' = [handlers EXCEPT ![h] = l],
           NEW i \in Ids, NEW doc \in Doc,
           db' = [db EXCEPT ![i] = doc],
           \/ doc.last_sync = Null
           \/ db[i] \in Doc /\ doc.last_sync = db[i].last_sync
           \/ /\ doc.last_sync \in LastSync
              /\ requests[doc.last_sync.request_id] \in Request
              /\ requests[doc.last_sync.request_id].id = i
              /\ IF doc.last_sync.ok THEN doc.last_sync.request_id \in applied
                 ELSE outbox[doc.last_sync.request_id] \in Item,
           Fits(l, h)',
           l.pc # "save"
    PROVE  EntityInv'
  <1>1. Stage1Inv'
    BY StutterKeeps DEF EntityInv
  <1>2. TypeOK'
    BY <1>1 DEF EntityInv, TypeOK, Stage1Inv
  <1>3. handlers'[h] = l /\ \A g \in Handlers \ {h} : handlers'[g] = handlers[g]
    BY DEF EntityInv, TypeOK
  <1>4. db'[i] = doc /\ \A j \in Ids \ {i} : db'[j] = db[j]
    BY DEF EntityInv, TypeOK
  <1>5. \A j \in Ids : db[j] \in Doc => db'[j] \in Doc
    BY <1>4
  <1>6. HandlersFit'
    <2> SUFFICES ASSUME NEW g \in Handlers PROVE Fits(handlers[g], g)'
      BY DEF HandlersFit
    <2>1. CASE g = h
      BY <2>1, <1>3 DEF Fits
    <2>2. CASE g # h
      BY <2>2, <1>3, <1>5 DEF EntityInv, HandlersFit, Fits, stage1Vars
    <2> QED
      BY <2>1, <2>2
  <1>7. DocumentsAreOwn'
    BY <1>3, <1>5 DEF EntityInv, DocumentsAreOwn, HandlersFit, Fits
  <1>8. RequestsAreStored' /\ RemoteKnowsOnlyStored'
    BY <1>4, <1>5, NullIsNoRecord
       DEF EntityInv, RequestsAreStored, RemoteKnowsOnlyStored, Request, stage1Vars
  <1>9. OkMeansApplied'
    BY <1>4, NullIsNoRecord DEF EntityInv, OkMeansApplied, stage1Vars
  <1>10. FailureIsQueued'
    BY <1>4, NullIsNoRecord DEF EntityInv, FailureIsQueued, LastSync, stage1Vars
  <1> QED
    BY <1>1, <1>2, <1>6, <1>7, <1>8, <1>9, <1>10 DEF EntityInv

\* What a handler that has answered leaves behind (Ended).
LEMMA EndedFits ==
    ASSUME NEW answer \in Answers
    PROVE  /\ Ended(answer) \in Handler
           /\ Ended(answer).pc = "idle"
           /\ \A h : Fits(Ended(answer), h)'
  <1>1. Ended(answer) \in Handler /\ Ended(answer).pc = "idle"
    BY DEF Ended, Handler
  <1> QED
    BY <1>1 DEF Fits

\* An item is added; the handler goes on to report the failure, or answers.
LEMMA ItemQueued ==
    ASSUME EntityInv, NEW h \in Handlers, handlers[h].pc = "enqueue",
           NEW l \in Handler,
           \/ l.pc = "idle"
           \/ /\ l.pc = "last_sync" /\ ~l.ok
              /\ l.id = handlers[h].id
              /\ l.request_id = handlers[h].request_id,
           handlers' = [handlers EXCEPT ![h] = l],
           outbox' = [outbox EXCEPT ![handlers[h].request_id] = NewItem(TRUE)],
           UNCHANGED <<stage1Vars, db>>
    PROVE  EntityInv'
  <1> DEFINE r == handlers[h].request_id
  <1>1. /\ handlers[h].pc = "enqueue"
        /\ outbox' = [outbox EXCEPT ![r] = NewItem(TRUE)]
        /\ handlers' = [handlers EXCEPT ![h] = l]
        /\ UNCHANGED <<stage1Vars, db>>
    OBVIOUS
  <1>2. handlers[h] \in Handler /\ Fits(handlers[h], h)
    BY DEF EntityInv, TypeOK, HandlersFit
  <1>3. \/ l.pc = "idle"
        \/ /\ l.pc = "last_sync" /\ ~l.ok
           /\ l.id = handlers[h].id /\ l.request_id = r
    OBVIOUS
  <1>4. NewItem(TRUE) \in Item
    BY DEF NewItem, Item, Status
  <1>5. Stage1Inv'
    BY <1>1, StutterKeeps DEF EntityInv
  <1>6. TypeOK'
    BY <1>1, <1>3, <1>4, <1>5 DEF EntityInv, TypeOK, Stage1Inv
  <1>7. handlers'[h] = l /\ \A g \in Handlers \ {h} : handlers'[g] = handlers[g]
    BY <1>1 DEF EntityInv, TypeOK
  <1>8. /\ outbox'[r] = NewItem(TRUE)
        /\ \A q \in Rids : outbox[q] \in Item => outbox'[q] \in Item
    BY <1>1, <1>2, <1>4 DEF Fits, EntityInv, TypeOK
  <1>9. HandlersFit'
    <2> SUFFICES ASSUME NEW g \in Handlers PROVE Fits(handlers[g], g)'
      BY DEF HandlersFit
    <2>1. CASE g = h
      BY <2>1, <1>1, <1>2, <1>3, <1>4, <1>7, <1>8 DEF Fits, stage1Vars
    <2>2. CASE g # h
      <3>1. PICK k : k = handlers[g]
        OBVIOUS
      <3>2. Fits(k, g) /\ handlers'[g] = k
        BY <2>2, <3>1, <1>7 DEF EntityInv, HandlersFit
      <3>3. k.pc = "last_sync" /\ ~k.ok => outbox'[k.request_id] \in Item
        BY <3>2, <1>8 DEF Fits
      <3>4. Fits(k, g)'
        BY <3>2, <3>3, <1>1 DEF Fits, stage1Vars
      <3> QED
        BY <3>2, <3>4
    <2> QED
      BY <2>1, <2>2
  <1>10. DocumentsAreOwn'
    BY <1>1, <1>3, <1>7 DEF EntityInv, DocumentsAreOwn
  <1>11. RequestsAreStored' /\ RemoteKnowsOnlyStored' /\ OkMeansApplied'
    BY <1>1 DEF EntityInv, RequestsAreStored, RemoteKnowsOnlyStored, OkMeansApplied,
                stage1Vars
  <1>12. FailureIsQueued'
    <2> SUFFICES ASSUME NEW i \in Ids, db[i] # Null, db[i].last_sync # Null,
                        ~db[i].last_sync.ok
                 PROVE  LET q == db[i].last_sync.request_id
                        IN  outbox'[q] # Null /\ requests[q] # Null /\ requests[q].id = i
      BY <1>1 DEF FailureIsQueued, stage1Vars
    <2>1. PICK s \in LastSync : s = db[i].last_sync
      BY DEF EntityInv, TypeOK, Doc
    <2>2. /\ s.request_id \in Rids /\ outbox[s.request_id] # Null
          /\ requests[s.request_id] # Null /\ requests[s.request_id].id = i
      BY <2>1 DEF EntityInv, FailureIsQueued, LastSync
    <2>3. outbox[s.request_id] \in Item
      BY <2>2 DEF EntityInv, TypeOK
    <2> QED
      BY <1>8, <2>1, <2>2, <2>3, NullIsNoRecord
  <1> QED
    BY <1>5, <1>6, <1>9, <1>10, <1>11, <1>12 DEF EntityInv

LEMMA EnqueueKeeps ==
    ASSUME EntityInv, NEW h \in Handlers, Enqueue(h)
    PROVE  EntityInv'
  <1>1. PICK k \in Handler : k = handlers[h]
    BY DEF EntityInv, TypeOK
  <1>2. PICK l : l = [k EXCEPT !.pc = "last_sync"]
    OBVIOUS
  <1>3. /\ k.pc = "enqueue"
        /\ outbox' = [outbox EXCEPT ![k.request_id] = NewItem(TRUE)]
        /\ handlers' = [handlers EXCEPT ![h] = l]
        /\ UNCHANGED <<stage1Vars, db>>
    BY <1>1, <1>2 DEF Enqueue, At, EntityInv, TypeOK
  <1>4. ~k.ok
    BY <1>1, <1>3 DEF EntityInv, HandlersFit, Fits
  <1>5. l \in Handler /\ l.pc = "last_sync" /\ l.id = k.id
        /\ l.request_id = k.request_id /\ ~l.ok
    BY <1>2, <1>4 DEF Handler
  <1> QED
    BY <1>1, <1>3, <1>5, ItemQueued

LEMMA EnqueueUnconfirmedKeeps ==
    ASSUME EntityInv, NEW h \in Handlers, EnqueueUnconfirmed(h)
    PROVE  EntityInv'
  <1>1. PICK l \in Handler : l = Ended("ok") /\ l.pc = "idle"
    BY EndedFits DEF Answers
  <1>2. /\ handlers[h].pc = "enqueue"
        /\ outbox' = [outbox EXCEPT ![handlers[h].request_id] = NewItem(TRUE)]
        /\ handlers' = [handlers EXCEPT ![h] = l]
        /\ UNCHANGED <<stage1Vars, db>>
    BY <1>1 DEF EnqueueUnconfirmed, At
  <1> QED
    BY <1>1, <1>2, ItemQueued

\* Stage 1 applies requests that exist, or the process dies.
LEMMA EnvironmentKeeps ==
    ASSUME EntityInv, Stage1Inv', UNCHANGED <<requests, db, outbox>>,
           applied \subseteq applied',
           \A i \in Ids : remote'[i] # Null =>
              \/ remote[i] # Null
              \/ \E r \in Rids : requests[r] \in Request /\ requests[r].id = i,
           \/ UNCHANGED handlers /\ \A h \in Handlers : calls'[h].request_id = calls[h].request_id
           \/ handlers' = [h \in Handlers |-> Ended("none")]
    PROVE  EntityInv'
  <1>1. TypeOK'
    <2>1. Ended("none") \in Handler
      BY EndedFits DEF Answers
    <2> QED
      BY <2>1 DEF EntityInv, TypeOK, Stage1Inv
  <1>2. HandlersFit'
    BY DEF EntityInv, HandlersFit, Fits, Ended
  <1>3. DocumentsAreOwn'
    BY DEF EntityInv, DocumentsAreOwn, Ended
  <1>4. RequestsAreStored' /\ RemoteKnowsOnlyStored'
    BY NullIsNoRecord DEF EntityInv, RequestsAreStored, RemoteKnowsOnlyStored
  <1>5. OkMeansApplied' /\ FailureIsQueued'
    BY DEF EntityInv, OkMeansApplied, FailureIsQueued
  <1> QED
    BY <1>1, <1>2, <1>3, <1>4, <1>5 DEF EntityInv

\* A handler answers without having written anything.
LEMMA HandlerEnds ==
    ASSUME EntityInv, NEW h \in Handlers, NEW answer \in Answers,
           handlers' = [handlers EXCEPT ![h] = Ended(answer)],
           UNCHANGED <<stage1Vars, db, outbox>>
    PROVE  EntityInv'
  <1>1. Stage1Inv'
    BY StutterKeeps DEF EntityInv
  <1> QED
    BY <1>1, EndedFits, HandlerMoves DEF stage1Vars

\* A handler has a document in memory that it is about to save (Loaded).
LEMMA LoadedKeeps ==
    ASSUME EntityInv, NEW h \in Handlers, NEW i \in Ids, NEW doc \in Doc,
           NEW dirty \in SUBSET {"name", "enabled", "deleted"},
           db[i] \in Doc \/ doc.last_sync = Null,
           handlers' = [handlers EXCEPT ![h] = Loaded(h, i, doc, dirty)],
           UNCHANGED <<stage1Vars, db, outbox>>
    PROVE  EntityInv'
  <1> DEFINE l == Loaded(h, i, doc, dirty)
  <1>1. l \in Handler /\ l.pc = "save" /\ l.id = i /\ l.doc = doc /\ ~l.ok
    BY DEF Loaded, Ended, Handler, Answers
  <1> HIDE DEF l
  <1>2. Fits(l, h)'
    BY <1>1 DEF Fits
  <1>3. Stage1Inv'
    BY StutterKeeps DEF EntityInv
  <1>4. handlers' = [handlers EXCEPT ![h] = l]
    BY DEF l
  <1> QED
    BY <1>1, <1>2, <1>3, <1>4, HandlerMoves DEF stage1Vars

LEMMA CreateKeeps ==
    ASSUME EntityInv, NEW h \in Handlers, NEW i \in Ids, NEW name \in Names,
           NEW enabled \in BOOLEAN, Create(h, i, name, enabled)
    PROVE  EntityInv'
  <1> DEFINE doc == [name |-> name, enabled |-> enabled, deleted |-> FALSE,
                     v |-> 0, last_sync |-> Null]
  <1>1. doc \in Doc /\ doc.last_sync = Null
    BY DEF Doc
  <1>2. handlers' = [handlers EXCEPT ![h] =
                       Loaded(h, i, doc, {"name", "enabled", "deleted"})]
        /\ UNCHANGED <<stage1Vars, db, outbox>>
    BY DEF Create
  <1> HIDE DEF doc
  <1> QED
    BY <1>1, <1>2, LoadedKeeps

LEMMA ModifiedType ==
    ASSUME NEW old, NEW new
    PROVE  Modified(old, new) \in SUBSET {"name", "enabled", "deleted"}
  BY DEF Modified

LEMMA UpdateKeeps ==
    ASSUME EntityInv, NEW h \in Handlers, NEW i \in Ids, NEW name \in Names,
           NEW enabled \in BOOLEAN, Update(h, i, name, enabled)
    PROVE  EntityInv'
  <1> DEFINE new == [db[i] EXCEPT !.name = name, !.enabled = enabled]
  <1>1. db[i] \in Doc
    BY DEF Update, Visible, EntityInv, TypeOK
  <1>2. new \in Doc
    BY <1>1 DEF Doc
  <1>3. handlers' = [handlers EXCEPT ![h] = Loaded(h, i, new, Modified(db[i], new))]
        /\ UNCHANGED <<stage1Vars, db, outbox>>
    BY DEF Update
  <1> HIDE DEF new
  <1> QED
    BY <1>1, <1>2, <1>3, ModifiedType, LoadedKeeps

LEMMA DeleteKeeps ==
    ASSUME EntityInv, NEW h \in Handlers, NEW i \in Ids, Delete(h, i)
    PROVE  EntityInv'
  <1> DEFINE new == [db[i] EXCEPT !.enabled = FALSE, !.deleted = TRUE]
  <1>1. db[i] \in Doc
    BY DEF Delete, Visible, EntityInv, TypeOK
  <1>2. new \in Doc
    BY <1>1 DEF Doc
  <1>3. handlers' = [handlers EXCEPT ![h] = Loaded(h, i, new, Modified(db[i], new))]
        /\ UNCHANGED <<stage1Vars, db, outbox>>
    BY DEF Delete
  <1> HIDE DEF new
  <1> QED
    BY <1>1, <1>2, <1>3, ModifiedType, LoadedKeeps

\* What is stored by a save is a document; its last_sync is the stored one,
\* or that of the new document, and deleted_at only changes if it was
\* modified (Saved).
LEMMA SavedType ==
    ASSUME NEW stored \in Doc \cup {Null}, NEW doc \in Doc, NEW dirty,
           NEW increment \in {0, 1}
    PROVE  \E new \in Doc :
              /\ new = Saved(stored, doc, dirty, increment)
              /\ new.last_sync = IF stored = Null THEN doc.last_sync
                                 ELSE stored.last_sync
              /\ stored # Null /\ "deleted" \in dirty => new.deleted = doc.deleted
              /\ stored # Null /\ "deleted" \notin dirty => new.deleted = stored.deleted
  <1>1. CASE stored = Null
    BY <1>1 DEF Saved
  <1>2. CASE stored # Null
    <2>1. PICK name : name = IF "name" \in dirty THEN doc.name ELSE stored.name
      OBVIOUS
    <2>2. PICK enabled :
             enabled = IF "enabled" \in dirty THEN doc.enabled ELSE stored.enabled
      OBVIOUS
    <2>3. PICK deleted :
             deleted = IF "deleted" \in dirty THEN doc.deleted ELSE stored.deleted
      OBVIOUS
    <2>4. name \in Names /\ enabled \in BOOLEAN /\ deleted \in BOOLEAN
          /\ stored.v + increment \in Nat
      BY <1>2, <2>1, <2>2, <2>3 DEF Doc
    <2>5. PICK new : new = [stored EXCEPT !.name = name, !.enabled = enabled,
                                          !.deleted = deleted,
                                          !.v = stored.v + increment]
      OBVIOUS
    <2>6. new = Saved(stored, doc, dirty, increment)
      BY <1>2, <2>1, <2>2, <2>3, <2>5, Zenon DEF Saved
    <2>7. new \in Doc /\ new.last_sync = stored.last_sync /\ new.deleted = deleted
      BY <1>2, <2>4, <2>5 DEF Doc
    <2> QED
      BY <1>2, <2>3, <2>6, <2>7
  <1> QED
    BY <1>1, <1>2

\* A save that is answered with an error may have been made.
LEMMA SaveUnconfirmedKeeps ==
    ASSUME EntityInv, NEW h \in Handlers, SaveUnconfirmed(h)
    PROVE  EntityInv'
  <1>1. PICK l \in Handler : l = handlers[h]
    BY DEF EntityInv, TypeOK
  <1>2. PICK increment \in {0, 1} : increment = IF SetsArray(h) THEN 1 ELSE 0
    OBVIOUS
  <1>3. l.pc = "save" /\ l.id \in Ids /\ l.doc \in Doc
    BY <1>1 DEF SaveUnconfirmed, At, EntityInv, HandlersFit, Fits
  <1>4. PICK stored \in Doc \cup {Null} : stored = db[l.id]
    BY <1>3 DEF EntityInv, TypeOK
  <1>5. PICK doc \in Doc :
          /\ doc = Saved(stored, l.doc, l.dirty, increment)
          /\ doc.last_sync = IF stored = Null THEN l.doc.last_sync
                             ELSE stored.last_sync
    BY <1>3, SavedType
  <1>6. db' = [db EXCEPT ![l.id] = doc]
        /\ handlers' = [handlers EXCEPT ![h] = Ended("error")]
        /\ UNCHANGED <<stage1Vars, outbox>>
    BY <1>1, <1>2, <1>4, <1>5 DEF SaveUnconfirmed
  <1>7. Ended("error") \in Handler /\ Ended("error").pc = "idle"
        /\ Fits(Ended("error"), h)'
    BY EndedFits DEF Answers
  <1>8. doc.last_sync = Null \/ (db[l.id] \in Doc /\ doc.last_sync = db[l.id].last_sync)
    BY <1>1, <1>3, <1>4, <1>5, NullIsNoRecord DEF EntityInv, DocumentsAreOwn
  <1> QED
    BY <1>3, <1>6, <1>7, <1>8, DocumentSaved

LEMMA SaveKeeps ==
    ASSUME EntityInv, NEW h \in Handlers, Save(h)
    PROVE  EntityInv'
  <1>1. PICK l \in Handler : l = handlers[h]
    BY DEF EntityInv, TypeOK
  <1>2. PICK increment \in {0, 1} : increment = IF SetsArray(h) THEN 1 ELSE 0
    OBVIOUS
  <1>3. l.pc = "save" /\ Fits(l, h)
    BY <1>1 DEF Save, At, EntityInv, HandlersFit
  <1>4. l.id \in Ids /\ l.doc \in Doc /\ ~l.ok
    BY <1>3 DEF Fits
  <1>5. PICK stored \in Doc \cup {Null} : stored = db[l.id]
    BY <1>4 DEF EntityInv, TypeOK
  <1>6. PICK doc \in Doc :
          /\ doc = Saved(stored, l.doc, l.dirty, increment)
          /\ doc.last_sync = IF stored = Null THEN l.doc.last_sync
                             ELSE stored.last_sync
    BY <1>4, SavedType
  <1>7. PICK memory : memory = [l.doc EXCEPT !.v = @ + increment]
    OBVIOUS
  <1>8. PICK new : new = [l EXCEPT !.pc = "sync", !.dirty = {}, !.doc = memory]
    OBVIOUS
  <1>9. UNCHANGED <<stage1Vars, outbox>>
    BY DEF Save
  <1>10. db' = [db EXCEPT ![l.id] = doc]
    BY <1>1, <1>2, <1>5, <1>6 DEF Save
  <1>11. handlers' = [handlers EXCEPT ![h] = new]
    BY <1>1, <1>2, <1>7, <1>8 DEF Save
  <1>12. memory \in Doc
    BY <1>4, <1>7 DEF Doc
  <1>13. new \in Handler /\ new.pc = "sync" /\ new.id = l.id /\ new.doc = memory
         /\ ~new.ok
    BY <1>4, <1>8, <1>12 DEF Handler
  <1>14. db'[l.id] = doc
    BY <1>4, <1>10 DEF EntityInv, TypeOK
  <1>15. Fits(new, h)'
    BY <1>4, <1>12, <1>13, <1>14 DEF Fits
  <1>16. doc.last_sync = Null \/ (db[l.id] \in Doc /\ doc.last_sync = db[l.id].last_sync)
    BY <1>1, <1>3, <1>5, <1>6, NullIsNoRecord DEF EntityInv, DocumentsAreOwn
  <1> QED
    BY <1>4, <1>9, <1>10, <1>11, <1>13, <1>15, <1>16, DocumentSaved

\* The request is new, so no earlier one loses its payload (BuildPayload).
LEMMA BuildPayloadAdds ==
    ASSUME EntityInv, NEW h \in Handlers, handlers[h].pc = "sync",
           NEW r \in Rids, BuildPayload(h, r)
    PROVE  /\ requests' \in [Rids -> Request \cup {Null}]
           /\ requests[r] = Null
           /\ requests'[r] \in Request
           /\ requests'[r].id = handlers[h].id
           /\ db[handlers[h].id] \in Doc
           /\ \A q \in Rids \ {r} : requests'[q] = requests[q]
  <1>1. PICK l : l = handlers[h]
    OBVIOUS
  <1> DEFINE new == [id |-> l.id,
                     body |-> [name |-> l.doc.name, enabled |-> l.doc.enabled]]
  <1>2. l.id \in Ids /\ l.doc \in Doc /\ db[l.id] \in Doc
    BY <1>1 DEF EntityInv, HandlersFit, Fits
  <1>3. new \in Request /\ new.id = l.id
    BY <1>2 DEF Doc, Request, Body
  <1>4. requests' = [requests EXCEPT ![r] = new] /\ requests[r] = Null
    BY <1>1 DEF BuildPayload
  <1> HIDE DEF new
  <1> QED
    BY <1>1, <1>2, <1>3, <1>4 DEF EntityInv, Stage1Inv, Stage1TypeOK

LEMMA SyncKeeps ==
    ASSUME EntityInv, NEW h \in Handlers, NEW r \in Rids, Sync(h, r)
    PROVE  EntityInv'
  <1>1. PICK l \in Handler : l = handlers[h]
    BY DEF EntityInv, TypeOK
  <1>2. PICK new : new = [l EXCEPT !.pc = "await", !.request_id = r, !.doc = Null]
    OBVIOUS
  <1>3. /\ l.pc = "sync" /\ BuildPayload(h, r) /\ Post(h, r)
        /\ handlers' = [handlers EXCEPT ![h] = new]
        /\ UNCHANGED <<late, remote, applied, db, outbox>>
    BY <1>1, <1>2 DEF Sync, At, EntityInv, TypeOK
  <1>4. /\ requests' \in [Rids -> Request \cup {Null}]
        /\ requests[r] = Null
        /\ requests'[r] \in Request
        /\ requests'[r].id = l.id
        /\ db[l.id] \in Doc
        /\ \A q \in Rids \ {r} : requests'[q] = requests[q]
    BY <1>1, <1>3, BuildPayloadAdds
  <1>5. h \in Callers /\ \A q \in Rids : requests[q] \in Request => requests'[q] \in Request
    BY <1>4, EntityServiceAssumption
  <1>6. Stage1Inv'
    BY <1>3, <1>4, <1>5, PostKeeps DEF EntityInv
  <1>7. calls' = [calls EXCEPT ![h] = [st |-> "sent", request_id |-> r]]
        /\ calls \in [Callers -> Call]
    BY <1>3 DEF Post, EntityInv, Stage1Inv, Stage1TypeOK
  <1>8. calls'[h].request_id = r /\ \A c \in Callers \ {h} : calls'[c] = calls[c]
    BY <1>5, <1>7
  <1>9. new \in Handler /\ new.pc = "await" /\ new.id = l.id /\ new.request_id = r
    BY <1>2 DEF Handler
  <1>10. l.id \in Ids
    BY <1>1, <1>3 DEF EntityInv, HandlersFit, Fits
  <1>11. Fits(new, h)'
    BY <1>3, <1>4, <1>8, <1>9, <1>10 DEF Fits
  <1> QED
    BY <1>3, <1>4, <1>6, <1>8, <1>9, <1>11, HandlerMoves

LEMMA SyncThrowsKeeps ==
    ASSUME EntityInv, NEW h \in Handlers, NEW r \in Rids, SyncThrows(h, r)
    PROVE  EntityInv'
  <1>1. PICK l \in Handler : l = handlers[h]
    BY DEF EntityInv, TypeOK
  <1>2. PICK new : new = [l EXCEPT !.pc = "enqueue", !.request_id = r, !.doc = Null]
    OBVIOUS
  <1>3. /\ l.pc = "sync" /\ BuildPayload(h, r)
        /\ handlers' = [handlers EXCEPT ![h] = new]
        /\ UNCHANGED <<calls, late, remote, applied, db, outbox>>
    BY <1>1, <1>2 DEF SyncThrows, At, EntityInv, TypeOK
  <1>4. /\ requests' \in [Rids -> Request \cup {Null}]
        /\ requests[r] = Null
        /\ requests'[r] \in Request
        /\ requests'[r].id = l.id
        /\ db[l.id] \in Doc
        /\ \A q \in Rids \ {r} : requests'[q] = requests[q]
    BY <1>1, <1>3, BuildPayloadAdds
  <1>5. \A q \in Rids : requests[q] \in Request => requests'[q] \in Request
    BY <1>4
  <1>6. Stage1Inv'
    BY <1>3, <1>4, <1>5
       DEF EntityInv, Stage1Inv, Stage1TypeOK, CallsAreRequests, LateAreRequests,
           AckedIsApplied, Body, Call
  <1>7. l.id \in Ids /\ ~l.ok
    BY <1>1, <1>3 DEF EntityInv, HandlersFit, Fits
  <1>8. new \in Handler /\ new.pc = "enqueue" /\ new.id = l.id /\ new.request_id = r
        /\ ~new.ok
    BY <1>2, <1>7 DEF Handler
  <1>9. Fits(new, h)'
    BY <1>3, <1>4, <1>7, <1>8 DEF Fits
  <1> QED
    BY <1>3, <1>4, <1>6, <1>8, <1>9, HandlerMoves

LEMMA LambdaOkKeeps ==
    ASSUME EntityInv, NEW h \in Handlers, LambdaOk(h)
    PROVE  EntityInv'
  <1>1. PICK l \in Handler : l = handlers[h]
    BY DEF EntityInv, TypeOK
  <1>2. PICK new : new = [l EXCEPT !.pc = "last_sync", !.ok = TRUE]
    OBVIOUS
  <1>3. /\ l.pc = "await" /\ ReadOk(h) /\ h \in Callers
        /\ handlers' = [handlers EXCEPT ![h] = new]
        /\ UNCHANGED <<requests, remote, applied, db, outbox>>
    BY <1>1, <1>2, EntityServiceAssumption DEF LambdaOk, At, EntityInv, TypeOK
  <1>4. Stage1Inv' /\ calls[h].request_id \in applied
    BY <1>3, ReadOkKeeps DEF EntityInv
  <1>5. \A c \in Callers \ {h} : calls'[c] = calls[c]
    BY <1>3 DEF ReadOk, EntityInv, Stage1Inv, Stage1TypeOK
  <1>6. Fits(l, h)
    BY <1>1 DEF EntityInv, HandlersFit
  <1>7. new \in Handler /\ new.pc = "last_sync" /\ new.id = l.id
        /\ new.request_id = l.request_id /\ new.ok
    BY <1>2 DEF Handler
  <1>8. Fits(new, h)'
    BY <1>3, <1>4, <1>6, <1>7 DEF Fits
  <1> QED
    BY <1>3, <1>4, <1>5, <1>7, <1>8, HandlerMoves

LEMMA LambdaFailsKeeps ==
    ASSUME EntityInv, NEW h \in Handlers, LambdaFails(h)
    PROVE  EntityInv'
  <1>1. PICK l \in Handler : l = handlers[h]
    BY DEF EntityInv, TypeOK
  <1>2. PICK new : new = [l EXCEPT !.pc = "enqueue", !.ok = FALSE]
    OBVIOUS
  <1>3. /\ l.pc = "await" /\ ReadFailure(h) /\ h \in Callers
        /\ handlers' = [handlers EXCEPT ![h] = new]
        /\ UNCHANGED <<requests, remote, applied, db, outbox>>
    BY <1>1, <1>2, EntityServiceAssumption DEF LambdaFails, At, EntityInv, TypeOK
  <1>4. Stage1Inv'
    BY <1>3, ReadFailureKeeps DEF EntityInv
  <1>5. \A c \in Callers \ {h} : calls'[c] = calls[c]
    BY <1>3 DEF ReadFailure, EntityInv, Stage1Inv, Stage1TypeOK
  <1>6. Fits(l, h)
    BY <1>1 DEF EntityInv, HandlersFit
  <1>7. new \in Handler /\ new.pc = "enqueue" /\ new.id = l.id
        /\ new.request_id = l.request_id /\ ~new.ok
    BY <1>2 DEF Handler
  <1>8. Fits(new, h)'
    BY <1>3, <1>6, <1>7 DEF Fits
  <1> QED
    BY <1>3, <1>4, <1>5, <1>7, <1>8, HandlerMoves

LEMMA SaveLastSyncKeeps ==
    ASSUME EntityInv, NEW h \in Handlers, SaveLastSync(h)
    PROVE  EntityInv'
  <1>1. PICK l \in Handler : l = handlers[h]
    BY DEF EntityInv, TypeOK
  <1>2. PICK s : s = [ok |-> l.ok, request_id |-> l.request_id]
    OBVIOUS
  <1>3. PICK stored : stored = db[l.id]
    OBVIOUS
  <1>4. PICK doc : doc = [stored EXCEPT !.last_sync = s]
    OBVIOUS
  <1>5. /\ l.pc = "last_sync"
        /\ db' = [db EXCEPT ![l.id] = doc]
        /\ handlers' = [handlers EXCEPT ![h] = Ended("ok")]
        /\ UNCHANGED <<stage1Vars, outbox>>
    BY <1>1, <1>2, <1>3, <1>4 DEF SaveLastSync, At
  <1>6. Fits(l, h)
    BY <1>1 DEF EntityInv, HandlersFit
  <1>7. s \in LastSync /\ s.ok = l.ok /\ s.request_id = l.request_id
    BY <1>2, <1>5, <1>6 DEF LastSync, Handler, Fits
  <1>8. doc \in Doc /\ doc.last_sync = s /\ l.id \in Ids
    BY <1>3, <1>4, <1>5, <1>6, <1>7 DEF Doc, Fits
  <1>9. /\ requests[s.request_id] \in Request
        /\ requests[s.request_id].id = l.id
        /\ IF s.ok THEN s.request_id \in applied ELSE outbox[s.request_id] \in Item
    BY <1>5, <1>6, <1>7 DEF Fits
  <1>10. Ended("ok") \in Handler /\ Ended("ok").pc = "idle" /\ Fits(Ended("ok"), h)'
    BY EndedFits DEF Answers
  <1> QED
    BY <1>5, <1>7, <1>8, <1>9, <1>10, DocumentSaved

\* Steps that end in an answer and write nothing.
LEMMA AnswersKeep ==
    ASSUME EntityInv, NEW h \in Handlers,
           \/ \E i \in Ids : FindOne(h, i)
           \/ SaveFails(h) \/ EnqueueFails(h) \/ SaveLastSyncFails(h)
    PROVE  EntityInv'
  <1>1. PICK answer \in Answers : handlers' = [handlers EXCEPT ![h] = Ended(answer)]
    BY DEF FindOne, SaveFails, EnqueueFails, SaveLastSyncFails, Answers
  <1>2. UNCHANGED <<stage1Vars, db, outbox>>
    BY DEF FindOne, SaveFails, EnqueueFails, SaveLastSyncFails
  <1> QED
    BY <1>1, <1>2, HandlerEnds

\* Stage 1 gets to know an entity only from a request about it.
LEMMA RemoteFromRequest ==
    ASSUME Stage1Inv, Stage1Step
    PROVE  \A i \in Ids : remote'[i] # Null =>
              \/ remote[i] # Null
              \/ \E r \in Rids : requests[r] \in Request /\ requests[r].id = i
  <1>1. ASSUME NEW r \in Rids, requests[r] \in Request, Upsert(r),
               NEW i \in Ids, remote'[i] # Null, remote[i] = Null
        PROVE  requests[r].id = i
    BY <1>1 DEF Upsert, Stage1Inv, Stage1TypeOK, Request
  <1>2. ASSUME NEW c \in Callers, Apply(c)
        PROVE  \E r \in Rids : requests[r] \in Request /\ Upsert(r)
    BY <1>2 DEF Apply, Stage1Inv, CallsAreRequests
  <1>3. ASSUME NEW r \in Rids, ApplyLate(r)
        PROVE  requests[r] \in Request /\ Upsert(r)
    BY <1>3 DEF ApplyLate, Stage1Inv, LateAreRequests
  <1>4. ASSUME NEW r \in Rids, LoseLate(r) PROVE remote' = remote
    BY <1>4 DEF LoseLate
  <1> QED
    BY <1>1, <1>2, <1>3, <1>4 DEF Stage1Step

\* The invariant is inductive.
LEMMA EntityInvInit ==
    Init => EntityInv
  <1> SUFFICES ASSUME Init PROVE EntityInv
    OBVIOUS
  <1>1. Stage1Inv
    BY InitEstablishes DEF Init
  <1>2. Ended("none") \in Handler /\ Ended("none").pc = "idle"
    BY EndedFits DEF Answers
  <1>3. TypeOK
    BY <1>1, <1>2 DEF Init, TypeOK, Stage1Inv
  <1>4. HandlersFit /\ DocumentsAreOwn
    BY <1>2 DEF Init, HandlersFit, Fits, DocumentsAreOwn
  <1>5. RequestsAreStored /\ RemoteKnowsOnlyStored /\ OkMeansApplied /\ FailureIsQueued
    BY NullIsNoRecord DEF Init, Stage1Init, RequestsAreStored, RemoteKnowsOnlyStored,
                          OkMeansApplied, FailureIsQueued
  <1> QED
    BY <1>1, <1>3, <1>4, <1>5 DEF EntityInv

LEMMA EntityInvNext ==
    EntityInv /\ [Next]_vars => EntityInv'
  <1> SUFFICES ASSUME EntityInv, [Next]_vars PROVE EntityInv'
    OBVIOUS
  <1>1. ASSUME NEW h \in Handlers, HandlerStep(h) PROVE EntityInv'
    <2>1. CASE \E i \in Ids, name \in Names, enabled \in BOOLEAN :
                  Create(h, i, name, enabled)
      BY <2>1, CreateKeeps
    <2>2. CASE UseExisting(h)
      BY <2>2, AnswersKeep, UpdateKeeps, DeleteKeeps DEF UseExisting
    <2>3. CASE Save(h) \/ SaveFails(h) \/ SaveUnconfirmed(h)
      BY <2>3, SaveKeeps, SaveUnconfirmedKeeps, AnswersKeep
    <2>4. CASE Synchronise(h)
      BY <2>4, SyncKeeps, SyncThrowsKeeps, LambdaOkKeeps, LambdaFailsKeeps,
         EnqueueKeeps, EnqueueUnconfirmedKeeps, SaveLastSyncKeeps, AnswersKeep DEF Synchronise
    <2> QED
      BY <1>1, <2>1, <2>2, <2>3, <2>4 DEF HandlerStep
  <1>2. ASSUME Stage1Step, UNCHANGED serviceVars PROVE EntityInv'
    <2>1. Stage1Inv' /\ requests' = requests /\ applied \subseteq applied'
      BY <1>2, Stage1StepKeeps DEF EntityInv
    <2>2. \A c \in Callers : calls'[c].request_id = calls[c].request_id
      BY <1>2 DEF Stage1Step, Apply, ApplyLate, LoseLate,
                  EntityInv, Stage1Inv, Stage1TypeOK, Call
    <2>3. \A i \in Ids : remote'[i] # Null =>
             \/ remote[i] # Null
             \/ \E r \in Rids : requests[r] \in Request /\ requests[r].id = i
      BY <1>2, RemoteFromRequest DEF EntityInv
    <2> QED
      BY <1>2, <2>1, <2>2, <2>3, EnvironmentKeeps, EntityServiceAssumption
         DEF serviceVars
  <1>3. ASSUME Crash PROVE EntityInv'
    <2>1. Stage1Inv'
      BY <1>3, DropCallsKeeps DEF Crash, EntityInv
    <2> QED
      BY <1>3, <2>1, EnvironmentKeeps DEF Crash
  <1>4. ASSUME UNCHANGED vars PROVE EntityInv'
    <2>1. Stage1Inv'
      BY <1>4, StutterKeeps DEF vars, EntityInv
    <2> QED
      BY <1>4, <2>1, EnvironmentKeeps DEF vars, serviceVars, stage1Vars
  <1> QED
    BY <1>1, <1>2, <1>3, <1>4 DEF Next

\* What a document's last_sync says is true for any number of handlers and
\* documents and any mix of crashes, failing saves and late deliveries: a
\* success was applied by Stage 1, a failure is in sync_outbox under the
\* request of that document; and Stage 1 knows stored entities only.
THEOREM LastSyncIsTrue ==
    Spec => [](TypeOK /\ OkMeansApplied /\ FailureIsQueued /\ RemoteKnowsOnlyStored)
  <1>1. EntityInv =>
          TypeOK /\ OkMeansApplied /\ FailureIsQueued /\ RemoteKnowsOnlyStored
    BY DEF EntityInv
  <1> QED
    BY <1>1, EntityInvInit, EntityInvNext, PTL DEF Spec

\* Every reachable state is well typed.
THEOREM EntityServiceTypes == Spec => []TypeOK
  BY LastSyncIsTrue, PTL

\* No document ever claims a successful synchronisation that Stage 1 did not
\* perform (last_sync.ok as the services store it).
THEOREM SuccessWasApplied == Spec => []OkMeansApplied
  BY LastSyncIsTrue, PTL

\* Stage 1 never knows an entity that is not stored: the services save before
\* they synchronise.
THEOREM Stage1KnowsStoredOnly == Spec => []RemoteKnowsOnlyStored
  BY LastSyncIsTrue, PTL

-----------------------------------------------------------------------------
(* A delete is final. *)

\* A document not stored yet is in the hands of the handler that creates it
\* alone, so nobody has it loaded when it is inserted.
CreatorIsAlone ==
    \A h \in Handlers : handlers[h].pc = "save" /\ db[handlers[h].id] = Null
        => /\ handlers[h].id # Null
           /\ \A g \in Handlers \ {h} : handlers[g].id # handlers[h].id

\* Over a stored document deleted_at is only ever set: an update does not
\* assign it, and a delete assigns it the current time.
OnlyDeletesAreDirty ==
    \A h \in Handlers :
        /\ handlers[h].pc = "save"
        /\ db[handlers[h].id] # Null
        /\ "deleted" \in handlers[h].dirty
        => handlers[h].doc.deleted

\* A handler that has answered has no document.
IdleHasNone == \A h \in Handlers : handlers[h].pc = "idle" => handlers[h].id = Null

DeleteInv == CreatorIsAlone /\ OnlyDeletesAreDirty /\ IdleHasNone

StaysDeleted == \A i \in Ids : db[i] # Null /\ db[i].deleted
                                  => db'[i] # Null /\ db'[i].deleted

\* A step of a handler that stores nothing, with the document it had, none,
\* one that is stored, or one that nobody has.
LEMMA MoveNeverUndeletes ==
    ASSUME EntityInv, DeleteInv, UNCHANGED db,
           NEW h \in Handlers, NEW l \in Handler,
           handlers' = [handlers EXCEPT ![h] = l],
           \/ l.id \in {handlers[h].id, Null}
           \/ db[l.id] # Null
           \/ \A g \in Handlers : handlers[g].id # l.id,
           l.pc = "idle" => l.id = Null,
           l.pc = "save" =>
              /\ db[l.id] = Null =>
                    l.id # Null /\ \A g \in Handlers \ {h} : handlers[g].id # l.id
              /\ db[l.id] # Null /\ "deleted" \in l.dirty => l.doc.deleted
    PROVE  DeleteInv' /\ StaysDeleted
  <1>1. handlers'[h] = l /\ \A g \in Handlers \ {h} : handlers'[g] = handlers[g]
    BY DEF EntityInv, TypeOK
  <1>2. CreatorIsAlone'
    <2> SUFFICES ASSUME NEW g \in Handlers, handlers'[g].pc = "save",
                        db[handlers'[g].id] = Null
                 PROVE  /\ handlers'[g].id # Null
                        /\ \A k \in Handlers \ {g} : handlers'[k].id # handlers'[g].id
      BY DEF CreatorIsAlone
    <2>1. CASE g = h
      BY <2>1, <1>1
    <2>2. CASE g # h
      BY <2>2, <1>1 DEF DeleteInv, CreatorIsAlone
    <2> QED
      BY <2>1, <2>2
  <1>3. OnlyDeletesAreDirty'
    BY <1>1 DEF DeleteInv, OnlyDeletesAreDirty
  <1>4. IdleHasNone'
    BY <1>1 DEF DeleteInv, IdleHasNone
  <1> QED
    BY <1>2, <1>3, <1>4 DEF DeleteInv, StaysDeleted

\* A step of a handler that stores a document it is the creator of, or that
\* was stored before and stays deleted if it was.
LEMMA StoringNeverUndeletes ==
    ASSUME EntityInv, DeleteInv,
           NEW h \in Handlers, NEW l \in Handler,
           handlers' = [handlers EXCEPT ![h] = l],
           l.pc # "save", l.id \in {handlers[h].id, Null},
           l.pc = "idle" => l.id = Null,
           NEW i \in Ids, NEW doc \in Doc, i = handlers[h].id,
           db' = [db EXCEPT ![i] = doc],
           db[i] = Null => handlers[h].pc = "save",
           db[i] # Null /\ db[i].deleted => doc.deleted
    PROVE  DeleteInv' /\ StaysDeleted
  <1>1. handlers'[h] = l /\ \A g \in Handlers \ {h} : handlers'[g] = handlers[g]
    BY DEF EntityInv, TypeOK
  <1>2. db'[i] = doc /\ \A j \in Ids \ {i} : db'[j] = db[j]
    BY DEF EntityInv, TypeOK
  <1>3. \A g \in Handlers \ {h} : handlers[g].pc = "save" => handlers[g].id \in Ids
    BY DEF EntityInv, HandlersFit, Fits
  <1>4. CreatorIsAlone'
    BY <1>1, <1>2, <1>3, NullIsNoRecord DEF DeleteInv, CreatorIsAlone
  <1>5. OnlyDeletesAreDirty'
    BY <1>1, <1>2, <1>3 DEF DeleteInv, CreatorIsAlone, OnlyDeletesAreDirty
  <1>6. IdleHasNone'
    BY <1>1 DEF DeleteInv, IdleHasNone
  <1>7. StaysDeleted
    BY <1>2, NullIsNoRecord DEF StaysDeleted
  <1> QED
    BY <1>4, <1>5, <1>6, <1>7 DEF DeleteInv

LEMMA CreateNeverUndeletes ==
    ASSUME EntityInv, DeleteInv, NEW h \in Handlers, NEW i \in Ids,
           NEW name \in Names, NEW enabled \in BOOLEAN, Create(h, i, name, enabled)
    PROVE  DeleteInv' /\ StaysDeleted
  <1>1. PICK doc \in Doc :
          doc = [name |-> name, enabled |-> enabled, deleted |-> FALSE, v |-> 0,
                 last_sync |-> Null]
    BY DEF Doc
  <1>2. PICK l : l = Loaded(h, i, doc, {"name", "enabled", "deleted"})
    OBVIOUS
  <1>3. l \in Handler /\ l.pc = "save" /\ l.id = i
    BY <1>2 DEF Loaded, Ended, Handler, Answers
  <1>4. handlers' = [handlers EXCEPT ![h] = l] /\ UNCHANGED db
    BY <1>1, <1>2 DEF Create
  <1>5. handlers[h].pc = "idle" /\ db[i] = Null
        /\ \A g \in Handlers : handlers[g].id # i
    BY DEF Create, Idle
  <1>6. i # Null
    BY <1>5 DEF DeleteInv, IdleHasNone
  <1> QED
    BY <1>3, <1>4, <1>5, <1>6, MoveNeverUndeletes


\* A handler that has found a document changes its copy; deleted_at is a
\* modified path only if it is set.
LEMMA FoundNeverUndeletes ==
    ASSUME EntityInv, DeleteInv, NEW h \in Handlers, NEW i \in Ids, db[i] \in Doc,
           NEW new \in Doc, db[i].deleted => new.deleted,
           handlers' = [handlers EXCEPT ![h] = Loaded(h, i, new, Modified(db[i], new))],
           UNCHANGED db
    PROVE  DeleteInv' /\ StaysDeleted
  <1>1. PICK dirty \in SUBSET {"name", "enabled", "deleted"} :
          /\ dirty = Modified(db[i], new)
          /\ "deleted" \in dirty => db[i].deleted # new.deleted
    BY DEF Modified
  <1>2. PICK l : l = Loaded(h, i, new, dirty)
    OBVIOUS
  <1>3. l \in Handler /\ l.pc = "save" /\ l.id = i /\ l.dirty = dirty /\ l.doc = new
    BY <1>2 DEF Loaded, Ended, Handler, Answers
  <1>4. handlers' = [handlers EXCEPT ![h] = l]
    BY <1>1, <1>2
  <1>5. "deleted" \in dirty => new.deleted
    BY <1>1 DEF Doc
  <1> QED
    BY <1>3, <1>4, <1>5, NullIsNoRecord, MoveNeverUndeletes

LEMMA UpdateNeverUndeletes ==
    ASSUME EntityInv, DeleteInv, NEW h \in Handlers, NEW i \in Ids,
           NEW name \in Names, NEW enabled \in BOOLEAN, Update(h, i, name, enabled)
    PROVE  DeleteInv' /\ StaysDeleted
  <1>1. db[i] \in Doc
    BY DEF Update, Visible, EntityInv, TypeOK
  <1>2. PICK new : new = [db[i] EXCEPT !.name = name, !.enabled = enabled]
    OBVIOUS
  <1>3. new \in Doc /\ new.deleted = db[i].deleted
    BY <1>1, <1>2 DEF Doc
  <1>4. handlers' = [handlers EXCEPT ![h] = Loaded(h, i, new, Modified(db[i], new))]
        /\ UNCHANGED db
    BY <1>2 DEF Update
  <1> QED
    BY <1>1, <1>3, <1>4, FoundNeverUndeletes

LEMMA DeleteNeverUndeletes ==
    ASSUME EntityInv, DeleteInv, NEW h \in Handlers, NEW i \in Ids, Delete(h, i)
    PROVE  DeleteInv' /\ StaysDeleted
  <1>1. db[i] \in Doc
    BY DEF Delete, Visible, EntityInv, TypeOK
  <1>2. PICK new : new = [db[i] EXCEPT !.enabled = FALSE, !.deleted = TRUE]
    OBVIOUS
  <1>3. new \in Doc /\ new.deleted
    BY <1>1, <1>2 DEF Doc
  <1>4. handlers' = [handlers EXCEPT ![h] = Loaded(h, i, new, Modified(db[i], new))]
        /\ UNCHANGED db
    BY <1>2 DEF Delete
  <1> QED
    BY <1>1, <1>3, <1>4, FoundNeverUndeletes

\* The rest of a synchronisation works on the document it was started for.
LEMMA SyncingMoveNeverUndeletes ==
    ASSUME EntityInv, DeleteInv, NEW h \in Handlers, NEW l \in Handler,
           handlers' = [handlers EXCEPT ![h] = l], UNCHANGED db,
           l.id = handlers[h].id, l.pc \notin {"idle", "save"}
    PROVE  DeleteInv' /\ StaysDeleted
  BY MoveNeverUndeletes

\* A handler that answers lets go of its document.
LEMMA EndNeverUndeletes ==
    ASSUME EntityInv, DeleteInv, NEW h \in Handlers, NEW answer \in Answers,
           handlers' = [handlers EXCEPT ![h] = Ended(answer)], UNCHANGED db
    PROVE  DeleteInv' /\ StaysDeleted
  <1>1. PICK l \in Handler : l = Ended(answer)
    BY EndedFits
  <1>2. l.pc = "idle" /\ l.id = Null
    BY <1>1 DEF Ended
  <1> QED
    BY <1>1, <1>2, MoveNeverUndeletes

LEMMA SaveNeverUndeletes ==
    ASSUME EntityInv, DeleteInv, NEW h \in Handlers, Save(h)
    PROVE  DeleteInv' /\ StaysDeleted
  <1>1. PICK l \in Handler : l = handlers[h]
    BY DEF EntityInv, TypeOK
  <1>2. PICK increment \in {0, 1} : increment = IF SetsArray(h) THEN 1 ELSE 0
    OBVIOUS
  <1>3. l.pc = "save" /\ l.id \in Ids /\ l.doc \in Doc
    BY <1>1 DEF Save, At, EntityInv, HandlersFit, Fits
  <1>4. PICK stored \in Doc \cup {Null} : stored = db[l.id]
    BY <1>3 DEF EntityInv, TypeOK
  <1>5. PICK doc \in Doc :
          /\ doc = Saved(stored, l.doc, l.dirty, increment)
          /\ doc.last_sync = IF stored = Null THEN l.doc.last_sync
                             ELSE stored.last_sync
          /\ stored # Null /\ "deleted" \in l.dirty => doc.deleted = l.doc.deleted
          /\ stored # Null /\ "deleted" \notin l.dirty => doc.deleted = stored.deleted
    BY <1>3, SavedType
  <1>6. PICK memory : memory = [l.doc EXCEPT !.v = @ + increment]
    OBVIOUS
  <1>7. PICK new : new = [l EXCEPT !.pc = "sync", !.dirty = {}, !.doc = memory]
    OBVIOUS
  <1>8. db' = [db EXCEPT ![l.id] = doc]
    BY <1>1, <1>2, <1>4, <1>5 DEF Save
  <1>9. handlers' = [handlers EXCEPT ![h] = new]
    BY <1>1, <1>2, <1>6, <1>7 DEF Save
  <1>10. memory \in Doc
    BY <1>3, <1>6 DEF Doc
  <1>11. new \in Handler /\ new.pc = "sync" /\ new.id = l.id
    BY <1>7, <1>10 DEF Handler
  <1>12. db[l.id] # Null /\ db[l.id].deleted => doc.deleted
    BY <1>1, <1>3, <1>4, <1>5 DEF DeleteInv, OnlyDeletesAreDirty
  <1> QED
    BY <1>1, <1>3, <1>8, <1>9, <1>11, <1>12, StoringNeverUndeletes

LEMMA SaveUnconfirmedNeverUndeletes ==
    ASSUME EntityInv, DeleteInv, NEW h \in Handlers, SaveUnconfirmed(h)
    PROVE  DeleteInv' /\ StaysDeleted
  <1>1. PICK l \in Handler : l = handlers[h]
    BY DEF EntityInv, TypeOK
  <1>2. PICK increment \in {0, 1} : increment = IF SetsArray(h) THEN 1 ELSE 0
    OBVIOUS
  <1>3. l.pc = "save" /\ l.id \in Ids /\ l.doc \in Doc
    BY <1>1 DEF SaveUnconfirmed, At, EntityInv, HandlersFit, Fits
  <1>4. PICK stored \in Doc \cup {Null} : stored = db[l.id]
    BY <1>3 DEF EntityInv, TypeOK
  <1>5. PICK doc \in Doc :
          /\ doc = Saved(stored, l.doc, l.dirty, increment)
          /\ stored # Null /\ "deleted" \in l.dirty => doc.deleted = l.doc.deleted
          /\ stored # Null /\ "deleted" \notin l.dirty => doc.deleted = stored.deleted
    BY <1>3, SavedType
  <1>6. PICK new \in Handler : new = Ended("error") /\ new.pc = "idle"
    BY EndedFits DEF Answers
  <1>7. new.id = Null
    BY <1>6 DEF Ended
  <1>8. db' = [db EXCEPT ![l.id] = doc]
        /\ handlers' = [handlers EXCEPT ![h] = new]
    BY <1>1, <1>2, <1>4, <1>5, <1>6 DEF SaveUnconfirmed
  <1>9. db[l.id] # Null /\ db[l.id].deleted => doc.deleted
    BY <1>1, <1>3, <1>4, <1>5 DEF DeleteInv, OnlyDeletesAreDirty
  <1> QED
    BY <1>1, <1>3, <1>6, <1>7, <1>8, <1>9, StoringNeverUndeletes

LEMMA SaveLastSyncNeverUndeletes ==
    ASSUME EntityInv, DeleteInv, NEW h \in Handlers, SaveLastSync(h)
    PROVE  DeleteInv' /\ StaysDeleted
  <1>1. PICK l \in Handler : l = handlers[h]
    BY DEF EntityInv, TypeOK
  <1>2. l.pc = "last_sync" /\ l.id \in Ids /\ db[l.id] \in Doc
    BY <1>1 DEF SaveLastSync, At, EntityInv, HandlersFit, Fits
  <1>3. PICK s : s = [ok |-> l.ok, request_id |-> l.request_id]
    OBVIOUS
  <1>4. s \in LastSync
    BY <1>1, <1>2, <1>3 DEF LastSync, Handler, EntityInv, HandlersFit, Fits
  <1>5. PICK stored \in Doc : stored = db[l.id]
    BY <1>2
  <1>6. PICK doc : doc = [stored EXCEPT !.last_sync = s]
    OBVIOUS
  <1>7. doc \in Doc /\ doc.deleted = stored.deleted
    BY <1>4, <1>6 DEF Doc
  <1>8. db' = [db EXCEPT ![l.id] = doc]
        /\ handlers' = [handlers EXCEPT ![h] = Ended("ok")]
    BY <1>1, <1>3, <1>5, <1>6 DEF SaveLastSync
  <1>9. PICK new \in Handler : new = Ended("ok") /\ new.pc = "idle"
    BY EndedFits DEF Answers
  <1>10. new.id = Null
    BY <1>9 DEF Ended
  <1> QED
    BY <1>1, <1>2, <1>5, <1>7, <1>8, <1>9, <1>10, NullIsNoRecord, StoringNeverUndeletes

LEMMA SynchroniseNeverUndeletes ==
    ASSUME EntityInv, DeleteInv, NEW h \in Handlers, Synchronise(h)
    PROVE  DeleteInv' /\ StaysDeleted
  <1>1. PICK l \in Handler : l = handlers[h]
    BY DEF EntityInv, TypeOK
  <1>2. ASSUME NEW r \in Rids, Sync(h, r) PROVE DeleteInv' /\ StaysDeleted
    <2>1. PICK new : new = [l EXCEPT !.pc = "await", !.request_id = r, !.doc = Null]
      OBVIOUS
    <2>2. new \in Handler /\ new.pc = "await" /\ new.id = l.id
      BY <2>1 DEF Handler
    <2>3. handlers' = [handlers EXCEPT ![h] = new] /\ UNCHANGED db
      BY <1>1, <1>2, <2>1 DEF Sync, EntityInv, TypeOK
    <2> QED
      BY <1>1, <2>2, <2>3, SyncingMoveNeverUndeletes
  <1>3. ASSUME NEW r \in Rids, SyncThrows(h, r) PROVE DeleteInv' /\ StaysDeleted
    <2>1. PICK new : new = [l EXCEPT !.pc = "enqueue", !.request_id = r, !.doc = Null]
      OBVIOUS
    <2>2. new \in Handler /\ new.pc = "enqueue" /\ new.id = l.id
      BY <2>1 DEF Handler
    <2>3. handlers' = [handlers EXCEPT ![h] = new] /\ UNCHANGED db
      BY <1>1, <1>3, <2>1 DEF SyncThrows, EntityInv, TypeOK
    <2> QED
      BY <1>1, <2>2, <2>3, SyncingMoveNeverUndeletes
  <1>4. CASE LambdaOk(h)
    <2>1. PICK new : new = [l EXCEPT !.pc = "last_sync", !.ok = TRUE]
      OBVIOUS
    <2>2. new \in Handler /\ new.pc = "last_sync" /\ new.id = l.id
      BY <2>1 DEF Handler
    <2>3. handlers' = [handlers EXCEPT ![h] = new] /\ UNCHANGED db
      BY <1>1, <1>4, <2>1 DEF LambdaOk, EntityInv, TypeOK
    <2> QED
      BY <1>1, <2>2, <2>3, SyncingMoveNeverUndeletes
  <1>5. CASE LambdaFails(h)
    <2>1. PICK new : new = [l EXCEPT !.pc = "enqueue", !.ok = FALSE]
      OBVIOUS
    <2>2. new \in Handler /\ new.pc = "enqueue" /\ new.id = l.id
      BY <2>1 DEF Handler
    <2>3. handlers' = [handlers EXCEPT ![h] = new] /\ UNCHANGED db
      BY <1>1, <1>5, <2>1 DEF LambdaFails, EntityInv, TypeOK
    <2> QED
      BY <1>1, <2>2, <2>3, SyncingMoveNeverUndeletes
  <1>6. CASE Enqueue(h)
    <2>1. PICK new : new = [l EXCEPT !.pc = "last_sync"]
      OBVIOUS
    <2>2. new \in Handler /\ new.pc = "last_sync" /\ new.id = l.id
      BY <2>1 DEF Handler
    <2>3. handlers' = [handlers EXCEPT ![h] = new] /\ UNCHANGED db
      BY <1>1, <1>6, <2>1 DEF Enqueue, EntityInv, TypeOK
    <2> QED
      BY <1>1, <2>2, <2>3, SyncingMoveNeverUndeletes
  <1>7. CASE EnqueueFails(h) \/ EnqueueUnconfirmed(h) \/ SaveLastSyncFails(h)
    BY <1>7, EndNeverUndeletes
       DEF EnqueueFails, EnqueueUnconfirmed, SaveLastSyncFails, Answers
  <1> QED
    BY <1>2, <1>3, <1>4, <1>5, <1>6, <1>7, SaveLastSyncNeverUndeletes DEF Synchronise

LEMMA DeleteInvInit ==
    Init => DeleteInv
  <1> SUFFICES ASSUME Init PROVE DeleteInv
    OBVIOUS
  <1>1. Ended("none").pc = "idle" /\ Ended("none").id = Null
    BY DEF Ended
  <1>2. \A h \in Handlers : handlers[h] = Ended("none")
    BY <1>1 DEF Init
  <1> QED
    BY <1>1, <1>2 DEF DeleteInv, CreatorIsAlone, OnlyDeletesAreDirty, IdleHasNone

LEMMA DeleteInvNext ==
    EntityInv /\ DeleteInv /\ [Next]_vars => DeleteInv' /\ StaysDeleted
  <1> SUFFICES ASSUME EntityInv, DeleteInv, [Next]_vars
               PROVE  DeleteInv' /\ StaysDeleted
    OBVIOUS
  <1>1. ASSUME NEW h \in Handlers, HandlerStep(h) PROVE DeleteInv' /\ StaysDeleted
    <2>1. CASE \E i \in Ids, name \in Names, enabled \in BOOLEAN :
                  Create(h, i, name, enabled)
      BY <2>1, CreateNeverUndeletes
    <2>2. ASSUME NEW i \in Ids, FindOne(h, i) PROVE DeleteInv' /\ StaysDeleted
      <3>1. PICK answer \in Answers : handlers' = [handlers EXCEPT ![h] = Ended(answer)]
        BY <2>2 DEF FindOne, Answers
      <3> QED
        BY <2>2, <3>1, EndNeverUndeletes DEF FindOne
    <2>3. CASE UseExisting(h)
      BY <2>2, <2>3, UpdateNeverUndeletes, DeleteNeverUndeletes DEF UseExisting
    <2>4. CASE Save(h) \/ SaveFails(h) \/ SaveUnconfirmed(h)
      BY <2>4, SaveNeverUndeletes, SaveUnconfirmedNeverUndeletes, EndNeverUndeletes
         DEF SaveFails, Answers
    <2>5. CASE Synchronise(h)
      BY <2>5, SynchroniseNeverUndeletes
    <2> QED
      BY <1>1, <2>1, <2>3, <2>4, <2>5 DEF HandlerStep
  <1>2. CASE UNCHANGED <<db, handlers>>
    BY <1>2 DEF DeleteInv, CreatorIsAlone, OnlyDeletesAreDirty, IdleHasNone, StaysDeleted
  <1>3. CASE Crash
    <2>1. Ended("none").pc = "idle" /\ Ended("none").id = Null
      BY DEF Ended
    <2>2. \A h \in Handlers : handlers'[h] = Ended("none")
      BY <1>3, <2>1 DEF Crash
    <2> QED
      BY <1>3, <2>1, <2>2
         DEF Crash, DeleteInv, CreatorIsAlone, OnlyDeletesAreDirty, IdleHasNone, StaysDeleted
  <1> QED
    BY <1>1, <1>2, <1>3 DEF Next, vars, serviceVars

\* A soft-deleted document stays deleted, for any number of handlers: whoever
\* loaded it before the delete has no modification of deleted_at to save.
THEOREM DeleteIsForEver == Spec => DeletedIsFinal
  <1>1. Init => EntityInv /\ DeleteInv
    BY EntityInvInit, DeleteInvInit
  <1>2. EntityInv /\ DeleteInv /\ [Next]_vars => EntityInv' /\ DeleteInv'
    BY EntityInvNext, DeleteInvNext
  <1>3. EntityInv /\ DeleteInv /\ [Next]_vars => [StaysDeleted]_vars
    BY DeleteInvNext
  <1> QED
    BY <1>1, <1>2, <1>3, PTL DEF Spec, DeletedIsFinal, StaysDeleted

-----------------------------------------------------------------------------
(* A synchronisation never fails the request. *)

AnswersOk ==
    \A h \in Handlers :
        handlers[h].pc \in {"sync", "await", "enqueue", "last_sync"}
          => handlers'[h].answer \in {"none", "ok"}

\* A handler on its way has given no answer yet.
NoAnswerYet == \A h \in Handlers : handlers[h].pc # "idle" => handlers[h].answer = "none"

\* A step of one handler to l.
LEMMA MoveAnswers ==
    ASSUME TypeOK, NoAnswerYet, NEW h \in Handlers, NEW l \in Handler,
           handlers' = [handlers EXCEPT ![h] = l],
           l.pc # "idle" => l.answer = "none",
           handlers[h].pc \in {"sync", "await", "enqueue", "last_sync"}
             => l.answer \in {"none", "ok"}
    PROVE  NoAnswerYet' /\ AnswersOk
  BY DEF TypeOK, NoAnswerYet, AnswersOk

LEMMA EndAnswers ==
    ASSUME TypeOK, NoAnswerYet, NEW h \in Handlers, NEW answer \in Answers,
           handlers' = [handlers EXCEPT ![h] = Ended(answer)],
           handlers[h].pc \in {"idle", "save"} \/ answer = "ok"
    PROVE  NoAnswerYet' /\ AnswersOk
  <1>1. PICK l \in Handler : l = Ended(answer) /\ l.pc = "idle"
    BY EndedFits
  <1>2. l.answer = answer
    BY <1>1 DEF Ended
  <1> QED
    BY <1>1, <1>2, MoveAnswers

\* A handler loads a document, which it had none of.
LEMMA LoadAnswers ==
    ASSUME TypeOK, NoAnswerYet, NEW h \in Handlers, handlers[h].pc = "idle",
           NEW i \in Ids, NEW doc \in Doc,
           NEW dirty \in SUBSET {"name", "enabled", "deleted"},
           handlers' = [handlers EXCEPT ![h] = Loaded(h, i, doc, dirty)]
    PROVE  NoAnswerYet' /\ AnswersOk
  <1>1. PICK l : l = Loaded(h, i, doc, dirty)
    OBVIOUS
  <1>2. l \in Handler /\ l.answer = "none"
    BY <1>1 DEF Loaded, Ended, Handler, Answers
  <1> QED
    BY <1>1, <1>2, MoveAnswers

\* A handler that synchronises is past its save, and answers nothing but ok.
Moved(h) ==
    /\ handlers[h].pc \in {"sync", "await", "enqueue", "last_sync"}
    /\ \E new \in Handler :
          /\ handlers' = [handlers EXCEPT ![h] = new]
          /\ new.pc # "save"
          /\ IF new.pc = "idle" THEN new.answer = "ok"
             ELSE new.answer = handlers[h].answer

\* What follows a successful save, action by action.
LEMMA SynchroniseMoves ==
    ASSUME TypeOK, NEW h \in Handlers, Synchronise(h)
    PROVE  Moved(h)
  <1> PICK l \in Handler : l = handlers[h]
    BY DEF TypeOK
  <1>1. ASSUME NEW r \in Rids, Sync(h, r) PROVE Moved(h)
    <2>1. PICK new : new = [l EXCEPT !.pc = "await", !.request_id = r, !.doc = Null]
      OBVIOUS
    <2>2. new \in Handler /\ new.answer = l.answer /\ new.pc \notin {"idle", "save"}
      BY <2>1 DEF Handler
    <2>3. handlers' = [handlers EXCEPT ![h] = new] /\ l.pc = "sync"
      BY <1>1, <2>1 DEF Sync, At, TypeOK
    <2> QED
      BY <2>2, <2>3 DEF Moved
  <1>2. ASSUME NEW r \in Rids, SyncThrows(h, r) PROVE Moved(h)
    <2>1. PICK new : new = [l EXCEPT !.pc = "enqueue", !.request_id = r, !.doc = Null]
      OBVIOUS
    <2>2. new \in Handler /\ new.answer = l.answer /\ new.pc \notin {"idle", "save"}
      BY <2>1 DEF Handler
    <2>3. handlers' = [handlers EXCEPT ![h] = new] /\ l.pc = "sync"
      BY <1>2, <2>1 DEF SyncThrows, At, TypeOK
    <2> QED
      BY <2>2, <2>3 DEF Moved
  <1>3. CASE LambdaOk(h)
    <2>1. PICK new : new = [l EXCEPT !.pc = "last_sync", !.ok = TRUE]
      OBVIOUS
    <2>2. new \in Handler /\ new.answer = l.answer /\ new.pc \notin {"idle", "save"}
      BY <2>1 DEF Handler
    <2>3. handlers' = [handlers EXCEPT ![h] = new] /\ l.pc = "await"
      BY <1>3, <2>1 DEF LambdaOk, At, TypeOK
    <2> QED
      BY <2>2, <2>3 DEF Moved
  <1>4. CASE LambdaFails(h)
    <2>1. PICK new : new = [l EXCEPT !.pc = "enqueue", !.ok = FALSE]
      OBVIOUS
    <2>2. new \in Handler /\ new.answer = l.answer /\ new.pc \notin {"idle", "save"}
      BY <2>1 DEF Handler
    <2>3. handlers' = [handlers EXCEPT ![h] = new] /\ l.pc = "await"
      BY <1>4, <2>1 DEF LambdaFails, At, TypeOK
    <2> QED
      BY <2>2, <2>3 DEF Moved
  <1>5. CASE Enqueue(h)
    <2>1. PICK new : new = [l EXCEPT !.pc = "last_sync"]
      OBVIOUS
    <2>2. new \in Handler /\ new.answer = l.answer /\ new.pc \notin {"idle", "save"}
      BY <2>1 DEF Handler
    <2>3. handlers' = [handlers EXCEPT ![h] = new] /\ l.pc = "enqueue"
      BY <1>5, <2>1 DEF Enqueue, At, TypeOK
    <2> QED
      BY <2>2, <2>3 DEF Moved
  <1>6. CASE \/ EnqueueFails(h) \/ EnqueueUnconfirmed(h)
             \/ SaveLastSync(h) \/ SaveLastSyncFails(h)
    <2>1. handlers' = [handlers EXCEPT ![h] = Ended("ok")]
      BY <1>6 DEF EnqueueFails, EnqueueUnconfirmed, SaveLastSync, SaveLastSyncFails
    <2>2. PICK new \in Handler : new = Ended("ok") /\ new.pc = "idle"
      BY EndedFits DEF Answers
    <2>3. new.answer = "ok"
      BY <2>2 DEF Ended
    <2>4. handlers[h].pc \in {"enqueue", "last_sync"}
      BY <1>6 DEF EnqueueFails, EnqueueUnconfirmed, SaveLastSync, SaveLastSyncFails, At
    <2> QED
      BY <2>1, <2>2, <2>3, <2>4 DEF Moved
  <1> QED
    BY <1>1, <1>2, <1>3, <1>4, <1>5, <1>6 DEF Synchronise

LEMMA SynchroniseAnswers ==
    ASSUME TypeOK, NoAnswerYet, NEW h \in Handlers, Synchronise(h)
    PROVE  NoAnswerYet' /\ AnswersOk
  BY SynchroniseMoves, MoveAnswers DEF Moved, NoAnswerYet

LEMMA UseExistingAnswers ==
    ASSUME TypeOK, NoAnswerYet, NEW h \in Handlers, UseExisting(h)
    PROVE  NoAnswerYet' /\ AnswersOk
  <1>1. ASSUME NEW i \in Ids, FindOne(h, i) PROVE NoAnswerYet' /\ AnswersOk
    <2>1. PICK answer \in Answers : handlers' = [handlers EXCEPT ![h] = Ended(answer)]
      BY <1>1 DEF FindOne, Answers
    <2> QED
      BY <1>1, <2>1, EndAnswers DEF FindOne, Idle
  <1>2. ASSUME NEW i \in Ids, NEW name \in Names, NEW enabled \in BOOLEAN,
               Update(h, i, name, enabled)
        PROVE  NoAnswerYet' /\ AnswersOk
    <2>1. PICK new : new = [db[i] EXCEPT !.name = name, !.enabled = enabled]
      OBVIOUS
    <2>2. PICK dirty \in SUBSET {"name", "enabled", "deleted"} :
            dirty = Modified(db[i], new)
      BY ModifiedType
    <2>3. db[i] \in Doc
      BY <1>2 DEF Update, Visible, TypeOK
    <2>4. new \in Doc
      BY <2>1, <2>3 DEF Doc
    <2>5. handlers' = [handlers EXCEPT ![h] = Loaded(h, i, new, dirty)]
      BY <1>2, <2>1, <2>2 DEF Update
    <2> QED
      BY <1>2, <2>4, <2>5, LoadAnswers DEF Update, Idle
  <1>3. ASSUME NEW i \in Ids, Delete(h, i) PROVE NoAnswerYet' /\ AnswersOk
    <2>1. PICK new : new = [db[i] EXCEPT !.enabled = FALSE, !.deleted = TRUE]
      OBVIOUS
    <2>2. PICK dirty \in SUBSET {"name", "enabled", "deleted"} :
            dirty = Modified(db[i], new)
      BY ModifiedType
    <2>3. db[i] \in Doc
      BY <1>3 DEF Delete, Visible, TypeOK
    <2>4. new \in Doc
      BY <2>1, <2>3 DEF Doc
    <2>5. handlers' = [handlers EXCEPT ![h] = Loaded(h, i, new, dirty)]
      BY <1>3, <2>1, <2>2 DEF Delete
    <2> QED
      BY <1>3, <2>4, <2>5, LoadAnswers DEF Delete, Idle
  <1> QED
    BY <1>1, <1>2, <1>3 DEF UseExisting

LEMMA CreateAnswers ==
    ASSUME TypeOK, NoAnswerYet, NEW h \in Handlers, NEW i \in Ids,
           NEW name \in Names, NEW enabled \in BOOLEAN, Create(h, i, name, enabled)
    PROVE  NoAnswerYet' /\ AnswersOk
  <1>1. PICK doc : doc = [name |-> name, enabled |-> enabled, deleted |-> FALSE,
                          v |-> 0, last_sync |-> Null]
    OBVIOUS
  <1>2. doc \in Doc
    BY <1>1 DEF Doc
  <1>3. PICK dirty \in SUBSET {"name", "enabled", "deleted"} :
          dirty = {"name", "enabled", "deleted"}
    OBVIOUS
  <1>4. handlers' = [handlers EXCEPT ![h] = Loaded(h, i, doc, dirty)]
    BY <1>1, <1>3 DEF Create
  <1>5. handlers[h].pc = "idle"
    BY DEF Create, Idle
  <1> QED
    BY <1>2, <1>4, <1>5, LoadAnswers

LEMMA SaveAnswers ==
    ASSUME TypeOK, NoAnswerYet, NEW h \in Handlers, Save(h)
    PROVE  NoAnswerYet' /\ AnswersOk
  <1> PICK l \in Handler : l = handlers[h]
    BY DEF TypeOK
  <1>1. l.pc = "save" /\ l.answer = "none"
    BY DEF Save, At, NoAnswerYet
  <1>2. PICK increment : increment = IF SetsArray(h) THEN 1 ELSE 0
    OBVIOUS
  <1>3. PICK memory : memory = [l.doc EXCEPT !.v = @ + increment]
    OBVIOUS
  <1>4. PICK new : new = [l EXCEPT !.pc = "sync", !.dirty = {}, !.doc = memory]
    OBVIOUS
  <1>5. handlers' = [handlers EXCEPT ![h] = new]
    BY <1>2, <1>3, <1>4 DEF Save
  <1>6. new.answer = "none" /\ new.pc = "sync"
    BY <1>1, <1>4 DEF Handler
  <1>7. \A g \in Handlers : handlers'[g] = IF g = h THEN new ELSE handlers[g]
    BY <1>5 DEF TypeOK
  <1> QED
    BY <1>1, <1>6, <1>7 DEF NoAnswerYet, AnswersOk

LEMMA AnswersNext ==
    TypeOK /\ NoAnswerYet /\ [Next]_vars => NoAnswerYet' /\ [AnswersOk]_vars
  <1> SUFFICES ASSUME TypeOK, NoAnswerYet, [Next]_vars
               PROVE  NoAnswerYet' /\ [AnswersOk]_vars
    OBVIOUS
  <1>1. ASSUME NEW h \in Handlers, HandlerStep(h) PROVE NoAnswerYet' /\ AnswersOk
    <2>1. CASE SaveFails(h) \/ SaveUnconfirmed(h)
      BY <2>1, EndAnswers DEF SaveFails, SaveUnconfirmed, At, Answers
    <2> QED
      BY <1>1, <2>1, CreateAnswers, UseExistingAnswers, SaveAnswers, SynchroniseAnswers
         DEF HandlerStep
  <1>2. CASE Stage1Step /\ UNCHANGED serviceVars
    BY <1>2 DEF serviceVars, NoAnswerYet, AnswersOk
  <1>3. CASE Crash
    <2>1. Ended("none").pc = "idle" /\ Ended("none").answer = "none"
      BY DEF Ended
    <2>2. \A h \in Handlers : handlers'[h] = Ended("none")
      BY <1>3, <2>1 DEF Crash
    <2> QED
      BY <2>1, <2>2 DEF NoAnswerYet, AnswersOk
  <1>4. CASE UNCHANGED vars
    BY <1>4 DEF vars, serviceVars, NoAnswerYet
  <1> QED
    BY <1>1, <1>2, <1>3, <1>4 DEF Next

\* Once a document is saved, no failure of its synchronisation (the lambda,
\* its configuration, the database) turns the answer into an error.
THEOREM SynchronisationIsSilent == Spec => SyncNeverFailsCrud
  <1>1. Init => EntityInv
    BY EntityInvInit
  <1>2. Init => NoAnswerYet
    <2>1. Ended("none").pc = "idle"
      BY DEF Ended
    <2> QED
      BY <2>1 DEF Init, NoAnswerYet
  <1>3. EntityInv /\ [Next]_vars => EntityInv'
    BY EntityInvNext
  <1>4. EntityInv => TypeOK
    BY DEF EntityInv
  <1>5. TypeOK /\ NoAnswerYet /\ [Next]_vars => NoAnswerYet' /\ [AnswersOk]_vars
    BY AnswersNext
  <1> QED
    BY <1>1, <1>2, <1>3, <1>4, <1>5, PTL DEF Spec, SyncNeverFailsCrud, AnswersOk

-----------------------------------------------------------------------------
(* The filter on __v is enough, for documents with an array. *)

\* The document of l was loaded with a __v that the stored one has still, and
\* then the same array, or had before.
LoadedBefore(l) ==
    db[l.id] # Null =>
        /\ l.doc.v <= db[l.id].v
        /\ l.doc.v = db[l.id].v => ("name" \in l.dirty <=> l.doc.name # db[l.id].name)

VersionInv == \A h \in Handlers : handlers[h].pc = "save" => LoadedBefore(handlers[h])

\* A step of a handler that stores nothing.
LEMMA MoveKeepsVersions ==
    ASSUME TypeOK, VersionInv, NEW h \in Handlers, NEW l \in Handler,
           handlers' = [handlers EXCEPT ![h] = l], UNCHANGED db,
           l.pc = "save" => LoadedBefore(l)
    PROVE  VersionInv'
  <1>1. \A g \in Handlers : handlers'[g] = IF g = h THEN l ELSE handlers[g]
    BY DEF TypeOK
  <1> QED
    BY <1>1 DEF VersionInv, LoadedBefore

\* A step of a handler that stores a document: whoever else has it loaded
\* finds the same array under the same __v, or a greater __v.
LEMMA StoringKeepsVersions ==
    ASSUME EntityInv, DeleteInv, VersionInv, NEW h \in Handlers, NEW l \in Handler,
           handlers' = [handlers EXCEPT ![h] = l], l.pc # "save",
           NEW i \in Ids, NEW doc \in Doc, i = handlers[h].id,
           db' = [db EXCEPT ![i] = doc],
           db[i] = Null => handlers[h].pc = "save",
           db[i] # Null => \/ doc.v > db[i].v
                           \/ doc.v = db[i].v /\ doc.name = db[i].name
    PROVE  VersionInv'
  <1> SUFFICES ASSUME NEW g \in Handlers, handlers'[g].pc = "save"
               PROVE  LoadedBefore(handlers[g])' /\ handlers'[g] = handlers[g]
    BY DEF VersionInv
  <1>1. g # h /\ handlers'[g] = handlers[g]
    BY DEF EntityInv, TypeOK
  <1>2. PICK k \in Handler : k = handlers[g]
    BY DEF EntityInv, TypeOK
  <1>3. k.pc = "save" /\ k.id \in Ids /\ k.doc \in Doc
    BY <1>1, <1>2 DEF EntityInv, HandlersFit, Fits
  <1>4. LoadedBefore(k)
    BY <1>2, <1>3 DEF VersionInv
  <1>5. CASE k.id = i
    <2>1. db[i] # Null
      BY <1>1, <1>2, <1>5 DEF DeleteInv, CreatorIsAlone
    <2>2. PICK stored \in Doc : stored = db[i]
      BY <2>1 DEF EntityInv, TypeOK
    <2>3. db'[i] = doc
      BY DEF EntityInv, TypeOK
    <2>4. k.doc.v \in Nat /\ stored.v \in Nat /\ doc.v \in Nat
      BY <1>3, <2>2 DEF Doc
    <2>5. /\ k.doc.v <= stored.v
          /\ k.doc.v = stored.v => ("name" \in k.dirty <=> k.doc.name # stored.name)
      BY <1>4, <1>5, <2>1, <2>2 DEF LoadedBefore
    <2>6. doc.v > stored.v \/ (doc.v = stored.v /\ doc.name = stored.name)
      BY <2>1, <2>2
    <2>7. /\ k.doc.v <= doc.v
          /\ k.doc.v = doc.v => ("name" \in k.dirty <=> k.doc.name # doc.name)
      BY <2>4, <2>5, <2>6
    <2> QED
      BY <1>1, <1>2, <1>5, <2>3, <2>7 DEF LoadedBefore
  <1>6. CASE k.id # i
    <2>1. db'[k.id] = db[k.id]
      BY <1>3, <1>6 DEF EntityInv, TypeOK
    <2> QED
      BY <1>1, <1>2, <1>4, <2>1 DEF LoadedBefore
  <1> QED
    BY <1>5, <1>6

\* update and delete: what they load is stored now.
LEMMA FoundKeepsVersions ==
    ASSUME TypeOK, VersionInv, NEW h \in Handlers, NEW i \in Ids, db[i] \in Doc,
           NEW new \in Doc, new.v = db[i].v,
           handlers' = [handlers EXCEPT ![h] = Loaded(h, i, new, Modified(db[i], new))],
           UNCHANGED db
    PROVE  VersionInv'
  <1>1. PICK dirty \in SUBSET {"name", "enabled", "deleted"} :
          /\ dirty = Modified(db[i], new)
          /\ "name" \in dirty <=> db[i].name # new.name
    BY DEF Modified
  <1>2. PICK l : l = Loaded(h, i, new, dirty)
    OBVIOUS
  <1>3. l \in Handler /\ l.id = i /\ l.dirty = dirty /\ l.doc = new
    BY <1>2 DEF Loaded, Ended, Handler, Answers
  <1>4. LoadedBefore(l)
    BY <1>1, <1>3 DEF LoadedBefore, Doc
  <1>5. handlers' = [handlers EXCEPT ![h] = l]
    BY <1>1, <1>2
  <1> QED
    BY <1>3, <1>4, <1>5, MoveKeepsVersions

\* A save that is made, whether or not it is answered, sets the array and
\* then counts, or does neither.
LEMMA SavedVersion ==
    ASSUME Versioned, EntityInv, NEW h \in Handlers, At(h, "save"), ~StaleVersion(h),
           NEW increment \in {0, 1}, increment = IF SetsArray(h) THEN 1 ELSE 0,
           NEW l \in Handler, l = handlers[h], l.id \in Ids, l.doc \in Doc
    PROVE  \E doc \in Doc :
              /\ doc = Saved(db[l.id], l.doc, l.dirty, increment)
              /\ db[l.id] # Null => \/ doc.v > db[l.id].v
                                    \/ doc.v = db[l.id].v /\ doc.name = db[l.id].name
  <1>1. PICK stored \in Doc \cup {Null} : stored = db[l.id]
    BY DEF EntityInv, TypeOK
  <1>2. PICK doc \in Doc : doc = Saved(stored, l.doc, l.dirty, increment)
    BY SavedType
  <1>3. CASE stored = Null
    BY <1>1, <1>2, <1>3
  <1>4. CASE stored # Null
    <2>1. stored.v \in Nat
      BY <1>4 DEF Doc
    <2>2. doc.v = stored.v + increment
          /\ ("name" \notin l.dirty => doc.name = stored.name)
      BY <1>2, <1>4 DEF Saved, Doc
    <2>3. increment = 0 => "name" \notin l.dirty
      BY <1>1, <1>4 DEF SetsArray
    <2>4. doc.v > stored.v \/ (doc.v = stored.v /\ doc.name = stored.name)
      BY <2>1, <2>2, <2>3
    <2> QED
      BY <1>1, <1>2, <2>4
  <1> QED
    BY <1>3, <1>4

LEMMA SaveKeepsVersions ==
    ASSUME Versioned, EntityInv, DeleteInv, VersionInv, NEW h \in Handlers,
           Save(h) \/ SaveUnconfirmed(h)
    PROVE  VersionInv'
  <1>1. PICK l \in Handler : l = handlers[h]
    BY DEF EntityInv, TypeOK
  <1>2. PICK increment \in {0, 1} : increment = IF SetsArray(h) THEN 1 ELSE 0
    OBVIOUS
  <1>3. At(h, "save") /\ ~StaleVersion(h) /\ l.pc = "save"
    BY <1>1 DEF Save, SaveUnconfirmed, At
  <1>4. l.id \in Ids /\ l.doc \in Doc
    BY <1>1, <1>3 DEF EntityInv, HandlersFit, Fits
  <1>5. PICK doc \in Doc :
          /\ doc = Saved(db[l.id], l.doc, l.dirty, increment)
          /\ db[l.id] # Null => \/ doc.v > db[l.id].v
                                \/ doc.v = db[l.id].v /\ doc.name = db[l.id].name
    BY <1>1, <1>2, <1>3, <1>4, SavedVersion
  <1>6. db' = [db EXCEPT ![l.id] = doc]
    BY <1>1, <1>2, <1>5 DEF Save, SaveUnconfirmed
  <1>7. CASE Save(h)
    <2>1. PICK memory : memory = [l.doc EXCEPT !.v = @ + increment]
      OBVIOUS
    <2>2. PICK new : new = [l EXCEPT !.pc = "sync", !.dirty = {}, !.doc = memory]
      OBVIOUS
    <2>3. memory \in Doc
      BY <1>4, <2>1 DEF Doc
    <2>4. new \in Handler /\ new.pc = "sync"
      BY <2>2, <2>3 DEF Handler
    <2>5. handlers' = [handlers EXCEPT ![h] = new]
      BY <1>1, <1>2, <1>7, <2>1, <2>2 DEF Save
    <2> QED
      BY <1>1, <1>3, <1>4, <1>5, <1>6, <2>4, <2>5, StoringKeepsVersions
  <1>8. CASE SaveUnconfirmed(h)
    <2>1. PICK new \in Handler : new = Ended("error") /\ new.pc = "idle"
      BY EndedFits DEF Answers
    <2>2. handlers' = [handlers EXCEPT ![h] = new]
      BY <1>8, <2>1 DEF SaveUnconfirmed
    <2> QED
      BY <1>1, <1>3, <1>4, <1>5, <1>6, <2>1, <2>2, StoringKeepsVersions
  <1> QED
    BY <1>7, <1>8

LEMMA SaveLastSyncKeepsVersions ==
    ASSUME EntityInv, DeleteInv, VersionInv, NEW h \in Handlers, SaveLastSync(h)
    PROVE  VersionInv'
  <1>1. PICK l \in Handler : l = handlers[h]
    BY DEF EntityInv, TypeOK
  <1>2. l.pc = "last_sync" /\ l.id \in Ids /\ db[l.id] \in Doc
    BY <1>1 DEF SaveLastSync, At, EntityInv, HandlersFit, Fits
  <1>3. PICK s : s = [ok |-> l.ok, request_id |-> l.request_id]
    OBVIOUS
  <1>4. s \in LastSync
    BY <1>1, <1>2, <1>3 DEF LastSync, Handler, EntityInv, HandlersFit, Fits
  <1>5. PICK stored \in Doc : stored = db[l.id]
    BY <1>2
  <1>6. PICK doc : doc = [stored EXCEPT !.last_sync = s]
    OBVIOUS
  <1>7. doc \in Doc /\ doc.v = stored.v /\ doc.name = stored.name
    BY <1>4, <1>6 DEF Doc
  <1>8. PICK new \in Handler : new = Ended("ok") /\ new.pc = "idle"
    BY EndedFits DEF Answers
  <1>9. db' = [db EXCEPT ![l.id] = doc] /\ handlers' = [handlers EXCEPT ![h] = new]
    BY <1>1, <1>3, <1>5, <1>6, <1>8 DEF SaveLastSync
  <1> QED
    BY <1>1, <1>2, <1>5, <1>7, <1>8, <1>9, NullIsNoRecord, StoringKeepsVersions

LEMMA SynchroniseKeepsVersions ==
    ASSUME EntityInv, DeleteInv, VersionInv, NEW h \in Handlers, Synchronise(h)
    PROVE  VersionInv'
  <1>1. CASE SaveLastSync(h)
    BY <1>1, SaveLastSyncKeepsVersions
  <1>2. CASE ~SaveLastSync(h)
    <2>1. UNCHANGED db
      BY <1>2 DEF Synchronise, Sync, SyncThrows, LambdaOk, LambdaFails, Enqueue,
                  EnqueueFails, EnqueueUnconfirmed, SaveLastSyncFails
    <2>2. TypeOK
      BY DEF EntityInv
    <2> QED
      BY <2>1, <2>2, SynchroniseMoves, MoveKeepsVersions DEF Moved
  <1> QED
    BY <1>1, <1>2

\* A handler that answers at once, whatever it was doing.
LEMMA EndKeepsVersions ==
    ASSUME TypeOK, VersionInv, NEW h \in Handlers, NEW answer \in Answers,
           handlers' = [handlers EXCEPT ![h] = Ended(answer)], UNCHANGED db
    PROVE  VersionInv'
  BY EndedFits, MoveKeepsVersions

LEMMA StartKeepsVersions ==
    ASSUME TypeOK, VersionInv, NEW h \in Handlers, NEW i \in Ids, NEW name \in Names,
           NEW enabled \in BOOLEAN,
           Create(h, i, name, enabled) \/ Update(h, i, name, enabled) \/ Delete(h, i)
    PROVE  VersionInv'
  <1>1. CASE Create(h, i, name, enabled)
    <2>1. PICK doc \in Doc :
            doc = [name |-> name, enabled |-> enabled, deleted |-> FALSE, v |-> 0,
                   last_sync |-> Null]
      BY DEF Doc
    <2>2. PICK l : l = Loaded(h, i, doc, {"name", "enabled", "deleted"})
      OBVIOUS
    <2>3. l \in Handler /\ l.id = i
      BY <2>2 DEF Loaded, Ended, Handler, Answers
    <2>4. handlers' = [handlers EXCEPT ![h] = l] /\ UNCHANGED db /\ db[i] = Null
      BY <1>1, <2>1, <2>2 DEF Create
    <2> QED
      BY <2>3, <2>4, MoveKeepsVersions DEF LoadedBefore
  <1>2. CASE Update(h, i, name, enabled)
    <2>1. db[i] \in Doc
      BY <1>2 DEF Update, Visible, TypeOK
    <2>2. PICK new : new = [db[i] EXCEPT !.name = name, !.enabled = enabled]
      OBVIOUS
    <2>3. new \in Doc /\ new.v = db[i].v
      BY <2>1, <2>2 DEF Doc
    <2>4. handlers' = [handlers EXCEPT ![h] = Loaded(h, i, new, Modified(db[i], new))]
          /\ UNCHANGED db
      BY <1>2, <2>2 DEF Update
    <2> QED
      BY <2>1, <2>3, <2>4, FoundKeepsVersions
  <1>3. CASE Delete(h, i)
    <2>1. db[i] \in Doc
      BY <1>3 DEF Delete, Visible, TypeOK
    <2>2. PICK new : new = [db[i] EXCEPT !.enabled = FALSE, !.deleted = TRUE]
      OBVIOUS
    <2>3. new \in Doc /\ new.v = db[i].v
      BY <2>1, <2>2 DEF Doc
    <2>4. handlers' = [handlers EXCEPT ![h] = Loaded(h, i, new, Modified(db[i], new))]
          /\ UNCHANGED db
      BY <1>3, <2>2 DEF Delete
    <2> QED
      BY <2>1, <2>3, <2>4, FoundKeepsVersions
  <1> QED
    BY <1>1, <1>2, <1>3

LEMMA VersionInvNext ==
    ASSUME Versioned, EntityInv, DeleteInv, VersionInv, [Next]_vars
    PROVE  VersionInv'
  <1>1. TypeOK
    BY DEF EntityInv
  <1>2. ASSUME NEW h \in Handlers, HandlerStep(h) PROVE VersionInv'
    <2>1. ASSUME NEW i \in Ids, FindOne(h, i) PROVE VersionInv'
      <3>1. PICK answer \in Answers : handlers' = [handlers EXCEPT ![h] = Ended(answer)]
        BY <2>1 DEF FindOne, Answers
      <3> QED
        BY <1>1, <2>1, <3>1, EndKeepsVersions DEF FindOne
    <2>2. CASE SaveFails(h)
      BY <1>1, <2>2, EndKeepsVersions DEF SaveFails, Answers
    <2>3. CASE UseExisting(h)
      <3>1. CASE \E i \in Ids : FindOne(h, i)
        BY <2>1, <3>1
      <3>2. CASE \E i \in Ids : Delete(h, i)
        <4>1. PICK i \in Ids : Delete(h, i)
          BY <3>2
        <4>2. db[i] \in Doc
          BY <1>1, <4>1 DEF Delete, Visible, TypeOK
        <4>3. db[i].name \in Names /\ TRUE \in BOOLEAN
          BY <4>2 DEF Doc
        <4> QED
          BY <1>1, <4>1, <4>3, StartKeepsVersions
      <3>3. CASE \E i \in Ids, name \in Names, enabled \in BOOLEAN :
                    Update(h, i, name, enabled)
        BY <1>1, <3>3, StartKeepsVersions
      <3> QED
        BY <2>3, <3>1, <3>2, <3>3 DEF UseExisting
    <2>4. CASE \E i \in Ids, name \in Names, enabled \in BOOLEAN :
                  Create(h, i, name, enabled)
      BY <1>1, <2>4, StartKeepsVersions
    <2> QED
      BY <1>2, <2>2, <2>3, <2>4, SaveKeepsVersions, SynchroniseKeepsVersions
         DEF HandlerStep
  <1>3. CASE UNCHANGED <<db, handlers>>
    BY <1>3 DEF VersionInv, LoadedBefore
  <1>4. CASE Crash
    <2>1. Ended("none").pc = "idle"
      BY DEF Ended
    <2> QED
      BY <1>4, <2>1 DEF Crash, VersionInv
  <1> QED
    BY <1>2, <1>3, <1>4 DEF Next, vars, serviceVars

\* For documents with an array no update of it overwrites another one that it
\* has not seen: of two that loaded the same __v the second one to be saved
\* finds a greater __v and fails.
THEOREM VersionsIdentifyArrays ==
    ASSUME Versioned
    PROVE  Spec => []VersionIdentifiesArray
  <1>1. Init => EntityInv /\ DeleteInv
    BY EntityInvInit, DeleteInvInit
  <1>2. Init => VersionInv
    <2>1. Ended("none").pc = "idle"
      BY DEF Ended
    <2> QED
      BY <2>1 DEF Init, VersionInv
  <1>3. EntityInv /\ DeleteInv /\ [Next]_vars => EntityInv' /\ DeleteInv'
    BY EntityInvNext, DeleteInvNext
  <1>4. EntityInv /\ DeleteInv /\ VersionInv /\ [Next]_vars => VersionInv'
    BY VersionInvNext
  <1>5. VersionInv => VersionIdentifiesArray
    BY DEF VersionInv, LoadedBefore, VersionIdentifiesArray
  <1> QED
    BY <1>1, <1>2, <1>3, <1>4, <1>5, PTL DEF Spec

-----------------------------------------------------------------------------
(* A deleted document stays disabled while requests do not overlap. *)

\* No two handlers work on one document.
OneAtATime ==
    \A g, h \in Handlers :
        g # h /\ ~Idle(g) /\ ~Idle(h) => handlers[g].id # handlers[h].id

\* What a handler about to save would leave unmodified is what is stored, and
\* it deletes nothing that it does not disable.
LoadedInStep(l) ==
    /\ l.doc.deleted => ~l.doc.enabled
    /\ db[l.id] # Null =>
          /\ "enabled" \notin l.dirty => l.doc.enabled = db[l.id].enabled
          /\ "deleted" \notin l.dirty => l.doc.deleted = db[l.id].deleted

DisabledInv ==
    /\ DeletedIsDisabled
    /\ \A h \in Handlers : handlers[h].pc = "save" => LoadedInStep(handlers[h])

\* A step of one handler that stores nothing.
LEMMA MoveKeepsDisabled ==
    ASSUME EntityInv, DisabledInv, UNCHANGED db,
           NEW h \in Handlers, NEW l \in Handler,
           handlers' = [handlers EXCEPT ![h] = l],
           l.pc = "save" => LoadedInStep(l)
    PROVE  DisabledInv'
  <1>1. handlers'[h] = l /\ \A g \in Handlers \ {h} : handlers'[g] = handlers[g]
    BY DEF EntityInv, TypeOK
  <1>2. ASSUME NEW g \in Handlers, handlers'[g].pc = "save"
        PROVE  LoadedInStep(handlers[g])'
    <2>1. CASE g = h
      BY <1>1, <1>2, <2>1 DEF LoadedInStep
    <2>2. CASE g # h
      BY <1>1, <1>2, <2>2 DEF LoadedInStep, DisabledInv
    <2> QED
      BY <2>1, <2>2
  <1>3. DeletedIsDisabled'
    BY DEF DisabledInv, DeletedIsDisabled
  <1> QED
    BY <1>2, <1>3 DEF DisabledInv

\* A handler stores a document under its id, which nobody else works on.
LEMMA StoringKeepsDisabled ==
    ASSUME EntityInv, DisabledInv, OneAtATime,
           NEW h \in Handlers, NEW l \in Handler, l.pc # "save",
           handlers' = [handlers EXCEPT ![h] = l],
           NEW doc \in Doc, doc.deleted => ~doc.enabled,
           ~Idle(h), handlers[h].id \in Ids,
           db' = [db EXCEPT ![handlers[h].id] = doc]
    PROVE  DisabledInv'
  <1>1. PICK id : id = handlers[h].id
    OBVIOUS
  <1>2. /\ id \in Ids
        /\ handlers'[h] = l
        /\ \A g \in Handlers \ {h} :
              /\ handlers'[g] = handlers[g]
              /\ ~Idle(g) => handlers[g].id # id
    BY <1>1 DEF EntityInv, TypeOK, OneAtATime
  <1>3. db'[id] = doc /\ \A i \in Ids \ {id} : db'[i] = db[i]
    BY <1>1, <1>2 DEF EntityInv, TypeOK
  <1>4. DeletedIsDisabled'
    BY <1>3 DEF DisabledInv, DeletedIsDisabled
  <1>5. ASSUME NEW g \in Handlers, handlers'[g].pc = "save"
        PROVE  LoadedInStep(handlers[g])'
    <2>1. g # h /\ handlers'[g] = handlers[g] /\ handlers[g].id # id
      BY <1>2, <1>5 DEF Idle
    <2>2. handlers[g].id \in Ids
      BY <1>5, <2>1 DEF EntityInv, HandlersFit, Fits
    <2>3. db'[handlers[g].id] = db[handlers[g].id]
      BY <1>3, <2>1, <2>2
    <2> QED
      BY <1>5, <2>1, <2>3 DEF DisabledInv, LoadedInStep
  <1> QED
    BY <1>4, <1>5 DEF DisabledInv

\* What save() stores of the document loaded, whose unmodified paths are still
\* the stored ones.
LEMMA SavedDisabled ==
    ASSUME EntityInv, DisabledInv, NEW h \in Handlers, At(h, "save"),
           NEW increment \in Nat, NEW doc \in Doc,
           doc = Saved(db[handlers[h].id], handlers[h].doc, handlers[h].dirty, increment)
    PROVE  doc.deleted => ~doc.enabled
  <1>1. PICK l, stored : l = handlers[h] /\ stored = db[l.id]
    OBVIOUS
  <1>2. LoadedInStep(l) /\ l.doc \in Doc /\ stored \in Doc \cup {Null}
    BY <1>1 DEF At, DisabledInv, EntityInv, HandlersFit, Fits, TypeOK
  <1>3. CASE stored = Null
    BY <1>1, <1>2, <1>3 DEF LoadedInStep, Saved
  <1>4. CASE stored # Null
    <2>1. doc = [stored EXCEPT
                   !.name    = IF "name" \in l.dirty THEN l.doc.name ELSE @,
                   !.enabled = IF "enabled" \in l.dirty THEN l.doc.enabled ELSE @,
                   !.deleted = IF "deleted" \in l.dirty THEN l.doc.deleted ELSE @,
                   !.v       = @ + increment]
      BY <1>1, <1>4 DEF Saved
    <2>2. doc.enabled = l.doc.enabled /\ doc.deleted = l.doc.deleted
      BY <1>1, <1>2, <1>4, <2>1 DEF LoadedInStep, Doc
    <2> QED
      BY <1>2, <2>2 DEF LoadedInStep
  <1> QED
    BY <1>3, <1>4

LEMMA EndKeepsDisabled ==
    ASSUME EntityInv, DisabledInv, NEW h \in Handlers, NEW answer \in Answers,
           handlers' = [handlers EXCEPT ![h] = Ended(answer)], UNCHANGED db
    PROVE  DisabledInv'
  BY EndedFits, MoveKeepsDisabled

LEMMA SaveKeepsDisabled ==
    ASSUME EntityInv, DisabledInv, OneAtATime, NEW h \in Handlers,
           Save(h) \/ SaveUnconfirmed(h)
    PROVE  DisabledInv'
  <1>1. PICK l \in Handler : l = handlers[h]
    BY DEF EntityInv, TypeOK
  <1>2. PICK increment \in {0, 1} : increment = IF SetsArray(h) THEN 1 ELSE 0
    OBVIOUS
  <1>3. At(h, "save") /\ l.id \in Ids /\ l.doc \in Doc
    BY <1>1 DEF Save, SaveUnconfirmed, At, EntityInv, HandlersFit, Fits
  <1>4. PICK stored \in Doc \cup {Null} : stored = db[l.id]
    BY <1>3 DEF EntityInv, TypeOK
  <1>5. PICK doc \in Doc : doc = Saved(stored, l.doc, l.dirty, increment)
    BY <1>3, SavedType
  <1>6. doc.deleted => ~doc.enabled
    BY <1>1, <1>3, <1>4, <1>5, SavedDisabled
  <1>7. db' = [db EXCEPT ![l.id] = doc]
    BY <1>1, <1>2, <1>4, <1>5 DEF Save, SaveUnconfirmed
  <1>8. \E new \in Handler : new.pc # "save" /\ handlers' = [handlers EXCEPT ![h] = new]
    <2>1. CASE Save(h)
      <3>1. PICK memory : memory = [l.doc EXCEPT !.v = @ + increment]
        OBVIOUS
      <3>2. PICK new : new = [l EXCEPT !.pc = "sync", !.dirty = {}, !.doc = memory]
        OBVIOUS
      <3>3. memory \in Doc
        BY <1>3, <3>1 DEF Doc
      <3>4. new \in Handler /\ new.pc = "sync"
        BY <3>2, <3>3 DEF Handler
      <3>5. handlers' = [handlers EXCEPT ![h] = new]
        BY <1>1, <1>2, <2>1, <3>1, <3>2 DEF Save
      <3> QED
        BY <3>4, <3>5
    <2>2. CASE SaveUnconfirmed(h)
      BY <2>2, EndedFits DEF SaveUnconfirmed, Answers
    <2> QED
      BY <2>1, <2>2
  <1>9. ~Idle(h)
    BY <1>3 DEF At, Idle
  <1> QED
    BY <1>1, <1>3, <1>6, <1>7, <1>8, <1>9, StoringKeepsDisabled

LEMMA SaveLastSyncKeepsDisabled ==
    ASSUME EntityInv, DisabledInv, OneAtATime, NEW h \in Handlers, SaveLastSync(h)
    PROVE  DisabledInv'
  <1>1. PICK l \in Handler : l = handlers[h]
    BY DEF EntityInv, TypeOK
  <1>2. l.pc = "last_sync" /\ l.id \in Ids /\ db[l.id] \in Doc
    BY <1>1 DEF SaveLastSync, At, EntityInv, HandlersFit, Fits
  <1>3. PICK s : s = [ok |-> l.ok, request_id |-> l.request_id]
    OBVIOUS
  <1>4. s \in LastSync
    BY <1>1, <1>2, <1>3 DEF LastSync, Handler, EntityInv, HandlersFit, Fits
  <1>5. PICK stored \in Doc : stored = db[l.id]
    BY <1>2
  <1>6. PICK doc : doc = [stored EXCEPT !.last_sync = s]
    OBVIOUS
  <1>7. doc \in Doc /\ doc.deleted = stored.deleted /\ doc.enabled = stored.enabled
    BY <1>4, <1>6 DEF Doc
  <1>8. db' = [db EXCEPT ![l.id] = doc]
        /\ handlers' = [handlers EXCEPT ![h] = Ended("ok")]
    BY <1>1, <1>3, <1>5, <1>6 DEF SaveLastSync
  <1>9. stored.deleted => ~stored.enabled
    BY <1>2, <1>5, NullIsNoRecord DEF DisabledInv, DeletedIsDisabled
  <1>10. PICK new \in Handler : new = Ended("ok") /\ new.pc # "save"
    BY EndedFits DEF Answers
  <1>11. ~Idle(h)
    BY <1>1, <1>2 DEF Idle
  <1> QED
    BY <1>1, <1>2, <1>7, <1>8, <1>9, <1>10, <1>11, StoringKeepsDisabled

LEMMA LoadKeepsDisabled ==
    ASSUME EntityInv, DisabledInv, NEW h \in Handlers, NEW i \in Ids,
           NEW new \in Doc, new.deleted => ~new.enabled,
           NEW dirty \in SUBSET {"name", "enabled", "deleted"},
           db[i] # Null => dirty = Modified(db[i], new),
           handlers' = [handlers EXCEPT ![h] = Loaded(h, i, new, dirty)],
           UNCHANGED db
    PROVE  DisabledInv'
  <1>1. PICK l : l = Loaded(h, i, new, dirty)
    OBVIOUS
  <1>2. l \in Handler /\ l.id = i /\ l.dirty = dirty /\ l.doc = new
    BY <1>1 DEF Loaded, Ended, Handler, Answers
  <1>3. LoadedInStep(l)
    BY <1>2 DEF LoadedInStep, Modified
  <1> QED
    BY <1>1, <1>2, <1>3, MoveKeepsDisabled

LEMMA StartKeepsDisabled ==
    ASSUME EntityInv, DisabledInv, NEW h \in Handlers,
           \/ UseExisting(h)
           \/ \E i \in Ids, name \in Names, enabled \in BOOLEAN :
                 Create(h, i, name, enabled)
    PROVE  DisabledInv'
  <1>1. ASSUME NEW i \in Ids, FindOne(h, i) PROVE DisabledInv'
    <2>1. PICK answer \in Answers : handlers' = [handlers EXCEPT ![h] = Ended(answer)]
      BY <1>1 DEF FindOne, Answers
    <2> QED
      BY <1>1, <2>1, EndKeepsDisabled DEF FindOne
  <1>2. ASSUME NEW i \in Ids, Delete(h, i) PROVE DisabledInv'
    <2>1. db[i] \in Doc
      BY <1>2 DEF Delete, Visible, EntityInv, TypeOK
    <2>2. PICK new : new = [db[i] EXCEPT !.enabled = FALSE, !.deleted = TRUE]
      OBVIOUS
    <2>3. new \in Doc /\ ~new.enabled
      BY <2>1, <2>2 DEF Doc
    <2>4. /\ handlers' = [handlers EXCEPT ![h] = Loaded(h, i, new, Modified(db[i], new))]
          /\ UNCHANGED db
      BY <1>2, <2>2 DEF Delete
    <2> QED
      BY <2>3, <2>4, ModifiedType, LoadKeepsDisabled
  <1>3. ASSUME NEW i \in Ids, NEW name \in Names, NEW enabled \in BOOLEAN,
               Update(h, i, name, enabled)
        PROVE  DisabledInv'
    <2>1. db[i] \in Doc /\ ~db[i].deleted
      BY <1>3 DEF Update, Visible, EntityInv, TypeOK
    <2>2. PICK new : new = [db[i] EXCEPT !.name = name, !.enabled = enabled]
      OBVIOUS
    <2>3. new \in Doc /\ ~new.deleted
      BY <2>1, <2>2 DEF Doc
    <2>4. /\ handlers' = [handlers EXCEPT ![h] = Loaded(h, i, new, Modified(db[i], new))]
          /\ UNCHANGED db
      BY <1>3, <2>2 DEF Update
    <2> QED
      BY <2>3, <2>4, ModifiedType, LoadKeepsDisabled
  <1>4. ASSUME NEW i \in Ids, NEW name \in Names, NEW enabled \in BOOLEAN,
               Create(h, i, name, enabled)
        PROVE  DisabledInv'
    <2>1. PICK new : new = [name |-> name, enabled |-> enabled, deleted |-> FALSE,
                            v |-> 0, last_sync |-> Null]
      OBVIOUS
    <2>2. new \in Doc /\ ~new.deleted
      BY <2>1 DEF Doc
    <2>3. /\ db[i] = Null
          /\ handlers' = [handlers EXCEPT ![h] =
                            Loaded(h, i, new, {"name", "enabled", "deleted"})]
          /\ UNCHANGED db
      BY <1>4, <2>1 DEF Create
    <2> QED
      BY <2>2, <2>3, LoadKeepsDisabled
  <1> QED
    BY <1>1, <1>2, <1>3, <1>4 DEF UseExisting

LEMMA SynchroniseKeepsDisabled ==
    ASSUME EntityInv, DisabledInv, OneAtATime, NEW h \in Handlers, Synchronise(h)
    PROVE  DisabledInv'
  <1>1. CASE SaveLastSync(h)
    BY <1>1, SaveLastSyncKeepsDisabled
  <1>2. CASE ~SaveLastSync(h)
    <2>1. UNCHANGED db
      BY <1>2 DEF Synchronise, Sync, SyncThrows, LambdaOk, LambdaFails, Enqueue,
                  EnqueueFails, EnqueueUnconfirmed, SaveLastSyncFails
    <2>2. TypeOK
      BY DEF EntityInv
    <2> QED
      BY <2>1, <2>2, SynchroniseMoves, MoveKeepsDisabled DEF Moved
  <1> QED
    BY <1>1, <1>2

LEMMA DisabledInvInit ==
    Init => DisabledInv
  <1>1. Ended("none").pc = "idle"
    BY DEF Ended
  <1> QED
    BY <1>1 DEF Init, DisabledInv, DeletedIsDisabled

LEMMA DisabledInvNext ==
    EntityInv /\ DisabledInv /\ OneAtATime /\ [Next]_vars => DisabledInv'
  <1> SUFFICES ASSUME EntityInv, DisabledInv, OneAtATime, [Next]_vars
               PROVE  DisabledInv'
    OBVIOUS
  <1>1. ASSUME NEW h \in Handlers, HandlerStep(h) PROVE DisabledInv'
    <2>1. CASE SaveFails(h)
      BY <2>1, EndKeepsDisabled DEF SaveFails, Answers
    <2> QED
      BY <1>1, <2>1, StartKeepsDisabled, SaveKeepsDisabled, SynchroniseKeepsDisabled
         DEF HandlerStep
  <1>2. CASE UNCHANGED <<db, handlers>>
    BY <1>2 DEF DisabledInv, DeletedIsDisabled, LoadedInStep
  <1>3. CASE Crash
    <2>1. Ended("none").pc = "idle"
      BY DEF Ended
    <2>2. (\A h \in Handlers : handlers'[h].pc = "idle") /\ UNCHANGED db
      BY <1>3, <2>1 DEF Crash
    <2> QED
      BY <2>2 DEF DisabledInv, DeletedIsDisabled
  <1> QED
    BY <1>1, <1>2, <1>3 DEF Next, vars, serviceVars

\* docs/SMOKE.md:173 is true of requests that do not overlap: as long as no
\* two handlers work on one document, a soft-deleted document has
\* enabled=false, whatever crashes and whichever saves fail or lose their
\* answer.  The overlap is all that the run delete_race needs to break it.
THEOREM DeletedIsDisabledUnlessOverlap ==
    Spec => ([]OneAtATime => []DeletedIsDisabled)
  <1>1. Init => EntityInv /\ DisabledInv
    BY EntityInvInit, DisabledInvInit
  <1>2. EntityInv /\ DisabledInv /\ OneAtATime /\ [Next]_vars
          => EntityInv' /\ DisabledInv'
    BY EntityInvNext, DisabledInvNext
  <1>3. DisabledInv => DeletedIsDisabled
    BY DEF DisabledInv
  <1> QED
    BY <1>1, <1>2, <1>3, PTL DEF Spec

=============================================================================
