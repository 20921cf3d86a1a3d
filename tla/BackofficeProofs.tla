--------------------------- MODULE BackofficeProofs ---------------------------
(***************************************************************************)
(* Theorems about the process as a whole, for any number of handlers and   *)
(* runs and for all faults.  What the handlers guarantee one another is    *)
(* EntityInv of EntityServiceProofs; what is added here is the hand-over   *)
(* of a request from its handler to the runs.                              *)
(***************************************************************************)
EXTENDS Backoffice, EntityServiceProofs

\* A handler with these locals l has a request id of its own, ...
HasRequest(l) == l.pc \in {"await", "enqueue", "last_sync"}

\* ... of which no item may be in sync_outbox yet.
NotQueued(l) == l.pc \in {"await", "enqueue"} \/ (l.pc = "last_sync" /\ l.ok)

\* No two handlers work on one request.
RequestsAreOwn ==
    \A g, h \in Handlers :
        g # h /\ HasRequest(handlers[g]) /\ HasRequest(handlers[h])
            => handlers[g].request_id # handlers[h].request_id

\* A request that a document reports about was built, and is no handler's any
\* more.
ReportsAreOver ==
    \A i \in Ids : db[i] # Null /\ db[i].last_sync # Null =>
        /\ requests[db[i].last_sync.request_id] \in Request
        /\ \A h \in Handlers : HasRequest(handlers[h])
             => handlers[h].request_id # db[i].last_sync.request_id

\* An item is queued only after its handler's call is over.
QueuedAfterCall ==
    \A h \in Handlers : NotQueued(handlers[h])
        => outbox[handlers[h].request_id] = Null

\* A success that is reported was never queued.
SuccessIsNotQueued ==
    \A i \in Ids :
        db[i] # Null /\ db[i].last_sync # Null /\ db[i].last_sync.ok
            => outbox[db[i].last_sync.request_id] = Null

\* An item carries a request that was really built.
ItemsAreRequests == \A r \in Rids : outbox[r] \in Item => requests[r] \in Request

\* Only a handler that awaits its call has one in flight.
CallsAreAwaited ==
    \A h \in Handlers : calls[h].st # "none" => handlers[h].pc = "await"

\* What a run with these locals k has in memory is stored, and its call is for
\* the item in hand.
RunFits(k, p) ==
    /\ k \in Outbox!Run
    /\ \A item \in k.batch : outbox[item.request_id] \in Item
    /\ k.pc \in {"await", "save", "catch"} =>
          /\ k.item \in Outbox!Local
          /\ outbox[k.item.request_id] \in Item
    /\ calls[p].st # "none" =>
          /\ k.pc = "await"
          /\ calls[p].request_id = k.item.request_id

RunsFit == runs \in [Runs -> Outbox!Run] /\ \A p \in Runs : RunFits(runs[p], p)

\* The hand-over of requests from handlers to runs.
HandOver ==
    /\ RequestsAreOwn
    /\ ReportsAreOver
    /\ QueuedAfterCall
    /\ SuccessIsNotQueued
    /\ ItemsAreRequests
    /\ CallsAreAwaited

ProcessInv == EntityInv /\ HandOver /\ RunsFit /\ missed \subseteq Ids

-----------------------------------------------------------------------------
(* Handlers. *)

\* The locals l that a step of h ends with: it goes on with its request, or
\* has built a new one, or has none, and its call is over unless it awaits it.
\* It may queue its request, or report about it and be done with it.
MovesTo(h, l) ==
    /\ handlers' = [handlers EXCEPT ![h] = l]
    /\ HasRequest(l) =>
          \/ /\ HasRequest(handlers[h])
             /\ l.request_id = handlers[h].request_id
             /\ NotQueued(l) => NotQueued(handlers[h]) /\ UNCHANGED outbox
          \/ /\ l.request_id \in Rids
             /\ requests[l.request_id] = Null
             /\ UNCHANGED outbox
    /\ calls'[h].st # "none" => l.pc = "await"
    /\ \A c \in Callers \ {h} : calls'[c] = calls[c]
    /\ \A r \in Rids : requests[r] \in Request => requests'[r] \in Request
    /\ \/ UNCHANGED outbox
       \/ /\ handlers[h].pc = "enqueue"
          /\ outbox' = [outbox EXCEPT ![handlers[h].request_id] = NewItem(TRUE)]
    /\ \A i \in Ids : db'[i] # Null /\ db'[i].last_sync # Null =>
          \/ db[i] # Null /\ db'[i].last_sync = db[i].last_sync
          \/ /\ handlers[h].pc = "last_sync" /\ ~HasRequest(l)
             /\ db'[i].last_sync = [ok |-> handlers[h].ok,
                                    request_id |-> handlers[h].request_id]

\* Whatever a handler does, requests are handed over properly.
LEMMA MoveHandsOver ==
    ASSUME EntityInv, HandOver, NEW h \in Handlers, NEW l \in Handler, MovesTo(h, l)
    PROVE  HandOver'
  <1>1. PICK old \in Handler : old = handlers[h]
    BY DEF EntityInv, TypeOK
  <1>2. handlers'[h] = l /\ \A g \in Handlers \ {h} : handlers'[g] = handlers[g]
    BY DEF MovesTo, EntityInv, TypeOK
  <1>3. \A g \in Handlers : HasRequest(handlers[g])
           => /\ handlers[g].request_id \in Rids
              /\ requests[handlers[g].request_id] \in Request
    BY DEF HasRequest, EntityInv, HandlersFit, Fits
  <1>4. \A i \in Ids : db[i] # Null /\ db[i].last_sync # Null
           => db[i].last_sync.request_id \in Rids
    BY DEF EntityInv, TypeOK, Doc, LastSync
  <1>5. \A r \in Rids : outbox[r] \in Item \cup {Null}
    BY DEF EntityInv, TypeOK
  <1>6. NewItem(TRUE) \in Item
    BY DEF NewItem, Item, Status
  <1>7. RequestsAreOwn'
    BY <1>2, <1>3, NullIsNoRecord DEF HandOver, RequestsAreOwn, MovesTo
  <1>8. ReportsAreOver'
    <2> SUFFICES ASSUME NEW i \in Ids, db'[i] # Null, db'[i].last_sync # Null
                 PROVE  /\ requests'[db'[i].last_sync.request_id] \in Request
                        /\ \A g \in Handlers : HasRequest(handlers'[g])
                             => handlers'[g].request_id # db'[i].last_sync.request_id
      BY DEF ReportsAreOver, HasRequest
    <2> DEFINE r == db'[i].last_sync.request_id
    <2>1. CASE db[i] # Null /\ db'[i].last_sync = db[i].last_sync
      <3>1. /\ r \in Rids /\ requests[r] \in Request
            /\ \A g \in Handlers : HasRequest(handlers[g])
                                    => handlers[g].request_id # r
        BY <2>1, <1>4 DEF HandOver, ReportsAreOver
      <3> HIDE DEF r
      <3>2. requests'[r] \in Request
        BY <3>1 DEF MovesTo
      <3>3. \A g \in Handlers : HasRequest(handlers'[g])
                                    => handlers'[g].request_id # r
        BY <3>1, <1>2, NullIsNoRecord DEF MovesTo
      <3> QED
        BY <3>2, <3>3 DEF r
    <2>2. CASE /\ old.pc = "last_sync" /\ ~HasRequest(l)
               /\ db'[i].last_sync = [ok |-> old.ok, request_id |-> old.request_id]
      <3>1. r = old.request_id /\ HasRequest(old)
        BY <2>2 DEF HasRequest
      <3>2. requests'[r] \in Request
        BY <3>1, <1>1, <1>3 DEF MovesTo
      <3>3. \A g \in Handlers : HasRequest(handlers'[g])
                                    => handlers'[g].request_id # r
        BY <3>1, <2>2, <1>1, <1>2 DEF HandOver, RequestsAreOwn
      <3> QED
        BY <3>2, <3>3
    <2> QED
      BY <2>1, <2>2, <1>1 DEF MovesTo
  <1>9. QueuedAfterCall'
    <2> SUFFICES ASSUME NEW g \in Handlers, NotQueued(handlers'[g])
                 PROVE  outbox'[handlers'[g].request_id] = Null
      BY DEF QueuedAfterCall, NotQueued
    <2>1. \A k : NotQueued(k) => HasRequest(k)
      BY DEF NotQueued, HasRequest
    <2>2. CASE g = h
      BY <2>1, <2>2, <1>2, <1>5, NullIsNoRecord
         DEF MovesTo, HandOver, QueuedAfterCall, ItemsAreRequests
    <2>3. CASE g # h
      <3>1. handlers'[g] = handlers[g] /\ HasRequest(handlers[g])
        BY <2>1, <2>3, <1>2
      <3>2. outbox[handlers[g].request_id] = Null
        BY <3>1 DEF HandOver, QueuedAfterCall
      <3>3. handlers[h].pc = "enqueue" => handlers[g].request_id # handlers[h].request_id
        BY <2>3, <3>1 DEF HandOver, RequestsAreOwn, HasRequest
      <3> QED
        BY <3>1, <3>2, <3>3, <1>3 DEF MovesTo, EntityInv, TypeOK
    <2> QED
      BY <2>2, <2>3
  <1>10. SuccessIsNotQueued'
    <2> SUFFICES ASSUME NEW i \in Ids, db'[i] # Null, db'[i].last_sync # Null,
                        db'[i].last_sync.ok
                 PROVE  outbox'[db'[i].last_sync.request_id] = Null
      BY DEF SuccessIsNotQueued
    <2> DEFINE r == db'[i].last_sync.request_id
    <2>1. CASE db[i] # Null /\ db'[i].last_sync = db[i].last_sync
      <3>1. r \in Rids /\ outbox[r] = Null
        BY <2>1, <1>4 DEF HandOver, SuccessIsNotQueued
      <3>2. handlers[h].pc = "enqueue" => handlers[h].request_id # r
        BY <2>1 DEF HandOver, ReportsAreOver, HasRequest
      <3> HIDE DEF r
      <3>3. outbox'[r] = Null
        BY <3>1, <3>2 DEF MovesTo, EntityInv, TypeOK
      <3> QED
        BY <3>3 DEF r
    <2>2. CASE /\ old.pc = "last_sync" /\ ~HasRequest(l)
               /\ db'[i].last_sync = [ok |-> old.ok, request_id |-> old.request_id]
      <3>1. r = old.request_id /\ old.ok
        BY <2>2
      <3>2. outbox[r] = Null
        BY <3>1, <2>2, <1>1 DEF NotQueued, HandOver, QueuedAfterCall
      <3>3. UNCHANGED outbox
        BY <2>2, <1>1 DEF MovesTo
      <3> QED
        BY <3>2, <3>3
    <2> QED
      BY <2>1, <2>2, <1>1 DEF MovesTo
  <1>11. ItemsAreRequests'
    <2>1. handlers[h].pc = "enqueue" => HasRequest(handlers[h])
      BY DEF HasRequest
    <2> QED
      BY <2>1, <1>3 DEF MovesTo, HandOver, ItemsAreRequests, EntityInv, TypeOK
  <1>12. CallsAreAwaited'
    BY <1>2, EntityServiceAssumption DEF MovesTo, HandOver, CallsAreAwaited
  <1> QED
    BY <1>7, <1>8, <1>9, <1>10, <1>11, <1>12 DEF HandOver

\* A handler that has no call and no request afterwards.
LEMMA RestMoves ==
    ASSUME HandOver, NEW h \in Handlers,
           NEW l \in Handler, l.pc \in {"idle", "save", "sync"},
           handlers[h].pc # "await",
           handlers' = [handlers EXCEPT ![h] = l],
           UNCHANGED stage1Vars,
           \/ UNCHANGED outbox
           \/ /\ handlers[h].pc = "enqueue"
              /\ outbox' = [outbox EXCEPT ![handlers[h].request_id] = NewItem(TRUE)],
           \A i \in Ids : db'[i] # Null /\ db'[i].last_sync # Null =>
              \/ db[i] # Null /\ db'[i].last_sync = db[i].last_sync
              \/ /\ handlers[h].pc = "last_sync"
                 /\ db'[i].last_sync = [ok |-> handlers[h].ok,
                                        request_id |-> handlers[h].request_id]
    PROVE  MovesTo(h, l)
  <1>1. ~HasRequest(l)
    BY DEF HasRequest
  <1>2. calls'[h].st = "none"
    BY DEF stage1Vars, HandOver, CallsAreAwaited
  <1> QED
    BY <1>1, <1>2 DEF MovesTo, stage1Vars

LEMMA EndMoves ==
    ASSUME HandOver, NEW h \in Handlers, NEW answer \in Answers,
           handlers[h].pc # "await",
           handlers' = [handlers EXCEPT ![h] = Ended(answer)],
           UNCHANGED <<stage1Vars, db, outbox>>
    PROVE  \E l \in Handler : MovesTo(h, l)
  <1>1. PICK l \in Handler : l = Ended(answer) /\ l.pc = "idle"
    BY EndedFits
  <1> QED
    BY <1>1, RestMoves

LEMMA LoadMoves ==
    ASSUME HandOver, NEW h \in Handlers, handlers[h].pc = "idle",
           NEW i \in Ids, NEW doc \in Doc,
           NEW dirty \in SUBSET {"name", "enabled", "deleted"},
           handlers' = [handlers EXCEPT ![h] = Loaded(h, i, doc, dirty)],
           UNCHANGED <<stage1Vars, db, outbox>>
    PROVE  \E l \in Handler : MovesTo(h, l)
  <1>1. PICK l : l = Loaded(h, i, doc, dirty)
    OBVIOUS
  <1>2. l \in Handler /\ l.pc = "save"
    BY <1>1 DEF Loaded, Ended, Handler, Answers
  <1> QED
    BY <1>1, <1>2, RestMoves

LEMMA CreateMoves ==
    ASSUME HandOver, NEW h \in Handlers, NEW i \in Ids, NEW name \in Names,
           NEW enabled \in BOOLEAN, Create(h, i, name, enabled)
    PROVE  \E l \in Handler : MovesTo(h, l)
  <1>1. PICK doc : doc = [name |-> name, enabled |-> enabled, deleted |-> FALSE,
                          v |-> 0, last_sync |-> Null]
    OBVIOUS
  <1>2. doc \in Doc
    BY <1>1 DEF Doc
  <1>3. PICK dirty \in SUBSET {"name", "enabled", "deleted"} :
          dirty = {"name", "enabled", "deleted"}
    OBVIOUS
  <1>4. handlers' = [handlers EXCEPT ![h] = Loaded(h, i, doc, dirty)]
    BY <1>1, <1>3 DEF Create
  <1> QED
    BY <1>2, <1>4, LoadMoves DEF Create, Idle

LEMMA UseExistingMoves ==
    ASSUME EntityInv, HandOver, NEW h \in Handlers, UseExisting(h)
    PROVE  \E l \in Handler : MovesTo(h, l)
  <1>1. ASSUME NEW i \in Ids, FindOne(h, i)
        PROVE  \E l \in Handler : MovesTo(h, l)
    <2>1. PICK answer \in Answers : handlers' = [handlers EXCEPT ![h] = Ended(answer)]
      BY <1>1 DEF FindOne, Answers
    <2> QED
      BY <1>1, <2>1, EndMoves DEF FindOne, Idle
  <1>2. ASSUME NEW i \in Ids, NEW new \in Doc, handlers[h].pc = "idle",
               handlers' =
                 [handlers EXCEPT ![h] = Loaded(h, i, new, Modified(db[i], new))],
               UNCHANGED <<stage1Vars, db, outbox>>
        PROVE  \E l \in Handler : MovesTo(h, l)
    BY <1>2, ModifiedType, LoadMoves
  <1>3. ASSUME NEW i \in Ids, NEW name \in Names, NEW enabled \in BOOLEAN,
               Update(h, i, name, enabled)
        PROVE  \E l \in Handler : MovesTo(h, l)
    <2>1. PICK new : new = [db[i] EXCEPT !.name = name, !.enabled = enabled]
      OBVIOUS
    <2>2. db[i] \in Doc
      BY <1>3 DEF Update, Visible, EntityInv, TypeOK
    <2>3. new \in Doc
      BY <2>1, <2>2 DEF Doc
    <2> QED
      BY <1>2, <1>3, <2>1, <2>2, <2>3 DEF Update, Idle
  <1>4. ASSUME NEW i \in Ids, Delete(h, i)
        PROVE  \E l \in Handler : MovesTo(h, l)
    <2>1. PICK new : new = [db[i] EXCEPT !.enabled = FALSE, !.deleted = TRUE]
      OBVIOUS
    <2>2. db[i] \in Doc
      BY <1>4 DEF Delete, Visible, EntityInv, TypeOK
    <2>3. new \in Doc
      BY <2>1, <2>2 DEF Doc
    <2> QED
      BY <1>2, <1>4, <2>1, <2>2, <2>3 DEF Delete, Idle
  <1> QED
    BY <1>1, <1>3, <1>4 DEF UseExisting

LEMMA StoringMoves ==
    ASSUME EntityInv, HandOver, NEW h \in Handlers,
           Save(h) \/ SaveFails(h) \/ SaveUnconfirmed(h)
    PROVE  \E l \in Handler : MovesTo(h, l)
  <1>1. PICK l \in Handler : l = handlers[h]
    BY DEF EntityInv, TypeOK
  <1>2. PICK increment \in {0, 1} : increment = IF SetsArray(h) THEN 1 ELSE 0
    OBVIOUS
  <1>3. l.pc = "save" /\ l.id \in Ids /\ l.doc \in Doc
    BY <1>1 DEF Save, SaveFails, SaveUnconfirmed, At, EntityInv, HandlersFit, Fits
  <1>4. PICK stored \in Doc \cup {Null} : stored = db[l.id]
    BY <1>3 DEF EntityInv, TypeOK
  <1>5. PICK doc \in Doc :
          /\ doc = Saved(stored, l.doc, l.dirty, increment)
          /\ doc.last_sync = IF stored = Null THEN l.doc.last_sync
                             ELSE stored.last_sync
    BY <1>3, SavedType
  <1>6. stored = Null => doc.last_sync = Null
    BY <1>1, <1>3, <1>4, <1>5, NullIsNoRecord DEF EntityInv, DocumentsAreOwn
  <1>7. db' = db \/ db' = [db EXCEPT ![l.id] = doc]
    BY <1>1, <1>2, <1>4, <1>5 DEF Save, SaveFails, SaveUnconfirmed
  <1>8. \A i \in Ids : db'[i] # Null /\ db'[i].last_sync # Null
          => db[i] # Null /\ db'[i].last_sync = db[i].last_sync
    BY <1>3, <1>4, <1>5, <1>6, <1>7 DEF EntityInv, TypeOK
  <1>9. PICK new \in Handler :
          new.pc \in {"idle", "sync"} /\ handlers' = [handlers EXCEPT ![h] = new]
    <2>1. CASE Save(h)
      <3>1. PICK memory : memory = [l.doc EXCEPT !.v = @ + increment]
        OBVIOUS
      <3>2. PICK new : new = [l EXCEPT !.pc = "sync", !.dirty = {}, !.doc = memory]
        OBVIOUS
      <3>3. handlers' = [handlers EXCEPT ![h] = new]
        BY <2>1, <3>1, <3>2, <1>1, <1>2 DEF Save
      <3>4. memory \in Doc
        BY <3>1, <1>3 DEF Doc
      <3>5. new \in Handler /\ new.pc = "sync"
        BY <3>2, <3>4 DEF Handler
      <3> QED
        BY <3>3, <3>5
    <2>2. CASE SaveFails(h) \/ SaveUnconfirmed(h)
      <3>1. handlers' = [handlers EXCEPT ![h] = Ended("error")]
        BY <2>2 DEF SaveFails, SaveUnconfirmed
      <3>2. Ended("error") \in Handler /\ Ended("error").pc = "idle"
        BY EndedFits DEF Answers
      <3> QED
        BY <3>1, <3>2
    <2> QED
      BY <2>1, <2>2
  <1>10. UNCHANGED <<stage1Vars, outbox>>
    BY DEF Save, SaveFails, SaveUnconfirmed
  <1> QED
    BY <1>1, <1>3, <1>8, <1>9, <1>10, RestMoves

\* The request is built under a new id.
LEMMA RequestMoves ==
    ASSUME EntityInv, HandOver, NEW h \in Handlers, NEW r \in Rids,
           Sync(h, r) \/ SyncThrows(h, r)
    PROVE  \E l \in Handler : MovesTo(h, l)
  <1>1. PICK old \in Handler : old = handlers[h]
    BY DEF EntityInv, TypeOK
  <1>2. PICK l : l = [old EXCEPT !.pc = IF Sync(h, r) THEN "await" ELSE "enqueue",
                                 !.request_id = r, !.doc = Null]
    OBVIOUS
  <1>3. /\ old.pc = "sync" /\ BuildPayload(h, r)
        /\ UNCHANGED <<db, outbox>>
        /\ Post(h, r) \/ calls' = calls
    BY <1>1 DEF Sync, SyncThrows, At
  <1>4. handlers' = [handlers EXCEPT ![h] = l]
    <2>1. CASE Sync(h, r)
      BY <2>1, <1>1, <1>2 DEF Sync, EntityInv, TypeOK
    <2>2. CASE SyncThrows(h, r) /\ ~Sync(h, r)
      BY <2>2, <1>1, <1>2 DEF SyncThrows, EntityInv, TypeOK
    <2> QED
      BY <2>1, <2>2
  <1>5. /\ requests[r] = Null
        /\ requests'[r] \in Request
        /\ \A q \in Rids \ {r} : requests'[q] = requests[q]
    BY <1>1, <1>3, BuildPayloadAdds
  <1>6. l \in Handler /\ l.request_id = r /\ (Sync(h, r) => l.pc = "await")
    BY <1>2 DEF Handler
  <1>7. calls[h].st = "none"
    BY <1>1, <1>3 DEF HandOver, CallsAreAwaited
  <1>8. calls'[h].st # "none" => Sync(h, r)
    BY <1>7 DEF Sync, SyncThrows
  <1>9. \A c \in Callers \ {h} : calls'[c] = calls[c]
    BY <1>3 DEF Post, EntityInv, Stage1Inv, Stage1TypeOK
  <1> QED
    BY <1>3, <1>4, <1>5, <1>6, <1>8, <1>9 DEF MovesTo

\* The handler reads the answer of its call.
LEMMA AnswerMoves ==
    ASSUME EntityInv, HandOver, NEW h \in Handlers, LambdaOk(h) \/ LambdaFails(h)
    PROVE  \E l \in Handler : MovesTo(h, l)
  <1>1. PICK old \in Handler : old = handlers[h]
    BY DEF EntityInv, TypeOK
  <1>2. PICK l \in Handler :
                 /\ l.request_id = old.request_id
                 /\ handlers' = [handlers EXCEPT ![h] = l]
    <2>1. CASE LambdaOk(h)
      <3>1. PICK l : l = [old EXCEPT !.pc = "last_sync", !.ok = TRUE]
        OBVIOUS
      <3>2. l \in Handler /\ l.request_id = old.request_id
        BY <3>1 DEF Handler
      <3>3. handlers' = [handlers EXCEPT ![h] = l]
        BY <2>1, <3>1, <1>1 DEF LambdaOk, EntityInv, TypeOK
      <3> QED
        BY <3>2, <3>3
    <2>2. CASE LambdaFails(h)
      <3>1. PICK l : l = [old EXCEPT !.pc = "enqueue", !.ok = FALSE]
        OBVIOUS
      <3>2. l \in Handler /\ l.request_id = old.request_id
        BY <3>1 DEF Handler
      <3>3. handlers' = [handlers EXCEPT ![h] = l]
        BY <2>2, <3>1, <1>1 DEF LambdaFails, EntityInv, TypeOK
      <3> QED
        BY <3>2, <3>3
    <2> QED
      BY <2>1, <2>2
  <1>3. old.pc = "await" /\ UNCHANGED <<requests, db, outbox>>
        /\ calls' = [calls EXCEPT ![h] = NoCall]
    BY <1>1 DEF LambdaOk, LambdaFails, At, ReadOk, ReadFailure
  <1>4. calls'[h].st = "none" /\ \A c \in Callers \ {h} : calls'[c] = calls[c]
    BY <1>3, EntityServiceAssumption DEF NoCall, EntityInv, Stage1Inv, Stage1TypeOK
  <1>5. HasRequest(old) /\ NotQueued(old)
    BY <1>3 DEF HasRequest, NotQueued
  <1> QED
    BY <1>1, <1>2, <1>3, <1>4, <1>5 DEF MovesTo

\* The failed request is queued.
LEMMA EnqueueMoves ==
    ASSUME EntityInv, HandOver, NEW h \in Handlers, Enqueue(h)
    PROVE  \E l \in Handler : MovesTo(h, l)
  <1>1. PICK old \in Handler : old = handlers[h]
    BY DEF EntityInv, TypeOK
  <1>2. PICK l : l = [old EXCEPT !.pc = "last_sync"]
    OBVIOUS
  <1>3. /\ old.pc = "enqueue" /\ ~old.ok
        /\ handlers' = [handlers EXCEPT ![h] = l]
        /\ outbox' = [outbox EXCEPT ![old.request_id] = NewItem(TRUE)]
        /\ UNCHANGED <<stage1Vars, db>>
    BY <1>1, <1>2 DEF Enqueue, At, EntityInv, TypeOK, HandlersFit, Fits
  <1>4. l \in Handler /\ l.pc = "last_sync" /\ l.request_id = old.request_id /\ ~l.ok
    BY <1>2, <1>3 DEF Handler
  <1>5. HasRequest(old) /\ ~NotQueued(l)
    BY <1>3, <1>4 DEF HasRequest, NotQueued
  <1>6. calls'[h].st = "none"
    BY <1>1, <1>3 DEF HandOver, CallsAreAwaited, stage1Vars
  <1> QED
    BY <1>1, <1>3, <1>4, <1>5, <1>6 DEF MovesTo, stage1Vars

\* The handler answers, having queued its item, reported, or neither.
LEMMA LastMoves ==
    ASSUME EntityInv, HandOver, NEW h \in Handlers,
           \/ EnqueueFails(h) \/ EnqueueUnconfirmed(h)
           \/ SaveLastSync(h) \/ SaveLastSyncFails(h)
    PROVE  \E l \in Handler : MovesTo(h, l)
  <1>1. PICK old \in Handler : old = handlers[h]
    BY DEF EntityInv, TypeOK
  <1>2. /\ handlers' = [handlers EXCEPT ![h] = Ended("ok")]
        /\ old.pc \in {"enqueue", "last_sync"}
        /\ UNCHANGED stage1Vars
        /\ \/ UNCHANGED outbox
           \/ /\ old.pc = "enqueue"
              /\ outbox' = [outbox EXCEPT ![old.request_id] = NewItem(TRUE)]
    BY <1>1 DEF EnqueueFails, EnqueueUnconfirmed, SaveLastSync, SaveLastSyncFails, At
  <1>3. PICK s : s = [ok |-> old.ok, request_id |-> old.request_id]
    OBVIOUS
  <1>4. \A i \in Ids : db'[i] # Null /\ db'[i].last_sync # Null =>
          \/ db[i] # Null /\ db'[i].last_sync = db[i].last_sync
          \/ old.pc = "last_sync" /\ db'[i].last_sync = s
    <2>1. CASE SaveLastSync(h)
      <3>1. PICK stored : stored = db[old.id]
        OBVIOUS
      <3>2. PICK doc : doc = [stored EXCEPT !.last_sync = s]
        OBVIOUS
      <3>3. old.pc = "last_sync" /\ db' = [db EXCEPT ![old.id] = doc]
        BY <2>1, <1>1, <1>3, <3>1, <3>2 DEF SaveLastSync, At
      <3>4. stored \in Doc /\ old.id \in Ids
        BY <1>1, <3>1, <3>3 DEF EntityInv, HandlersFit, Fits
      <3>5. doc.last_sync = s
        BY <3>2, <3>4 DEF Doc
      <3> QED
        BY <3>3, <3>4, <3>5 DEF EntityInv, TypeOK
    <2>2. CASE EnqueueFails(h) \/ EnqueueUnconfirmed(h) \/ SaveLastSyncFails(h)
      BY <2>2 DEF EnqueueFails, EnqueueUnconfirmed, SaveLastSyncFails
    <2> QED
      BY <2>1, <2>2
  <1>5. PICK new \in Handler : new = Ended("ok") /\ new.pc = "idle"
    BY EndedFits DEF Answers
  <1> QED
    BY <1>1, <1>2, <1>3, <1>4, <1>5, RestMoves

LEMMA HandlerHandsOver ==
    ASSUME EntityInv, HandOver, NEW h \in Handlers, HandlerStep(h)
    PROVE  \E l \in Handler : MovesTo(h, l)
  BY CreateMoves, UseExistingMoves, StoringMoves, RequestMoves, AnswerMoves,
     EnqueueMoves, LastMoves
     DEF HandlerStep, Synchronise

-----------------------------------------------------------------------------
(* Runs. *)

\* A step that leaves the handlers alone and changes items, but neither adds
\* nor removes one.
ItemsKept ==
    /\ Stage1Inv'
    /\ \A h \in Handlers : calls'[h] = calls[h]
    /\ outbox' \in [Rids -> Item \cup {Null}]
    /\ \A r \in Rids : outbox'[r] \in Item <=> outbox[r] \in Item
    /\ UNCHANGED <<requests, remote, applied, db, handlers>>

\* A run goes on with locals k.
RunMovesTo(p, k) ==
    /\ runs' = [runs EXCEPT ![p] = k]
    /\ RunFits(k, p)'
    /\ Stage1Inv'
    /\ \A c \in Callers \ {p} : calls'[c] = calls[c]
    /\ outbox' \in [Rids -> Item \cup {Null}]
    /\ \A r \in Rids : outbox'[r] \in Item <=> outbox[r] \in Item
    /\ UNCHANGED <<requests, remote, applied>>

\* The items of OutboxService are those of the handlers.
LEMMA SameItems == Outbox!Item = Item /\ Outbox!Status = Status
  BY DEF Outbox!Item, Item, Outbox!Status, Status

\* Handlers see of a run only that items stay items.
LEMMA ItemsKeepEntity ==
    ASSUME EntityInv, ItemsKept
    PROVE  EntityInv'
  <1>1. \A h \in Handlers : calls'[h] = calls[h]
    BY DEF ItemsKept
  <1>2. \A r \in Rids : outbox[r] # Null <=> outbox'[r] # Null
    BY NullIsNoRecord DEF ItemsKept, EntityInv, TypeOK
  <1>3. TypeOK'
    BY DEF ItemsKept, EntityInv, TypeOK, Stage1Inv
  <1>4. HandlersFit'
    <2> SUFFICES ASSUME NEW h \in Handlers PROVE Fits(handlers[h], h)'
      BY DEF HandlersFit
    <2>1. PICK l : l = handlers[h] /\ handlers'[h] = l
      BY DEF ItemsKept
    <2>2. Fits(l, h)
      BY <2>1 DEF EntityInv, HandlersFit
    <2>3. l.request_id \in Rids
            => (outbox'[l.request_id] \in Item <=> outbox[l.request_id] \in Item)
      BY DEF ItemsKept
    <2>4. Fits(l, h)'
      BY <2>2, <2>3, <1>1 DEF Fits, ItemsKept
    <2> QED
      BY <2>1, <2>4
  <1>5. (DocumentsAreOwn /\ RequestsAreStored /\ RemoteKnowsOnlyStored)'
    BY DEF ItemsKept, EntityInv, DocumentsAreOwn, RequestsAreStored, RemoteKnowsOnlyStored
  <1>6. OkMeansApplied'
    BY DEF ItemsKept, EntityInv, OkMeansApplied
  <1>7. FailureIsQueued'
    <2>1. \A i \in Ids : db[i] # Null /\ db[i].last_sync # Null
             => db[i].last_sync.request_id \in Rids
      BY DEF EntityInv, TypeOK, Doc, LastSync
    <2> QED
      BY <2>1, <1>2 DEF ItemsKept, EntityInv, FailureIsQueued
  <1> QED
    BY <1>3, <1>4, <1>5, <1>6, <1>7 DEF EntityInv, ItemsKept

LEMMA ItemsKeepHandOver ==
    ASSUME EntityInv, HandOver, ItemsKept
    PROVE  HandOver'
  <1>1. \A h \in Handlers : calls'[h] = calls[h]
    BY DEF ItemsKept
  <1>2. \A r \in Rids : outbox[r] = Null => outbox'[r] = Null
    BY NullIsNoRecord DEF ItemsKept
  <1>3. (RequestsAreOwn /\ ReportsAreOver /\ CallsAreAwaited /\ ItemsAreRequests)'
    BY <1>1 DEF HandOver, RequestsAreOwn, ReportsAreOver, CallsAreAwaited,
                ItemsAreRequests, ItemsKept
  <1>4. QueuedAfterCall'
    <2>1. \A h \in Handlers : NotQueued(handlers[h]) => handlers[h].request_id \in Rids
      BY DEF NotQueued, EntityInv, HandlersFit, Fits
    <2> QED
      BY <1>2, <2>1 DEF HandOver, QueuedAfterCall, ItemsKept
  <1>5. SuccessIsNotQueued'
    <2>1. \A i \in Ids : db[i] # Null /\ db[i].last_sync # Null
             => db[i].last_sync.request_id \in Rids
      BY DEF EntityInv, TypeOK, Doc, LastSync
    <2> QED
      BY <1>2, <2>1 DEF HandOver, SuccessIsNotQueued, ItemsKept
  <1> QED
    BY <1>3, <1>4, <1>5 DEF HandOver

LEMMA RunKeepsRuns ==
    ASSUME RunsFit, NEW p \in Runs, NEW k, RunMovesTo(p, k)
    PROVE  RunsFit'
  <1>1. k \in Outbox!Run
    BY DEF RunMovesTo, RunFits
  <1>2. runs' \in [Runs -> Outbox!Run] /\ runs'[p] = k
        /\ \A q \in Runs \ {p} : runs'[q] = runs[q]
    BY <1>1 DEF RunsFit, RunMovesTo
  <1>3. ASSUME NEW q \in Runs PROVE RunFits(runs[q], q)'
    <2>1. CASE q = p
      BY <2>1, <1>2 DEF RunMovesTo, RunFits
    <2>2. CASE q # p
      <3>1. PICK j \in Outbox!Run : j = runs[q] /\ runs'[q] = j
        BY <2>2, <1>2 DEF RunsFit
      <3>2. RunFits(j, q) /\ calls'[q] = calls[q]
        BY <2>2, <3>1, BackofficeAssumption DEF RunsFit, RunMovesTo
      <3>3. j.batch \in SUBSET Outbox!Local
        BY DEF Outbox!Run
      <3>4. \A item \in Outbox!Local : item.request_id \in Rids
        BY DEF Outbox!Local
      <3>5. RunFits(j, q)'
        BY <3>2, <3>3, <3>4 DEF RunFits, RunMovesTo
      <3> QED
        BY <3>1, <3>5
    <2> QED
      BY <2>1, <2>2
  <1> QED
    BY <1>2, <1>3 DEF RunsFit

LEMMA RunKeeps ==
    ASSUME ProcessInv, NEW p \in Runs, NEW k, RunMovesTo(p, k),
           UNCHANGED <<db, handlers, missed>>
    PROVE  ProcessInv'
  <1>1. ItemsKept
    BY EntityServiceAssumption, BackofficeAssumption DEF RunMovesTo, ItemsKept
  <1> QED
    BY <1>1, ItemsKeepEntity, ItemsKeepHandOver, RunKeepsRuns DEF ProcessInv

\* A run that has no call before and after the step.
LEMMA QuietStep ==
    ASSUME ProcessInv, NEW p \in Runs, NEW k \in Outbox!Run,
           runs[p].pc # "await", k.pc # "await",
           UNCHANGED stage1Vars,
           runs' = [runs EXCEPT ![p] = k],
           \/ UNCHANGED outbox
           \/ \E r \in Rids, new \in Item :
                 outbox[r] \in Item /\ outbox' = [outbox EXCEPT ![r] = new],
           \A item \in k.batch : outbox[item.request_id] \in Item,
           k.pc \in {"save", "catch"} =>
              k.item \in Outbox!Local /\ outbox[k.item.request_id] \in Item
    PROVE  RunMovesTo(p, k)
  <1>1. outbox \in [Rids -> Item \cup {Null}]
    BY DEF ProcessInv, EntityInv, TypeOK
  <1>2. outbox' \in [Rids -> Item \cup {Null}]
        /\ \A r \in Rids : outbox'[r] \in Item <=> outbox[r] \in Item
    BY <1>1
  <1>3. Stage1Inv'
    BY StutterKeeps DEF ProcessInv, EntityInv
  <1>4. calls'[p].st = "none"
    BY BackofficeAssumption
       DEF ProcessInv, RunsFit, RunFits, stage1Vars, EntityInv, Stage1Inv,
           Stage1TypeOK, Call
  <1>5. /\ k.batch \in SUBSET Outbox!Local
        /\ \A item \in Outbox!Local : item.request_id \in Rids
    BY DEF Outbox!Run, Outbox!Local
  <1>6. RunFits(k, p)'
    BY <1>2, <1>4, <1>5 DEF RunFits
  <1> QED
    BY <1>2, <1>3, <1>6 DEF RunMovesTo, stage1Vars

\* Going on with what is left of a batch (Continue).
LEMMA ContinueStep ==
    ASSUME ProcessInv, NEW p \in Runs, NEW batch \in SUBSET Outbox!Local,
           runs[p].pc # "await",
           UNCHANGED stage1Vars,
           runs' = [runs EXCEPT ![p] = Outbox!Continue(batch)],
           \/ UNCHANGED outbox
           \/ \E r \in Rids, new \in Item :
                 outbox[r] \in Item /\ outbox' = [outbox EXCEPT ![r] = new],
           \A item \in batch : outbox[item.request_id] \in Item
    PROVE  \E k \in Outbox!Run : RunMovesTo(p, k)
  <1>1. PICK k : k = Outbox!Continue(batch)
    OBVIOUS
  <1>2. k \in Outbox!Run /\ k.pc \in {"idle", "next"} /\ k.batch \subseteq batch
    BY <1>1 DEF Outbox!Continue, Outbox!Run, Outbox!NoRun
  <1>3. \A item \in k.batch : outbox[item.request_id] \in Item
    BY <1>2
  <1> QED
    BY <1>1, <1>2, <1>3, QuietStep

LEMMA SetStatusKind ==
    ASSUME NEW item \in Outbox!Local, NEW status \in Outbox!Status
    PROVE  /\ Outbox!SetStatus(item, status) \in Outbox!Local
           /\ Outbox!SetStatus(item, status).request_id = item.request_id
           /\ Outbox!SetStatus(item, status).status = status
  BY DEF Outbox!SetStatus, Outbox!Local

LEMMA FindMoves ==
    ASSUME ProcessInv, NEW p \in Runs, NEW s \in SUBSET Rids, Outbox!Find(p, s)
    PROVE  \E k \in Outbox!Run : RunMovesTo(p, k)
  <1>1. PICK batch : batch = {Outbox!Loaded(r) : r \in s}
    OBVIOUS
  <1>2. ASSUME NEW r \in s
        PROVE  /\ Outbox!Loaded(r) \in Outbox!Local
               /\ outbox[Outbox!Loaded(r).request_id] \in Item
    <2>1. outbox[r] \in Item
      BY DEF Outbox!Find, Outbox!Batches, Outbox!Due, ProcessInv, EntityInv, TypeOK
    <2> QED
      BY <2>1, SameItems DEF Outbox!Loaded, Outbox!Local, Item
  <1>3. batch \in SUBSET Outbox!Local
        /\ \A item \in batch : outbox[item.request_id] \in Item
    BY <1>1, <1>2
  <1>4. /\ runs[p].pc # "await"
        /\ runs' = [runs EXCEPT ![p] = Outbox!Continue(batch)]
        /\ UNCHANGED <<stage1Vars, outbox>>
    BY <1>1
       DEF Outbox!Find, Outbox!At, Outbox!stage1Vars, stage1Vars
  <1> QED
    BY <1>3, <1>4, ContinueStep

LEMMA GiveUpMoves ==
    ASSUME ProcessInv, NEW p \in Runs, NEW loaded \in runs[p].batch,
           Outbox!GiveUp(p, loaded)
    PROVE  \E k \in Outbox!Run : RunMovesTo(p, k)
  <1>1. PICK run \in Outbox!Run : run = runs[p]
    BY DEF ProcessInv, RunsFit
  <1>2. loaded \in Outbox!Local /\ run.batch \in SUBSET Outbox!Local
        /\ \A item \in run.batch : outbox[item.request_id] \in Item
    BY <1>1 DEF Outbox!Run, ProcessInv, RunsFit, RunFits
  <1>3. PICK item \in Outbox!Local :
          /\ item = Outbox!SetStatus(loaded, "FAILED")
          /\ item.request_id = loaded.request_id
          /\ item.status = "FAILED"
    BY <1>2, SetStatusKind DEF Outbox!Status
  <1>4. PICK rest : rest = run.batch \ {loaded}
    OBVIOUS
  <1>5. PICK r \in Rids : r = loaded.request_id
    BY <1>2 DEF Outbox!Local
  <1>6. outbox[r] \in Item
    BY <1>1, <1>2, <1>5
  <1>7. PICK status : status = IF item.dirty THEN item.status ELSE outbox[r].status
    OBVIOUS
  <1>8. PICK new : new = [outbox[r] EXCEPT !.status = status]
    OBVIOUS
  <1>9. new \in Item
    BY <1>3, <1>6, <1>7, <1>8 DEF Item, Status
  <1>10. /\ run.pc = "next"
         /\ runs' = [runs EXCEPT ![p] = Outbox!Continue(rest)]
         /\ UNCHANGED stage1Vars
         /\ outbox' = outbox \/ outbox' = [outbox EXCEPT ![r].status = status]
    BY <1>1, <1>3, <1>4, <1>5, <1>7
       DEF Outbox!GiveUp, Outbox!At, Outbox!stage1Vars, stage1Vars
  <1>11. outbox' = outbox \/ outbox' = [outbox EXCEPT ![r] = new]
    BY <1>8, <1>10
  <1>12. /\ rest \in SUBSET Outbox!Local
         /\ \A other \in rest : outbox[other.request_id] \in Item
    BY <1>2, <1>4
  <1> QED
    BY <1>1, <1>6, <1>9, <1>10, <1>11, <1>12, ContinueStep

\* The call of a retry is for the item in hand.
LEMMA RetryMoves ==
    ASSUME ProcessInv, NEW p \in Runs, NEW loaded \in runs[p].batch,
           Outbox!Retry(p, loaded)
    PROVE  \E k \in Outbox!Run : RunMovesTo(p, k)
  <1>1. PICK run \in Outbox!Run : run = runs[p]
    BY DEF ProcessInv, RunsFit
  <1>2. loaded \in Outbox!Local /\ run.batch \in SUBSET Outbox!Local
        /\ \A item \in run.batch : outbox[item.request_id] \in Item
    BY <1>1 DEF Outbox!Run, ProcessInv, RunsFit, RunFits
  <1>3. PICK item : item = [loaded EXCEPT !.attempts = @ + 1]
    OBVIOUS
  <1>4. PICK r \in Rids : r = loaded.request_id
    BY <1>2 DEF Outbox!Local
  <1>5. item \in Outbox!Local /\ item.request_id = r
    BY <1>2, <1>3, <1>4 DEF Outbox!Local
  <1>6. PICK k : k = [pc |-> "await", batch |-> run.batch \ {loaded}, item |-> item]
    OBVIOUS
  <1>7. k \in Outbox!Run /\ k.pc = "await" /\ k.batch \subseteq run.batch /\ k.item = item
    BY <1>2, <1>5, <1>6 DEF Outbox!Run
  <1>8. outbox[r] \in Item /\ requests[r] \in Request
    BY <1>1, <1>2, <1>4 DEF ProcessInv, HandOver, ItemsAreRequests
  <1>9. /\ runs' = [runs EXCEPT ![p] = k]
        /\ Post(p, r)
        /\ UNCHANGED <<requests, late, remote, applied, outbox>>
    BY <1>1, <1>3, <1>4, <1>6 DEF Outbox!Retry, Outbox!Post, Post
  <1>10. p \in Callers /\ Stage1Inv
    BY BackofficeAssumption DEF ProcessInv, EntityInv
  <1>11. Stage1Inv'
    BY <1>8, <1>9, <1>10, PostKeeps DEF Stage1Inv, Stage1TypeOK
  <1>12. calls'[p] = [st |-> "sent", request_id |-> r]
         /\ \A c \in Callers \ {p} : calls'[c] = calls[c]
    BY <1>9, <1>10 DEF Post, Stage1Inv, Stage1TypeOK
  <1>13. RunFits(k, p)'
    BY <1>2, <1>5, <1>7, <1>8, <1>9, <1>12 DEF RunFits
  <1> QED
    BY <1>7, <1>9, <1>11, <1>12, <1>13 DEF RunMovesTo, ProcessInv, EntityInv, TypeOK

LEMMA RetryThrowsMoves ==
    ASSUME ProcessInv, NEW p \in Runs, NEW loaded \in runs[p].batch,
           Outbox!RetryThrows(p, loaded)
    PROVE  \E k \in Outbox!Run : RunMovesTo(p, k)
  <1>1. PICK run \in Outbox!Run : run = runs[p]
    BY DEF ProcessInv, RunsFit
  <1>2. loaded \in Outbox!Local /\ run.batch \in SUBSET Outbox!Local
        /\ \A item \in run.batch : outbox[item.request_id] \in Item
    BY <1>1 DEF Outbox!Run, ProcessInv, RunsFit, RunFits
  <1>3. PICK counted : counted = [loaded EXCEPT !.attempts = @ + 1]
    OBVIOUS
  <1>4. counted \in Outbox!Local /\ counted.request_id = loaded.request_id
    BY <1>2, <1>3 DEF Outbox!Local
  <1>5. PICK item \in Outbox!Local :
          /\ item = Outbox!SetStatus(counted, "FAILED")
          /\ item.request_id = loaded.request_id
    BY <1>4, SetStatusKind DEF Outbox!Status
  <1>6. PICK k : k = [pc |-> "catch", batch |-> run.batch \ {loaded}, item |-> item]
    OBVIOUS
  <1>7. k \in Outbox!Run /\ k.pc = "catch" /\ k.batch \subseteq run.batch /\ k.item = item
    BY <1>2, <1>5, <1>6 DEF Outbox!Run
  <1>8. /\ run.pc = "next"
        /\ runs' = [runs EXCEPT ![p] = k]
        /\ UNCHANGED <<stage1Vars, outbox>>
    BY <1>1, <1>3, <1>5, <1>6
       DEF Outbox!RetryThrows, Outbox!At, Outbox!stage1Vars, stage1Vars
  <1> QED
    BY <1>1, <1>2, <1>5, <1>7, <1>8, QuietStep

\* The run reads the answer of its call.
LEMMA AnswerIsRead ==
    ASSUME ProcessInv, NEW p \in Runs, Outbox!RetryOk(p) \/ Outbox!RetryFails(p)
    PROVE  \E k \in Outbox!Run : RunMovesTo(p, k)
  <1>1. PICK run \in Outbox!Run : run = runs[p]
    BY DEF ProcessInv, RunsFit
  <1>2. run.pc = "await"
    BY <1>1 DEF Outbox!RetryOk, Outbox!RetryFails, Outbox!At
  <1>3. /\ run.item \in Outbox!Local
        /\ outbox[run.item.request_id] \in Item
        /\ \A item \in run.batch : outbox[item.request_id] \in Item
    BY <1>1, <1>2 DEF ProcessInv, RunsFit, RunFits
  <1>4. PICK status \in Outbox!Status :
          runs' = [runs EXCEPT ![p].pc = "save",
                              ![p].item = Outbox!SetStatus(@, status)]
    BY DEF Outbox!RetryOk, Outbox!RetryFails, Outbox!Status
  <1>5. PICK item \in Outbox!Local :
          /\ item = Outbox!SetStatus(run.item, status)
          /\ item.request_id = run.item.request_id
    BY <1>3, SetStatusKind
  <1>6. PICK k : k = [run EXCEPT !.pc = "save", !.item = item]
    OBVIOUS
  <1>7. k \in Outbox!Run /\ k.pc = "save" /\ k.batch = run.batch /\ k.item = item
    BY <1>5, <1>6 DEF Outbox!Run
  <1>8. runs' = [runs EXCEPT ![p] = k]
    BY <1>1, <1>4, <1>5, <1>6 DEF ProcessInv, RunsFit
  <1>9. /\ ReadOk(p) \/ ReadFailure(p)
        /\ UNCHANGED <<requests, remote, applied, outbox>>
    BY DEF Outbox!RetryOk, Outbox!RetryFails, Outbox!ReadOk, ReadOk, Outbox!ReadFailure,
           ReadFailure, Outbox!NoCall, NoCall
  <1>10. p \in Callers /\ Stage1Inv
    BY BackofficeAssumption DEF ProcessInv, EntityInv
  <1>11. Stage1Inv'
    BY <1>9, <1>10, ReadOkKeeps, ReadFailureKeeps
  <1>12. calls' = [calls EXCEPT ![p] = NoCall]
    BY <1>9 DEF ReadOk, ReadFailure
  <1>13. calls'[p].st = "none" /\ \A c \in Callers \ {p} : calls'[c] = calls[c]
    BY <1>10, <1>12 DEF NoCall, Stage1Inv, Stage1TypeOK
  <1>14. RunFits(k, p)'
    BY <1>3, <1>5, <1>7, <1>9, <1>13 DEF RunFits
  <1> QED
    BY <1>7, <1>8, <1>9, <1>11, <1>13, <1>14 DEF RunMovesTo, ProcessInv, EntityInv, TypeOK

LEMMA SaveItemMoves ==
    ASSUME ProcessInv, NEW p \in Runs,
           \/ Outbox!SaveItem(p) \/ Outbox!CatchFails(p)
           \/ Outbox!SaveItemFails(p) \/ Outbox!SaveItemUnconfirmed(p)
    PROVE  \E k \in Outbox!Run : RunMovesTo(p, k)
  <1>1. PICK run \in Outbox!Run : run = runs[p]
    BY DEF ProcessInv, RunsFit
  <1>2. run.pc \in {"save", "catch"} /\ UNCHANGED stage1Vars
    BY <1>1 DEF Outbox!stage1Vars, stage1Vars, Outbox!SaveItem, Outbox!CatchFails,
                Outbox!SaveItemFails, Outbox!SaveItemUnconfirmed, Outbox!At
  <1>3. /\ run.item \in Outbox!Local
        /\ outbox[run.item.request_id] \in Item
        /\ run.batch \in SUBSET Outbox!Local
        /\ \A other \in run.batch : outbox[other.request_id] \in Item
    BY <1>1, <1>2 DEF ProcessInv, RunsFit, RunFits, Outbox!Run
  <1>4. PICK item \in Outbox!Local : item = run.item
    BY <1>3
  <1>5. PICK r \in Rids : r = item.request_id
    BY DEF Outbox!Local
  <1>6. PICK new :
          new = [status   |-> IF item.dirty THEN item.status ELSE outbox[r].status,
                 attempts |-> item.attempts,
                 due      |-> FALSE]
    OBVIOUS
  <1>7. outbox[r] \in Item /\ new \in Item
    BY <1>3, <1>4, <1>5, <1>6, SameItems DEF Outbox!Local, Item
  <1>8. outbox' = outbox \/ outbox' = [outbox EXCEPT ![r] = new]
    BY <1>1, <1>4, <1>5, <1>6
       DEF Outbox!SaveItem, Outbox!CatchFails, Outbox!SaveItemFails,
           Outbox!SaveItemUnconfirmed
  <1>9. \/ UNCHANGED outbox
        \/ \E q \in Rids, other \in Item :
              outbox[q] \in Item /\ outbox' = [outbox EXCEPT ![q] = other]
    BY <1>7, <1>8
  <1>10. CASE Outbox!SaveItem(p) \/ Outbox!CatchFails(p)
    <2>1. runs' = [runs EXCEPT ![p] = Outbox!Continue(run.batch)]
      BY <1>1, <1>10 DEF Outbox!SaveItem, Outbox!CatchFails, ProcessInv, RunsFit
    <2> QED
      BY <2>1, <1>1, <1>2, <1>3, <1>9, ContinueStep
  <1>11. CASE Outbox!SaveItemFails(p) \/ Outbox!SaveItemUnconfirmed(p)
    <2>1. PICK failed \in Outbox!Local :
            /\ failed = Outbox!SetStatus(item, "FAILED")
            /\ failed.request_id = r
      BY <1>5, SetStatusKind DEF Outbox!Status
    <2>2. PICK k : k = [run EXCEPT !.pc = "catch", !.item = failed]
      OBVIOUS
    <2>3. k \in Outbox!Run /\ k.pc = "catch" /\ k.batch = run.batch /\ k.item = failed
      BY <2>1, <2>2 DEF Outbox!Run
    <2>4. runs' = [runs EXCEPT ![p] = k]
      BY <2>1, <2>2, <1>1, <1>4, <1>11
         DEF Outbox!SaveItemFails, Outbox!SaveItemUnconfirmed, ProcessInv, RunsFit
    <2> QED
      BY <2>1, <2>3, <2>4, <1>1, <1>2, <1>3, <1>7, <1>9, QuietStep
  <1> QED
    BY <1>10, <1>11

\* Whatever a run does (RunStep).
LEMMA RunStepMoves ==
    ASSUME ProcessInv, NEW p \in Runs, Outbox!RunStep(p)
    PROVE  \E k \in Outbox!Run : RunMovesTo(p, k)
  BY FindMoves, GiveUpMoves, RetryMoves, RetryThrowsMoves, AnswerIsRead, SaveItemMoves
     DEF Outbox!RunStep, Outbox!Start, Outbox!Work

LEMMA RunStepKeeps ==
    ASSUME ProcessInv, NEW p \in Runs, Outbox!RunStep(p),
           UNCHANGED <<db, handlers, missed>>
    PROVE  ProcessInv'
  BY RunStepMoves, RunKeeps

-----------------------------------------------------------------------------
(* The process. *)

\* What others do leaves the runs fit as long as it removes no item and ends
\* or starts no call of theirs.
LEMMA RunsStayFit ==
    ASSUME RunsFit, UNCHANGED runs,
           \A p \in Runs :
              /\ calls'[p].request_id = calls[p].request_id
              /\ calls'[p].st # "none" => calls[p].st # "none",
           \A r \in Rids : outbox[r] \in Item => outbox'[r] \in Item
    PROVE  RunsFit'
  <1>1. ASSUME NEW p \in Runs PROVE RunFits(runs[p], p)'
    <2>1. PICK k \in Outbox!Run : k = runs[p] /\ runs'[p] = k
      BY DEF RunsFit
    <2>2. RunFits(k, p)
      BY <2>1 DEF RunsFit
    <2>3. /\ k.batch \in SUBSET Outbox!Local
          /\ \A item \in Outbox!Local : item.request_id \in Rids
      BY DEF Outbox!Run, Outbox!Local
    <2>4. RunFits(k, p)'
      BY <2>2, <2>3 DEF RunFits
    <2> QED
      BY <2>1, <2>4
  <1> QED
    BY <1>1 DEF RunsFit

\* What a handler does is a step of EntityService.
LEMMA HandleKeeps ==
    ASSUME ProcessInv, NEW h \in Handlers, Handle(h)
    PROVE  ProcessInv'
  <1>1. HandlerStep(h) /\ UNCHANGED runs /\ EntityInv /\ HandOver /\ RunsFit
    BY DEF Handle, ProcessInv
  <1>2. EntityInv'
    BY <1>1, EntityInvNext DEF Next
  <1>3. PICK l \in Handler : MovesTo(h, l)
    BY <1>1, HandlerHandsOver
  <1>4. HandOver'
    BY <1>1, <1>3, MoveHandsOver
  <1>5. \A p \in Runs : calls'[p] = calls[p]
    BY <1>3, BackofficeAssumption DEF MovesTo
  <1>6. NewItem(TRUE) \in Item
    BY DEF NewItem, Item, Status
  <1>7. \A r \in Rids : outbox[r] \in Item => outbox'[r] \in Item
    BY <1>1, <1>3, <1>6 DEF MovesTo, EntityInv, TypeOK
  <1>8. RunsFit'
    BY <1>1, <1>5, <1>7, RunsStayFit
  <1>9. GivesUp(h) => handlers[h].id \in Ids
    BY <1>1 DEF GivesUp, EntityInv, HandlersFit, Fits
  <1>10. missed' \subseteq Ids
    BY <1>9 DEF Handle, ProcessInv, Overlapping
  <1> QED
    BY <1>2, <1>4, <1>8, <1>10 DEF ProcessInv

\* The delay of an item has passed (BecomeDue).
LEMMA TickKeeps ==
    ASSUME ProcessInv, Outbox!Tick, UNCHANGED <<db, handlers, missed>>
    PROVE  ProcessInv'
  <1>1. PICK r \in Rids : Outbox!BecomeDue(r)
    BY DEF Outbox!Tick
  <1>2. PICK new : new = [outbox[r] EXCEPT !.due = TRUE]
    OBVIOUS
  <1>3. outbox[r] \in Item /\ outbox \in [Rids -> Item \cup {Null}]
    BY <1>1 DEF Outbox!BecomeDue, ProcessInv, EntityInv, TypeOK
  <1>4. new \in Item
    BY <1>2, <1>3 DEF Item
  <1>5. outbox' = [outbox EXCEPT ![r] = new] /\ UNCHANGED <<stage1Vars, runs>>
    BY <1>1, <1>2 DEF Outbox!BecomeDue, Outbox!stage1Vars, stage1Vars
  <1>6. Stage1Inv'
    BY <1>5, StutterKeeps DEF ProcessInv, EntityInv
  <1>7. ItemsKept
    BY <1>3, <1>4, <1>5, <1>6 DEF ItemsKept, stage1Vars
  <1>8. RunsFit'
    BY <1>5, <1>7, RunsStayFit DEF ProcessInv, ItemsKept, stage1Vars
  <1> QED
    BY <1>7, <1>8, ItemsKeepEntity, ItemsKeepHandOver DEF ProcessInv

\* Stage 1 takes or loses requests, which neither queues nor reports one.
LEMMA Stage1Keeps ==
    ASSUME ProcessInv, Stage1Step, UNCHANGED <<db, handlers, outbox, runs, missed>>
    PROVE  ProcessInv'
  <1>1. EntityInv'
    BY EntityInvNext DEF Next, serviceVars, ProcessInv
  <1>2. requests' = requests
    BY Stage1StepKeeps DEF ProcessInv, EntityInv
  <1>3. \A c \in Callers :
           /\ calls'[c].request_id = calls[c].request_id
           /\ calls'[c].st # "none" => calls[c].st # "none"
    BY DEF Stage1Step, Apply, ApplyLate, LoseLate, ProcessInv, EntityInv, Stage1Inv,
           Stage1TypeOK, Call
  <1>4. Handlers \subseteq Callers /\ Runs \subseteq Callers
    BY EntityServiceAssumption, BackofficeAssumption
  <1>5. CallsAreAwaited'
    <2> SUFFICES ASSUME NEW h \in Handlers, calls'[h].st # "none"
                 PROVE  handlers'[h].pc = "await"
      BY DEF CallsAreAwaited
    <2>1. h \in Callers
      BY <1>4
    <2>2. calls[h].st # "none"
      BY <1>3, <2>1
    <2>3. handlers[h].pc = "await"
      BY <2>2 DEF ProcessInv, HandOver, CallsAreAwaited
    <2> QED
      BY <2>3
  <1>6. HandOver'
    BY <1>2, <1>5
       DEF ProcessInv, HandOver, RequestsAreOwn, ReportsAreOver, QueuedAfterCall,
           SuccessIsNotQueued, ItemsAreRequests
  <1>7. \A p \in Runs :
           /\ calls'[p].request_id = calls[p].request_id
           /\ calls'[p].st # "none" => calls[p].st # "none"
    BY <1>3, <1>4
  <1>8. RunsFit'
    BY <1>7, RunsStayFit DEF ProcessInv
  <1> QED
    BY <1>1, <1>6, <1>8 DEF ProcessInv

\* After a crash there is neither a handler nor a run nor a call.
LEMMA CrashKeeps ==
    ASSUME ProcessInv, ProcessCrash
    PROVE  ProcessInv'
  <1>1. EntityInv'
    BY EntityInvNext DEF Next, ProcessCrash, ProcessInv
  <1>2. /\ calls' = [c \in Callers |-> NoCall]
        /\ handlers' = [h \in Handlers |-> Ended("none")]
        /\ runs' = [p \in Runs |-> Outbox!NoRun]
        /\ UNCHANGED <<requests, db, outbox>>
    BY DEF ProcessCrash, Crash, DropCalls
  <1>3. \A h \in Handlers : handlers'[h].pc = "idle"
    BY <1>2 DEF Ended
  <1>4. HandOver'
    BY <1>2, <1>3, EntityServiceAssumption
       DEF ProcessInv, HandOver, RequestsAreOwn, ReportsAreOver, QueuedAfterCall,
           SuccessIsNotQueued, ItemsAreRequests, CallsAreAwaited, HasRequest, NotQueued,
           NoCall
  <1>5. RunsFit'
    BY <1>2, BackofficeAssumption DEF RunsFit, RunFits, Outbox!NoRun, Outbox!Run, NoCall
  <1>6. missed' \subseteq Ids
    BY DEF ProcessCrash, Interrupted, ProcessInv, EntityInv, HandlersFit, Fits
  <1> QED
    BY <1>1, <1>4, <1>5, <1>6 DEF ProcessInv

LEMMA ProcessInvInit ==
    ProcessInit => ProcessInv
  <1> SUFFICES ASSUME ProcessInit PROVE ProcessInv
    OBVIOUS
  <1>1. EntityInv
    BY EntityInvInit DEF ProcessInit
  <1>2. /\ calls = [c \in Callers |-> NoCall]
        /\ handlers = [h \in Handlers |-> Ended("none")]
        /\ runs = [p \in Runs |-> Outbox!NoRun]
        /\ db = [i \in Ids |-> Null]
        /\ outbox = [r \in Rids |-> Null]
        /\ missed = {}
    BY DEF ProcessInit, Init, Stage1Init
  <1>3. \A h \in Handlers : handlers[h].pc = "idle"
    BY <1>2 DEF Ended
  <1>4. HandOver
    BY <1>2, <1>3, EntityServiceAssumption, NullIsNoRecord
       DEF HandOver, RequestsAreOwn, ReportsAreOver, QueuedAfterCall,
           SuccessIsNotQueued, ItemsAreRequests, CallsAreAwaited, HasRequest, NotQueued,
           NoCall
  <1>5. RunsFit
    BY <1>2, BackofficeAssumption DEF RunsFit, RunFits, Outbox!NoRun, Outbox!Run, NoCall
  <1> QED
    BY <1>1, <1>2, <1>4, <1>5 DEF ProcessInv

LEMMA ProcessInvNext ==
    ProcessInv /\ [ProcessNext]_processVars => ProcessInv'
  <1> SUFFICES ASSUME ProcessInv, [ProcessNext]_processVars PROVE ProcessInv'
    OBVIOUS
  <1>1. ASSUME UNCHANGED processVars PROVE ProcessInv'
    <2>1. EntityInv'
      BY <1>1, EntityInvNext DEF processVars, ProcessInv
    <2>2. UNCHANGED <<calls, requests, db, handlers, outbox, runs, missed>>
      BY <1>1 DEF processVars, vars, serviceVars, stage1Vars
    <2>3. HandOver'
      BY <2>2 DEF ProcessInv, HandOver, RequestsAreOwn, ReportsAreOver, QueuedAfterCall,
                  SuccessIsNotQueued, ItemsAreRequests, CallsAreAwaited
    <2>4. RunsFit'
      BY <2>2, RunsStayFit DEF ProcessInv
    <2> QED
      BY <2>1, <2>2, <2>3, <2>4 DEF ProcessInv
  <1> QED
    BY <1>1, HandleKeeps, RunStepKeeps, TickKeeps, Stage1Keeps, CrashKeeps DEF ProcessNext

\* The state of the process is well typed for any number of handlers, runs and
\* documents, and all faults.
THEOREM ProcessTypes == ProcessSpec => []ProcessTypeOK
  <1>1. ProcessInv => ProcessTypeOK
    BY SameItems
       DEF ProcessInv, ProcessTypeOK, RunsFit, EntityInv, TypeOK, Outbox!TypeOK,
           Outbox!Stage1TypeOK, Stage1TypeOK, Outbox!Request, Request, Outbox!Body, Body,
           Outbox!Call, Call
  <1> QED
    BY <1>1, ProcessInvInit, ProcessInvNext, PTL DEF ProcessSpec

\* No run ever has a request in flight together with the handler that built
\* it: the item a run works on was queued after that handler's call was over
\* (sync awaits callLambda before it enqueues).
THEOREM RetriesFollowCalls == ProcessSpec => []RetryFollowsCall
  <1>1. ProcessInv => RetryFollowsCall
    <2> SUFFICES ASSUME ProcessInv, NEW h \in Handlers, NEW p \in Runs,
                        calls[h].st # "none", calls[p].st # "none"
                 PROVE  calls[h].request_id # calls[p].request_id
      BY DEF RetryFollowsCall
    <2>1. handlers[h].pc = "await"
      BY DEF ProcessInv, HandOver, CallsAreAwaited
    <2>2. /\ calls[h].request_id = handlers[h].request_id
          /\ outbox[handlers[h].request_id] = Null
      BY <2>1 DEF ProcessInv, HandOver, QueuedAfterCall, NotQueued, EntityInv,
                  HandlersFit, Fits
    <2>3. outbox[calls[p].request_id] \in Item
      BY DEF ProcessInv, RunsFit, RunFits
    <2> QED
      BY <2>2, <2>3, NullIsNoRecord
  <1> QED
    BY <1>1, ProcessInvInit, ProcessInvNext, PTL DEF ProcessSpec

\* Whatever runs do to sync_outbox, what a document says of its last
\* synchronisation stays consistent with it: a success was applied and never
\* queued, a failure is still in sync_outbox.
THEOREM ReportsAgreeWithOutbox == ProcessSpec => []LastSyncAgreesWithOutbox
  <1>1. ProcessInv => LastSyncAgreesWithOutbox
    BY DEF ProcessInv, HandOver, SuccessIsNotQueued, EntityInv, OkMeansApplied,
           FailureIsQueued, LastSyncAgreesWithOutbox
  <1> QED
    BY <1>1, ProcessInvInit, ProcessInvNext, PTL DEF ProcessSpec

-----------------------------------------------------------------------------
(* One run at a time. *)

\* What the run has loaded and not yet treated is what is stored, and waits to
\* be delivered; an item in hand counts no fewer attempts than the stored one.
MemoryIsFresh(k) ==
    /\ \A item \in k.batch : item = Outbox!Loaded(item.request_id) /\ item.status # "SENT"
    /\ k.pc \in {"await", "save", "catch"} =>
          /\ \A item \in k.batch : item.request_id # k.item.request_id
          /\ k.item.attempts >= outbox[k.item.request_id].attempts
    /\ k.pc = "await" => outbox[k.item.request_id].status # "SENT"

RunsAreFresh == \A p \in Runs : MemoryIsFresh(runs[p])

CountsUp ==
    \A r \in Rids : outbox[r] # Null => outbox'[r].attempts >= outbox[r].attempts

\* Nobody but a run writes status or attempts of an item.
LEMMA OthersKeepFresh ==
    ASSUME ProcessInv, RunsAreFresh,
           \A p \in Runs : runs'[p] = runs[p] \/ runs'[p] = Outbox!NoRun,
           \A r \in Rids : outbox[r] \in Item =>
              /\ outbox'[r].status = outbox[r].status
              /\ outbox'[r].attempts = outbox[r].attempts
    PROVE  RunsAreFresh' /\ CountsUp
  <1>1. ASSUME NEW p \in Runs PROVE MemoryIsFresh(runs[p])'
    <2>1. CASE runs'[p] = Outbox!NoRun
      BY <2>1 DEF Outbox!NoRun, MemoryIsFresh
    <2>2. CASE runs'[p] = runs[p]
      <3>1. PICK k \in Outbox!Run : k = runs[p] /\ runs'[p] = k
        BY <2>2 DEF ProcessInv, RunsFit
      <3>2. RunFits(k, p) /\ MemoryIsFresh(k)
        BY <3>1 DEF ProcessInv, RunsFit, RunsAreFresh
      <3>3. /\ k.batch \in SUBSET Outbox!Local
            /\ \A item \in Outbox!Local : item.request_id \in Rids
        BY DEF Outbox!Run, Outbox!Local
      <3>4. \A item \in k.batch :
               Outbox!Loaded(item.request_id)' = Outbox!Loaded(item.request_id)
        BY <3>2, <3>3 DEF RunFits, Outbox!Loaded
      <3>5. MemoryIsFresh(k)'
        BY <3>2, <3>3, <3>4 DEF RunFits, MemoryIsFresh
      <3> QED
        BY <3>1, <3>5
    <2> QED
      BY <2>1, <2>2
  <1>2. CountsUp
    <2>1. \A r \in Rids : outbox[r] # Null => outbox[r] \in Item
      BY DEF ProcessInv, EntityInv, TypeOK
    <2>2. \A r \in Rids : outbox[r] \in Item => outbox[r].attempts \in Nat
      BY DEF Item
    <2> QED
      BY <2>1, <2>2 DEF CountsUp
  <1> QED
    BY <1>1, <1>2 DEF RunsAreFresh, MemoryIsFresh, Outbox!Loaded

\* The only run goes on with fresh locals k.
LEMMA OnlyRunIsFresh ==
    ASSUME \A p, q \in Runs : p = q,
           NEW p \in Runs, NEW k \in Outbox!Run, runs' = [runs EXCEPT ![p] = k],
           ProcessInv, MemoryIsFresh(k)'
    PROVE  RunsAreFresh'
  <1>1. runs'[p] = k
    BY DEF ProcessInv, RunsFit
  <1> QED
    BY <1>1 DEF RunsAreFresh, MemoryIsFresh, Outbox!Loaded

\* The run goes on with some of what it has left (Continue), having changed at
\* most the item r, which is none of these.
LEMMA ContinueIsFresh ==
    ASSUME \A p, q \in Runs : p = q, ProcessInv,
           NEW p \in Runs, NEW batch \in SUBSET Outbox!Local,
           runs' = [runs EXCEPT ![p] = Outbox!Continue(batch)],
           NEW r \in Rids,
           \A item \in batch : /\ item = Outbox!Loaded(item.request_id)
                               /\ item.status # "SENT"
                               /\ item.request_id # r,
           \A q \in Rids \ {r} : outbox'[q] = outbox[q]
    PROVE  RunsAreFresh'
  <1>1. PICK k : k = Outbox!Continue(batch)
    OBVIOUS
  <1>2. k \in Outbox!Run /\ k.pc \in {"idle", "next"} /\ k.batch \subseteq batch
    BY <1>1 DEF Outbox!Continue, Outbox!Run, Outbox!NoRun
  <1>3. \A item \in batch : item.request_id \in Rids
    BY DEF Outbox!Local
  <1>4. \A item \in batch : item = Outbox!Loaded(item.request_id)'
    BY <1>3 DEF Outbox!Loaded
  <1>5. MemoryIsFresh(k)'
    BY <1>2, <1>4 DEF MemoryIsFresh
  <1> QED
    BY <1>1, <1>2, <1>5, OnlyRunIsFresh

LEMMA FindIsFresh ==
    ASSUME \A p, q \in Runs : p = q, ProcessInv, RunsAreFresh,
           NEW p \in Runs, NEW s \in SUBSET Rids, Outbox!Find(p, s)
    PROVE  RunsAreFresh' /\ CountsUp
  <1>1. PICK batch : batch = {Outbox!Loaded(r) : r \in s}
    OBVIOUS
  <1>2. ASSUME NEW r \in s
        PROVE  /\ Outbox!Loaded(r) \in Outbox!Local
               /\ Outbox!Loaded(r).request_id = r
               /\ Outbox!Loaded(r).status # "SENT"
    <2>1. outbox[r] \in Item /\ outbox[r].status # "SENT"
      BY DEF Outbox!Find, Outbox!Batches, Outbox!Due, ProcessInv, EntityInv, TypeOK
    <2> QED
      BY <2>1, SameItems DEF Outbox!Loaded, Outbox!Local, Item
  <1>3. batch \in SUBSET Outbox!Local
    BY <1>1, <1>2
  <1>4. /\ runs' = [runs EXCEPT ![p] = Outbox!Continue(batch)]
        /\ UNCHANGED outbox
    BY <1>1 DEF Outbox!Find
  <1>5. PICK k : k = Outbox!Continue(batch)
    OBVIOUS
  <1>6. k \in Outbox!Run /\ k.pc \in {"idle", "next"} /\ k.batch \subseteq batch
    BY <1>3, <1>5 DEF Outbox!Continue, Outbox!Run, Outbox!NoRun
  <1>7. \A item \in batch : item = Outbox!Loaded(item.request_id)' /\ item.status # "SENT"
    BY <1>1, <1>2, <1>4 DEF Outbox!Loaded
  <1>8. MemoryIsFresh(k)'
    BY <1>6, <1>7 DEF MemoryIsFresh
  <1>9. \A r \in Rids : outbox[r] # Null => outbox[r].attempts \in Nat
    BY DEF ProcessInv, EntityInv, TypeOK, Item
  <1>10. CountsUp
    BY <1>4, <1>9 DEF CountsUp
  <1>11. runs' = [runs EXCEPT ![p] = k]
    BY <1>4, <1>5
  <1> QED
    BY <1>6, <1>8, <1>10, <1>11, OnlyRunIsFresh

LEMMA GiveUpIsFresh ==
    ASSUME \A p, q \in Runs : p = q, ProcessInv, RunsAreFresh,
           NEW p \in Runs, NEW loaded \in runs[p].batch, Outbox!GiveUp(p, loaded)
    PROVE  RunsAreFresh' /\ CountsUp
  <1>1. PICK run \in Outbox!Run : run = runs[p]
    BY DEF ProcessInv, RunsFit
  <1>2. /\ run.batch \in SUBSET Outbox!Local
        /\ MemoryIsFresh(run)
        /\ loaded \in run.batch
    BY <1>1 DEF Outbox!Run, RunsAreFresh
  <1>3. PICK r \in Rids : r = loaded.request_id
    BY <1>2 DEF Outbox!Local
  <1>4. PICK item \in Outbox!Local :
          item = Outbox!SetStatus(loaded, "FAILED") /\ item.request_id = r
    BY <1>2, <1>3, SetStatusKind DEF Outbox!Status
  <1>5. PICK rest : rest = run.batch \ {loaded}
    OBVIOUS
  <1>6. PICK status : status = IF item.dirty THEN item.status ELSE outbox[r].status
    OBVIOUS
  <1>7. /\ runs' = [runs EXCEPT ![p] = Outbox!Continue(rest)]
        /\ outbox' = outbox \/ outbox' = [outbox EXCEPT ![r].status = status]
    BY <1>1, <1>4, <1>5, <1>6 DEF Outbox!GiveUp
  <1>8. /\ rest \in SUBSET Outbox!Local
        /\ \A other \in rest : /\ other = Outbox!Loaded(other.request_id)
                               /\ other.status # "SENT"
                               /\ other.request_id # r
    BY <1>2, <1>3, <1>5 DEF MemoryIsFresh
  <1>9. \A q \in Rids \ {r} : outbox'[q] = outbox[q]
    BY <1>7 DEF ProcessInv, EntityInv, TypeOK
  <1>10. outbox[r] \in Item
    BY <1>1, <1>2, <1>3 DEF ProcessInv, RunsFit, RunFits
  <1>11. outbox'[r].attempts = outbox[r].attempts
    BY <1>7, <1>10 DEF ProcessInv, EntityInv, TypeOK, Item
  <1>12. \A q \in Rids : outbox[q] # Null => outbox[q].attempts \in Nat
    BY DEF ProcessInv, EntityInv, TypeOK, Item
  <1>13. CountsUp
    BY <1>9, <1>11, <1>12 DEF CountsUp
  <1> QED
    BY <1>7, <1>8, <1>9, <1>13, ContinueIsFresh

\* Taking an item in hand: its call is made, or throws.
LEMMA TakeIsFresh ==
    ASSUME \A p, q \in Runs : p = q, ProcessInv, RunsAreFresh,
           NEW p \in Runs, NEW loaded \in runs[p].batch,
           Outbox!Retry(p, loaded) \/ Outbox!RetryThrows(p, loaded)
    PROVE  RunsAreFresh' /\ CountsUp
  <1>1. PICK run \in Outbox!Run : run = runs[p]
    BY DEF ProcessInv, RunsFit
  <1>2. /\ run.batch \in SUBSET Outbox!Local
        /\ MemoryIsFresh(run)
        /\ loaded \in run.batch
    BY <1>1 DEF Outbox!Run, RunsAreFresh
  <1>3. PICK r \in Rids : r = loaded.request_id
    BY <1>2 DEF Outbox!Local
  <1>4. PICK counted : counted = [loaded EXCEPT !.attempts = @ + 1]
    OBVIOUS
  <1>5. /\ counted \in Outbox!Local /\ counted.request_id = r
        /\ counted.attempts = loaded.attempts + 1
    BY <1>2, <1>3, <1>4 DEF Outbox!Local
  <1>6. PICK item \in Outbox!Local :
          /\ item.request_id = r
          /\ item.attempts = loaded.attempts + 1
          /\ \E pc \in {"await", "catch"} :
                runs' = [runs EXCEPT ![p] = [pc |-> pc, batch |-> run.batch \ {loaded},
                                             item |-> item]]
    <2>1. CASE Outbox!Retry(p, loaded)
      BY <2>1, <1>1, <1>4, <1>5 DEF Outbox!Retry
    <2>2. CASE Outbox!RetryThrows(p, loaded)
      <3>1. PICK failed \in Outbox!Local :
              /\ failed = Outbox!SetStatus(counted, "FAILED")
              /\ failed.request_id = r
        BY <1>5, SetStatusKind DEF Outbox!Status
      <3>2. failed.attempts = counted.attempts
        BY <3>1, <1>5 DEF Outbox!SetStatus, Outbox!Local
      <3> QED
        BY <2>2, <3>1, <3>2, <1>1, <1>4, <1>5 DEF Outbox!RetryThrows
    <2> QED
      BY <2>1, <2>2
  <1>7. PICK pc \in {"await", "catch"} :
          runs' = [runs EXCEPT ![p] = [pc |-> pc, batch |-> run.batch \ {loaded},
                                       item |-> item]]
    BY <1>6
  <1>8. PICK k : k = [pc |-> pc, batch |-> run.batch \ {loaded}, item |-> item]
    OBVIOUS
  <1>9. /\ k \in Outbox!Run /\ k.batch = run.batch \ {loaded} /\ k.item = item
    BY <1>2, <1>6, <1>8 DEF Outbox!Run
  <1>10. UNCHANGED outbox
    BY DEF Outbox!Retry, Outbox!RetryThrows
  <1>11. /\ loaded = Outbox!Loaded(r) /\ loaded.status # "SENT"
         /\ \A other \in k.batch : /\ other = Outbox!Loaded(other.request_id)
                                   /\ other.status # "SENT"
                                   /\ other.request_id # r
    BY <1>2, <1>3, <1>9 DEF MemoryIsFresh
  <1>12. /\ outbox[r].status # "SENT"
         /\ item.attempts = outbox[r].attempts + 1
    BY <1>6, <1>11 DEF Outbox!Loaded
  <1>13. \A q \in Rids : outbox[q] # Null => outbox[q].attempts \in Nat
    BY DEF ProcessInv, EntityInv, TypeOK, Item
  <1>14. outbox[r] \in Item
    BY <1>1, <1>2, <1>3 DEF ProcessInv, RunsFit, RunFits
  <1>15. outbox[r].attempts \in Nat
    BY <1>14 DEF Item
  <1>16. MemoryIsFresh(k)'
    BY <1>6, <1>9, <1>10, <1>11, <1>12, <1>15 DEF MemoryIsFresh, Outbox!Loaded
  <1>17. CountsUp
    BY <1>10, <1>13 DEF CountsUp
  <1>18. runs' = [runs EXCEPT ![p] = k]
    BY <1>7, <1>8
  <1> QED
    BY <1>9, <1>16, <1>17, <1>18, OnlyRunIsFresh

\* The answer of the call is read; nothing is stored yet.
LEMMA AnswerIsFresh ==
    ASSUME \A p, q \in Runs : p = q, ProcessInv, RunsAreFresh,
           NEW p \in Runs, Outbox!RetryOk(p) \/ Outbox!RetryFails(p)
    PROVE  RunsAreFresh' /\ CountsUp
  <1>1. PICK run \in Outbox!Run : run = runs[p]
    BY DEF ProcessInv, RunsFit
  <1>2. run.pc = "await" /\ UNCHANGED outbox
    BY <1>1 DEF Outbox!RetryOk, Outbox!RetryFails, Outbox!At
  <1>3. run.item \in Outbox!Local /\ MemoryIsFresh(run)
    BY <1>1, <1>2 DEF ProcessInv, RunsFit, RunFits, RunsAreFresh
  <1>4. PICK status \in Outbox!Status :
          runs' = [runs EXCEPT ![p].pc = "save",
                              ![p].item = Outbox!SetStatus(@, status)]
    BY DEF Outbox!RetryOk, Outbox!RetryFails, Outbox!Status
  <1>5. PICK item \in Outbox!Local :
          /\ item = Outbox!SetStatus(run.item, status)
          /\ item.request_id = run.item.request_id
    BY <1>3, SetStatusKind
  <1>6. item.attempts = run.item.attempts
    BY <1>3, <1>5 DEF Outbox!SetStatus, Outbox!Local
  <1>7. PICK k : k = [run EXCEPT !.pc = "save", !.item = item]
    OBVIOUS
  <1>8. k \in Outbox!Run /\ k.pc = "save" /\ k.batch = run.batch /\ k.item = item
    BY <1>5, <1>7 DEF Outbox!Run
  <1>9. runs' = [runs EXCEPT ![p] = k]
    BY <1>1, <1>4, <1>5, <1>7 DEF ProcessInv, RunsFit
  <1>10. MemoryIsFresh(k)'
    BY <1>2, <1>3, <1>5, <1>6, <1>8 DEF MemoryIsFresh, Outbox!Loaded
  <1>11. \A r \in Rids : outbox[r] # Null => outbox[r].attempts \in Nat
    BY DEF ProcessInv, EntityInv, TypeOK, Item
  <1>12. CountsUp
    BY <1>2, <1>11 DEF CountsUp
  <1> QED
    BY <1>8, <1>9, <1>10, <1>12, OnlyRunIsFresh

\* The item in hand is saved, or not, or saved without an answer.
LEMMA SaveIsFresh ==
    ASSUME \A p, q \in Runs : p = q, ProcessInv, RunsAreFresh, NEW p \in Runs,
           \/ Outbox!SaveItem(p) \/ Outbox!CatchFails(p)
           \/ Outbox!SaveItemFails(p) \/ Outbox!SaveItemUnconfirmed(p)
    PROVE  RunsAreFresh' /\ CountsUp
  <1>1. PICK run \in Outbox!Run : run = runs[p]
    BY DEF ProcessInv, RunsFit
  <1>2. run.pc \in {"save", "catch"}
    BY <1>1 DEF Outbox!SaveItem, Outbox!CatchFails, Outbox!SaveItemFails,
                Outbox!SaveItemUnconfirmed, Outbox!At
  <1>3. /\ run.item \in Outbox!Local
        /\ outbox[run.item.request_id] \in Item
        /\ run.batch \in SUBSET Outbox!Local
        /\ MemoryIsFresh(run)
    BY <1>1, <1>2 DEF ProcessInv, RunsFit, RunFits, RunsAreFresh, Outbox!Run
  <1>4. PICK item \in Outbox!Local : item = run.item
    BY <1>3
  <1>5. PICK r \in Rids : r = item.request_id
    BY DEF Outbox!Local
  <1>6. PICK new :
          new = [status   |-> IF item.dirty THEN item.status ELSE outbox[r].status,
                 attempts |-> item.attempts,
                 due      |-> FALSE]
    OBVIOUS
  <1>7. /\ new.attempts = item.attempts
        /\ item.attempts \in Nat
        /\ outbox[r].attempts \in Nat
        /\ item.attempts >= outbox[r].attempts
    BY <1>2, <1>3, <1>4, <1>5, <1>6 DEF MemoryIsFresh, Outbox!Local, Item
  <1>8. outbox' = outbox \/ outbox' = [outbox EXCEPT ![r] = new]
    BY <1>1, <1>4, <1>5, <1>6
       DEF Outbox!SaveItem, Outbox!CatchFails, Outbox!SaveItemFails,
           Outbox!SaveItemUnconfirmed
  <1>9. /\ \A q \in Rids \ {r} : outbox'[q] = outbox[q]
        /\ outbox'[r].attempts \in {outbox[r].attempts, item.attempts}
    BY <1>7, <1>8 DEF ProcessInv, EntityInv, TypeOK
  <1>10. \A q \in Rids : outbox[q] # Null => outbox[q].attempts \in Nat
    BY DEF ProcessInv, EntityInv, TypeOK, Item
  <1>11. CountsUp
    BY <1>7, <1>9, <1>10 DEF CountsUp
  <1>12. \A other \in run.batch : /\ other = Outbox!Loaded(other.request_id)
                                  /\ other.status # "SENT"
                                  /\ other.request_id # r
    BY <1>2, <1>3, <1>4, <1>5 DEF MemoryIsFresh
  <1>13. CASE Outbox!SaveItem(p) \/ Outbox!CatchFails(p)
    <2>1. runs' = [runs EXCEPT ![p] = Outbox!Continue(run.batch)]
      BY <1>1, <1>13 DEF Outbox!SaveItem, Outbox!CatchFails, ProcessInv, RunsFit
    <2> QED
      BY <2>1, <1>3, <1>9, <1>11, <1>12, ContinueIsFresh
  <1>14. CASE Outbox!SaveItemFails(p) \/ Outbox!SaveItemUnconfirmed(p)
    <2>1. PICK failed \in Outbox!Local :
            /\ failed = Outbox!SetStatus(item, "FAILED")
            /\ failed.request_id = r
      BY <1>5, SetStatusKind DEF Outbox!Status
    <2>2. failed.attempts = item.attempts
      BY <2>1 DEF Outbox!SetStatus, Outbox!Local
    <2>3. PICK k : k = [run EXCEPT !.pc = "catch", !.item = failed]
      OBVIOUS
    <2>4. k \in Outbox!Run /\ k.pc = "catch" /\ k.batch = run.batch /\ k.item = failed
      BY <2>1, <2>3 DEF Outbox!Run
    <2>5. runs' = [runs EXCEPT ![p] = k]
      BY <2>1, <2>3, <1>1, <1>4, <1>14
         DEF Outbox!SaveItemFails, Outbox!SaveItemUnconfirmed, ProcessInv, RunsFit
    <2>6. \A other \in run.batch : other.request_id \in Rids
      BY <1>3 DEF Outbox!Local
    <2>7. \A other \in run.batch : other = Outbox!Loaded(other.request_id)'
      BY <2>6, <1>9, <1>12 DEF Outbox!Loaded
    <2>8. outbox'[r].attempts <= item.attempts
      BY <1>7, <1>9
    <2>9. MemoryIsFresh(k)'
      BY <2>1, <2>2, <2>4, <2>7, <2>8, <1>7, <1>9, <1>12 DEF MemoryIsFresh
    <2> QED
      BY <2>4, <2>5, <2>9, <1>11, OnlyRunIsFresh
  <1> QED
    BY <1>13, <1>14

\* An item that a handler queues is new, and in no run's memory.
LEMMA FreshNext ==
    ASSUME \A p, q \in Runs : p = q, ProcessInv, RunsAreFresh,
           [ProcessNext]_processVars
    PROVE  RunsAreFresh' /\ CountsUp
  <1>1. ASSUME NEW p \in Runs, Outbox!RunStep(p)
        PROVE  RunsAreFresh' /\ CountsUp
    BY <1>1, FindIsFresh, GiveUpIsFresh, TakeIsFresh, AnswerIsFresh, SaveIsFresh
       DEF Outbox!RunStep, Outbox!Start, Outbox!Work
  <1>2. ASSUME NEW h \in Handlers, Handle(h)
        PROVE  RunsAreFresh' /\ CountsUp
    <2>1. HandlerStep(h) /\ UNCHANGED runs /\ EntityInv /\ HandOver
      BY <1>2 DEF Handle, ProcessInv
    <2>2. PICK l \in Handler : MovesTo(h, l)
      BY <2>1, HandlerHandsOver
    <2>3. handlers[h].pc = "enqueue" => outbox[handlers[h].request_id] \notin Item
      BY <2>1, NullIsNoRecord DEF HandOver, QueuedAfterCall, NotQueued
    <2>4. \A r \in Rids : outbox[r] \in Item => outbox'[r] = outbox[r]
      BY <2>1, <2>2, <2>3 DEF MovesTo, EntityInv, TypeOK
    <2> QED
      BY <2>1, <2>4, OthersKeepFresh
  <1>3. ASSUME Outbox!Tick
        PROVE  RunsAreFresh' /\ CountsUp
    <2>1. PICK r \in Rids : Outbox!BecomeDue(r)
      BY <1>3 DEF Outbox!Tick
    <2>2. \A q \in Rids : outbox[q] \in Item =>
             /\ outbox'[q].status = outbox[q].status
             /\ outbox'[q].attempts = outbox[q].attempts
      BY <2>1 DEF Outbox!BecomeDue, ProcessInv, EntityInv, TypeOK, Item
    <2> QED
      BY <2>1, <2>2, OthersKeepFresh DEF Outbox!BecomeDue
  <1>4. CASE UNCHANGED outbox /\ (\A p \in Runs : runs'[p] \in {runs[p], Outbox!NoRun})
    BY <1>4, OthersKeepFresh
  <1>5. CASE ProcessCrash
    BY <1>4, <1>5 DEF ProcessCrash, Crash
  <1> QED
    BY <1>1, <1>2, <1>3, <1>4, <1>5 DEF ProcessNext, processVars, vars, serviceVars

\* While processPending is not called again before it has returned, what it
\* delivers is not SENT: no call repeats a delivery that is on record, even if
\* saves fail and the process restarts.
THEOREM OneRunResendsNothing ==
    ASSUME \A p, q \in Runs : p = q
    PROVE  ProcessSpec => []SentIsNotResent
  <1>1. ProcessInit => RunsAreFresh
    BY DEF ProcessInit, RunsAreFresh, MemoryIsFresh, Outbox!NoRun
  <1>2. ProcessInv /\ RunsAreFresh /\ [ProcessNext]_processVars => RunsAreFresh'
    BY FreshNext
  <1>3. RunsAreFresh => SentIsNotResent
    BY DEF RunsAreFresh, MemoryIsFresh, SentIsNotResent, Outbox!SentIsNotResent
  <1> QED
    BY <1>1, <1>2, <1>3, ProcessInvInit, ProcessInvNext, PTL DEF ProcessSpec

\* And the count of attempts of an item never goes back.
THEOREM OneRunCountsUp ==
    ASSUME \A p, q \in Runs : p = q
    PROVE  ProcessSpec => AttemptsNeverDecrease
  <1>1. ProcessInit => RunsAreFresh
    BY DEF ProcessInit, RunsAreFresh, MemoryIsFresh, Outbox!NoRun
  <1>2. ProcessInv /\ RunsAreFresh /\ [ProcessNext]_processVars
          => RunsAreFresh' /\ CountsUp
    BY FreshNext
  <1> QED
    BY <1>1, <1>2, ProcessInvInit, ProcessInvNext, PTL
       DEF ProcessSpec, AttemptsNeverDecrease, Outbox!AttemptsNeverDecrease, CountsUp

-----------------------------------------------------------------------------
(* What EntityService promises, in the process. *)

\* The handlers' records of what happened are true while runs deliver the
\* same requests again.
THEOREM LastSyncIsTrueHere ==
    ProcessSpec => [](OkMeansApplied /\ FailureIsQueued /\ RemoteKnowsOnlyStored)
  <1>1. ProcessInv => OkMeansApplied /\ FailureIsQueued /\ RemoteKnowsOnlyStored
    BY DEF ProcessInv, EntityInv
  <1> QED
    BY <1>1, ProcessInvInit, ProcessInvNext, PTL DEF ProcessSpec

\* A step of the process is one of EntityService, or touches neither documents
\* nor handlers.
LEMMA RunsLeaveHandlersAlone ==
    ASSUME [ProcessNext]_processVars
    PROVE  [Next]_vars \/ UNCHANGED <<db, handlers>>
  BY DEF ProcessNext, Handle, ProcessCrash, Next, processVars, vars, serviceVars

LEMMA DeleteInvHere ==
    ASSUME ProcessInv, DeleteInv, [ProcessNext]_processVars
    PROVE  DeleteInv' /\ StaysDeleted
  <1>1. CASE [Next]_vars
    BY <1>1, DeleteInvNext DEF ProcessInv
  <1>2. CASE UNCHANGED <<db, handlers>>
    BY <1>2 DEF DeleteInv, CreatorIsAlone, OnlyDeletesAreDirty, IdleHasNone, StaysDeleted
  <1> QED
    BY <1>1, <1>2, RunsLeaveHandlersAlone

\* A soft-deleted document stays deleted in the process.
THEOREM DeleteIsForEverHere == ProcessSpec => DeletedIsFinal
  <1>1. ProcessInit => DeleteInv
    BY DeleteInvInit DEF ProcessInit
  <1>2. ProcessInv /\ DeleteInv /\ [ProcessNext]_processVars
          => DeleteInv' /\ [StaysDeleted]_vars
    BY DeleteInvHere
  <1> QED
    BY <1>1, <1>2, ProcessInvInit, ProcessInvNext, PTL
       DEF ProcessSpec, DeletedIsFinal, StaysDeleted

\* Neither a synchronisation nor a run turns a saved change into an error.
THEOREM SynchronisationIsSilentHere == ProcessSpec => SyncNeverFailsCrud
  <1>1. ProcessInit => NoAnswerYet
    <2>1. Ended("none").pc = "idle"
      BY DEF Ended
    <2> QED
      BY <2>1 DEF ProcessInit, Init, NoAnswerYet
  <1>2. ProcessInv /\ NoAnswerYet /\ [ProcessNext]_processVars
          => NoAnswerYet' /\ [AnswersOk]_vars
    <2> SUFFICES ASSUME ProcessInv, NoAnswerYet, [ProcessNext]_processVars
                 PROVE  NoAnswerYet' /\ [AnswersOk]_vars
      OBVIOUS
    <2>1. CASE [Next]_vars
      BY <2>1, AnswersNext DEF ProcessInv, EntityInv
    <2>2. CASE UNCHANGED <<db, handlers>>
      BY <2>2 DEF NoAnswerYet, AnswersOk
    <2> QED
      BY <2>1, <2>2, RunsLeaveHandlersAlone
  <1> QED
    BY <1>1, <1>2, ProcessInvInit, ProcessInvNext, PTL
       DEF ProcessSpec, SyncNeverFailsCrud, AnswersOk

\* The filter on __v is enough in the process.
THEOREM VersionsIdentifyArraysHere ==
    ASSUME Versioned
    PROVE  ProcessSpec => []VersionIdentifiesArray
  <1>1. ProcessInit => DeleteInv /\ VersionInv
    <2>1. Ended("none").pc = "idle"
      BY DEF Ended
    <2> QED
      BY <2>1, DeleteInvInit DEF ProcessInit, Init, VersionInv
  <1>2. ProcessInv /\ DeleteInv /\ VersionInv /\ [ProcessNext]_processVars
          => DeleteInv' /\ VersionInv'
    <2> SUFFICES ASSUME ProcessInv, DeleteInv, VersionInv, [ProcessNext]_processVars
                 PROVE  DeleteInv' /\ VersionInv'
      OBVIOUS
    <2>1. CASE [Next]_vars
      BY <2>1, DeleteInvNext, VersionInvNext DEF ProcessInv
    <2>2. CASE UNCHANGED <<db, handlers>>
      <3>1. VersionInv'
        BY <2>2 DEF VersionInv, LoadedBefore
      <3> QED
        BY <3>1, DeleteInvHere
    <2> QED
      BY <2>1, <2>2, RunsLeaveHandlersAlone
  <1>3. VersionInv => VersionIdentifiesArray
    BY DEF VersionInv, LoadedBefore, VersionIdentifiesArray
  <1> QED
    BY <1>1, <1>2, <1>3, ProcessInvInit, ProcessInvNext, PTL DEF ProcessSpec

\* In the process, too, a soft-deleted document is disabled as long as no two
\* handlers work on one document: runs never touch it.
THEOREM DeletedIsDisabledUnlessOverlapHere ==
    ProcessSpec => ([]OneAtATime => []DeletedIsDisabled)
  <1>1. ProcessInit => DisabledInv
    BY DisabledInvInit DEF ProcessInit
  <1>2. ProcessInv /\ DisabledInv /\ OneAtATime /\ [ProcessNext]_processVars
          => DisabledInv'
    <2> SUFFICES ASSUME ProcessInv, DisabledInv, OneAtATime, [ProcessNext]_processVars
                 PROVE  DisabledInv'
      OBVIOUS
    <2>1. CASE [Next]_vars
      BY <2>1, DisabledInvNext DEF ProcessInv
    <2>2. CASE UNCHANGED <<db, handlers>>
      BY <2>2 DEF DisabledInv, DeletedIsDisabled, LoadedInStep
    <2> QED
      BY <2>1, <2>2, RunsLeaveHandlersAlone
  <1>3. DisabledInv => DeletedIsDisabled
    BY DEF DisabledInv
  <1> QED
    BY <1>1, <1>2, <1>3, ProcessInvInit, ProcessInvNext, PTL DEF ProcessSpec

-----------------------------------------------------------------------------
(* What OutboxService promises, in the process: OutboxServiceProofs over   *)
(* the same state, with handlers as the ones who queue.                    *)

OP == INSTANCE OutboxServiceProofs

\* What OutboxServiceProofs assumes of the constants holds here.
LEMMA OutboxAssumptions ==
    /\ Runs \subseteq Callers
    /\ Limit \in Nat \ {0}
    /\ MaxAttempts \in Nat \ {0}
    /\ Faults \subseteq {"crash", "mongo", "config"}
    /\ Null \notin OP!Item
    /\ OP!IsFiniteSet(Callers)
    /\ MaxLate \in Nat
    /\ Idempotent \in BOOLEAN
  <1>1. OP!Item = Item
    BY DEF OP!Item, Item, OP!Status, Status
  <1>2. OP!IsFiniteSet(Callers)
    BY Stage1Assumption DEF OP!IsFiniteSet, IsFiniteSet
  <1> QED
    BY <1>1, <1>2, BackofficeAssumption, EntityServiceAssumption, Stage1Assumption,
       NullIsNoRecord

\* Runs do there what they do here.
LEMMA SameSteps ==
    /\ \A p \in Runs : Outbox!RunStep(p) => OP!RunStep(p)
    /\ Outbox!Tick => OP!Tick
  <1>1. \A p \in Runs, s \in SUBSET Rids : Outbox!Find(p, s) => OP!Find(p, s)
    BY DEF OP!Find, Outbox!Find, OP!At, Outbox!At, OP!Batches, Outbox!Batches,
           OP!Due, Outbox!Due, OP!Continue, Outbox!Continue, OP!Loaded, Outbox!Loaded,
           OP!NoRun, Outbox!NoRun, OP!stage1Vars, Outbox!stage1Vars,
           OP!Cardinality, Outbox!Cardinality
  <1>2. ASSUME NEW p \in Runs PROVE Outbox!Work(p) => OP!Work(p)
    BY DEF OP!Work, Outbox!Work, OP!At, Outbox!At, OP!Continue, Outbox!Continue,
           OP!NoRun, Outbox!NoRun, OP!stage1Vars, Outbox!stage1Vars,
           OP!GiveUp, OP!Retry, OP!RetryThrows, OP!RetryOk, OP!RetryFails,
           OP!SaveItem, OP!SaveItemFails, OP!SaveItemUnconfirmed, OP!CatchFails,
           Outbox!GiveUp, Outbox!Retry, Outbox!RetryThrows, Outbox!RetryOk,
           Outbox!RetryFails, Outbox!SaveItem, Outbox!SaveItemFails,
           Outbox!SaveItemUnconfirmed, Outbox!CatchFails,
           OP!SetStatus, Outbox!SetStatus, OP!Exhausted, Outbox!Exhausted,
           OP!Post, Outbox!Post, OP!ReadOk, Outbox!ReadOk,
           OP!ReadFailure, Outbox!ReadFailure, OP!NoCall, Outbox!NoCall
  <1>3. Outbox!Tick => OP!Tick
    BY DEF Outbox!Tick, OP!Tick, Outbox!BecomeDue, OP!BecomeDue,
           Outbox!stage1Vars, OP!stage1Vars
  <1> QED
    BY <1>1, <1>2, <1>3 DEF Outbox!RunStep, OP!RunStep, Outbox!Start, OP!Start

\* The records of the two modules are the same.
LEMMA SameRecords ==
    /\ OP!Item = Item
    /\ OP!Request = Request
    /\ OP!NewItem(TRUE) = NewItem(TRUE)
    /\ OP!NoRun = Outbox!NoRun
  BY DEF OP!Item, Item, OP!Status, Status, OP!Request, Request, OP!Body, Body,
         OP!NewItem, NewItem, OP!NoRun, Outbox!NoRun

\* What a step that is not a run's keeps of the outbox's invariant.
LEMMA OthersKeepOutbox ==
    ASSUME OP!StatusInv, ProcessInv', applied \subseteq applied',
           \/ /\ UNCHANGED runs
              /\ \A p \in Runs : calls'[p].request_id = calls[p].request_id
           \/ runs' = [p \in Runs |-> Outbox!NoRun],
           \A r \in Rids : \/ outbox'[r] = outbox[r]
                           \/ outbox[r] \notin Item /\ outbox'[r] = NewItem(TRUE)
    PROVE  OP!StatusInv' /\ OP!SentStays
  <1>1. OP!Stage1Inv'
    BY DEF ProcessInv, EntityInv, OP!Stage1Inv, Stage1Inv, OP!Stage1TypeOK, Stage1TypeOK,
           OP!CallsAreRequests, CallsAreRequests, OP!LateAreRequests, LateAreRequests,
           OP!AckedIsApplied, AckedIsApplied, OP!Request, Request, OP!Body, Body,
           OP!Call, Call
  <1>2. OP!RequestsKept'
    BY SameRecords DEF OP!RequestsKept, ProcessInv, HandOver, ItemsAreRequests
  <1>3. outbox' \in [Rids -> OP!Item \cup {Null}]
    BY SameRecords DEF ProcessInv, EntityInv, TypeOK
  <1>4. OP!OnlyQueues
    BY SameRecords DEF OP!OnlyQueues
  <1>5. runs' = runs \/ runs' = [p \in Runs |-> OP!NoRun]
    BY SameRecords
  <1>6. OP!OutboxInv
    BY DEF OP!StatusInv
  <1>7. OP!OutboxInv'
    BY <1>1, <1>2, <1>3, <1>4, <1>6, SameRecords, OP!EnvironmentKeeps, OutboxAssumptions
  <1>8. OP!FailedIsNeverWritten' /\ OP!SentStays
    BY <1>4, <1>5, OP!EnvironmentStatus, OutboxAssumptions
  <1> QED
    BY <1>7, <1>8 DEF OP!StatusInv

\* The invariant of the process together with that of the outbox.
OutboxKept == OP!StatusInv

LEMMA OutboxKeptInit ==
    ProcessInit => OutboxKept
  <1> SUFFICES ASSUME ProcessInit PROVE OutboxKept
    OBVIOUS
  <1>1. ProcessInv
    BY ProcessInvInit
  <1>2. /\ calls = [c \in Callers |-> NoCall]
        /\ runs = [p \in Runs |-> Outbox!NoRun]
        /\ outbox = [r \in Rids |-> Null]
    BY DEF ProcessInit, Init, Stage1Init
  <1>3. OP!Stage1Inv
    BY <1>1 DEF ProcessInv, EntityInv, OP!Stage1Inv, Stage1Inv, OP!Stage1TypeOK,
                Stage1TypeOK, OP!CallsAreRequests, CallsAreRequests, OP!LateAreRequests,
                LateAreRequests, OP!AckedIsApplied, AckedIsApplied, OP!Request, Request,
                OP!Body, Body, OP!Call, Call
  <1>4. OP!TypeOK
    BY <1>2, <1>3 DEF OP!Stage1Inv, OP!TypeOK, Outbox!NoRun, OP!Run
  <1>5. OP!RequestsKept /\ OP!ItemInHand /\ OP!CallIsForItem /\ OP!MemoryIsStored
        /\ OP!SentInHandWasApplied
    BY <1>2, OutboxAssumptions
       DEF OP!RequestsKept, OP!ItemInHand, OP!CallIsForItem, OP!MemoryIsStored,
           OP!SentInHandWasApplied, Outbox!NoRun
  <1>6. OP!SentWasApplied /\ OP!AttemptsWithinMax /\ OP!FailedIsNeverWritten
    BY <1>2 DEF OP!SentWasApplied, OP!AttemptsWithinMax, OP!FailedIsNeverWritten,
                Outbox!NoRun
  <1> QED
    BY <1>3, <1>4, <1>5, <1>6 DEF OutboxKept, OP!StatusInv, OP!OutboxInv

\* In no step of the process is an item taken away, or SENT taken back while
\* the database works.
LEMMA OutboxKeptNext ==
    ASSUME ProcessInv, OutboxKept, [ProcessNext]_processVars
    PROVE  OutboxKept' /\ OP!SentIsKept
  <1>1. ProcessInv'
    BY ProcessInvNext
  <1>2. OP!StatusInv
    BY DEF OutboxKept
  <1>3. ASSUME NEW p \in Runs, Outbox!RunStep(p)
        PROVE  OP!StatusInv' /\ OP!SentIsKept
    BY <1>2, <1>3, SameSteps, OP!RunsKeepStatus, OutboxAssumptions
  <1>4. ASSUME Outbox!Tick
        PROVE  OP!StatusInv' /\ OP!SentIsKept
    BY <1>2, <1>4, SameSteps, OP!RunsKeepStatus, OutboxAssumptions
  <1>5. ASSUME NEW h \in Handlers, Handle(h)
        PROVE  OP!StatusInv' /\ OP!SentStays
    <2>1. HandlerStep(h) /\ UNCHANGED runs /\ EntityInv /\ HandOver
      BY <1>5 DEF Handle, ProcessInv
    <2>2. PICK l \in Handler : MovesTo(h, l)
      BY <2>1, HandlerHandsOver
    <2>3. \A p \in Runs : calls'[p] = calls[p]
      BY <2>2, BackofficeAssumption DEF MovesTo
    <2>4. \A r \in Rids : \/ outbox'[r] = outbox[r]
                          \/ outbox[r] \notin Item /\ outbox'[r] = NewItem(TRUE)
      <3>1. handlers[h].pc = "enqueue" => outbox[handlers[h].request_id] \notin Item
        BY <2>1, NullIsNoRecord DEF HandOver, QueuedAfterCall, NotQueued
      <3> QED
        BY <2>1, <2>2, <3>1 DEF MovesTo, EntityInv, TypeOK
    <2>5. applied' = applied
      BY <2>1 DEF HandlerStep, UseExisting, Synchronise, Create, Update, Delete, FindOne,
                  Save, SaveFails, SaveUnconfirmed, Sync, SyncThrows, LambdaOk, LambdaFails,
                  Enqueue, EnqueueFails, EnqueueUnconfirmed, SaveLastSync,
                  SaveLastSyncFails, stage1Vars
    <2> QED
      BY <1>1, <1>2, <2>1, <2>3, <2>4, <2>5, OthersKeepOutbox
  <1>6. ASSUME Stage1Step, UNCHANGED <<db, handlers, outbox, runs, missed>>
        PROVE  OP!StatusInv' /\ OP!SentStays
    <2>1. applied \subseteq applied'
      BY <1>6, Stage1StepKeeps DEF ProcessInv, EntityInv
    <2>2. \A p \in Runs : calls'[p].request_id = calls[p].request_id
      BY <1>6, BackofficeAssumption
         DEF Stage1Step, Apply, ApplyLate, LoseLate,
             ProcessInv, EntityInv, Stage1Inv, Stage1TypeOK, Call
    <2> QED
      BY <1>1, <1>2, <1>6, <2>1, <2>2, OthersKeepOutbox
  <1>7. ASSUME ProcessCrash
        PROVE  OP!StatusInv' /\ OP!SentStays
    BY <1>1, <1>2, <1>7, OthersKeepOutbox DEF ProcessCrash, Crash
  <1>8. ASSUME UNCHANGED processVars
        PROVE  OP!StatusInv' /\ OP!SentStays
    BY <1>1, <1>2, <1>8, OthersKeepOutbox
       DEF processVars, vars, serviceVars, stage1Vars
  <1> QED
    BY <1>1, <1>3, <1>4, <1>5, <1>6, <1>7, <1>8, OP!StaysIsKept, OutboxAssumptions
       DEF ProcessNext, OutboxKept

\* An item marked SENT was applied by Stage 1: the promise of OutboxService,
\* in the process where handlers queue items while runs are at work.
THEOREM SentIsDeliveredHere == ProcessSpec => []Outbox!SentWasApplied
  <1>1. OutboxKept => Outbox!SentWasApplied
    BY DEF OutboxKept, OP!StatusInv, OP!OutboxInv, OP!SentWasApplied, Outbox!SentWasApplied
  <1>2. ProcessInv /\ OutboxKept /\ [ProcessNext]_processVars => OutboxKept'
    BY OutboxKeptNext
  <1> QED
    BY <1>1, <1>2, OutboxKeptInit, ProcessInvInit, ProcessInvNext, PTL DEF ProcessSpec

\* No count of attempts exceeds maxAttempts in the process.
THEOREM AttemptsAreBoundedHere == ProcessSpec => []Outbox!AttemptsWithinMax
  <1>1. OutboxKept => Outbox!AttemptsWithinMax
    BY DEF OutboxKept, OP!StatusInv, OP!OutboxInv, OP!AttemptsWithinMax,
           Outbox!AttemptsWithinMax
  <1>2. ProcessInv /\ OutboxKept /\ [ProcessNext]_processVars => OutboxKept'
    BY OutboxKeptNext
  <1> QED
    BY <1>1, <1>2, OutboxKeptInit, ProcessInvInit, ProcessInvNext, PTL DEF ProcessSpec

\* No step of the process, of a handler or of a run, takes SENT back, except
\* the run that delivered the item as well and whose own save was rejected.
THEOREM SentStaysSentHere == ProcessSpec => Outbox!SentIsFinal
  <1>1. ProcessInv /\ OutboxKept /\ [ProcessNext]_processVars
          => OutboxKept' /\ [OP!SentGoesOnlySo]_(Outbox!vars)
    BY OutboxKeptNext DEF OP!SentIsKept
  <1>2. OP!SentGoesOnlySo <=>
            (\A r \in Rids : outbox[r] # Null /\ outbox[r].status = "SENT" =>
                /\ outbox'[r] # Null
                /\ \/ outbox'[r].status = "SENT"
                   \/ \E p \in Runs : Outbox!SaveOfSentFailed(p, r) /\ runs'[p] # runs[p])
    BY DEF OP!SentGoesOnlySo, OP!SaveOfSentFailed, Outbox!SaveOfSentFailed, OP!At, Outbox!At
  <1> QED
    BY <1>1, <1>2, OutboxKeptInit, ProcessInvInit, ProcessInvNext, PTL
       DEF ProcessSpec, Outbox!SentIsFinal

-----------------------------------------------------------------------------
(* The process implements Delivery. *)

Stages == [r \in Rids |-> StageOf(r)]

\* A handler with these locals l has request r in hand.
Holds(l, r) == l.pc \in {"await", "enqueue"} /\ l.request_id = r

\* One request moves on, and nothing else happens.
LEMMA OneMovesOn ==
    ASSUME NEW r \in Rids, NEW to, StageOf(r)' = to,
           \A q \in Rids \ {r} : StageOf(q)' = StageOf(q)
    PROVE  Stages' = [Stages EXCEPT ![r] = to]
  BY DEF Stages

LEMMA NoneMovesOn ==
    ASSUME \A q \in Rids : StageOf(q)' = StageOf(q)
    PROVE  Stages' = Stages
  BY DEF Stages

\* The steps of Delivery, of Stages.
LEMMA ContractSteps ==
    /\ \A r \in Rids :
          /\ Contract!Build(r) <=> /\ StageOf(r) = "none"
                                   /\ Stages' = [Stages EXCEPT ![r] = "open"]
                                   /\ UNCHANGED applied
          /\ Contract!Confirm(r) <=> /\ r \in applied
                                     /\ StageOf(r) = "open"
                                     /\ Stages' = [Stages EXCEPT ![r] = "over"]
                                     /\ UNCHANGED applied
          /\ Contract!Queue(r) <=> /\ StageOf(r) = "open"
                                   /\ Stages' = [Stages EXCEPT ![r] = "queued"]
                                   /\ UNCHANGED applied
          /\ Contract!Settle(r) <=> /\ r \in applied
                                    /\ StageOf(r) = "queued"
                                    /\ Stages' = [Stages EXCEPT ![r] = "sent"]
                                    /\ UNCHANGED applied
          /\ Contract!Reopen(r) <=> /\ "mongo" \in Faults
                                    /\ StageOf(r) = "sent"
                                    /\ Stages' = [Stages EXCEPT ![r] = "queued"]
                                    /\ UNCHANGED applied
          /\ Contract!Drop(r) <=> /\ "mongo" \in Faults
                                  /\ StageOf(r) = "open"
                                  /\ Stages' = [Stages EXCEPT ![r] = "over"]
                                  /\ UNCHANGED applied
          /\ Contract!Apply(r) <=> /\ StageOf(r) # "none"
                                   /\ applied' = applied \cup {r}
                                   /\ Stages' = Stages
    /\ Contract!Die <=>
          /\ "crash" \in Faults
          /\ Stages' = [r \in Rids |-> IF StageOf(r) = "open" THEN "over" ELSE StageOf(r)]
          /\ UNCHANGED applied
    /\ Contract!deliveryVars = <<Stages, applied>>
  BY DEF Contract!Build, Contract!Confirm, Contract!Queue, Contract!Settle,
         Contract!Reopen, Contract!Drop, Contract!Apply, Contract!Die,
         Contract!MovesOn, Contract!deliveryVars, Stages

\* A step of Delivery, or none.
Accounted == [Contract!Next]_(Contract!deliveryVars)

LEMMA StepsAreAccounted ==
    /\ \A r \in Rids :
          (\/ Contract!Build(r) \/ Contract!Confirm(r) \/ Contract!Queue(r)
           \/ Contract!Settle(r) \/ Contract!Reopen(r) \/ Contract!Drop(r)
           \/ Contract!Apply(r)) => Accounted
    /\ Contract!Die => Accounted
    /\ Stages' = Stages /\ applied' = applied => Accounted
  <1>1. Contract!Next => Accounted
    BY DEF Accounted
  <1>2. Stages' = Stages /\ applied' = applied => Accounted
    <2>1. Contract!deliveryVars = <<Stages, applied>>
      BY ContractSteps
    <2>2. Contract!deliveryVars' = <<Stages', applied'>>
      BY DEF Contract!deliveryVars, Stages
    <2> QED
      BY <2>1, <2>2 DEF Accounted
  <1>3. Contract!Die => Contract!Next
    BY DEF Contract!Next
  <1>4. ASSUME NEW r \in Rids,
               \/ Contract!Build(r) \/ Contract!Confirm(r) \/ Contract!Queue(r)
               \/ Contract!Settle(r) \/ Contract!Reopen(r) \/ Contract!Drop(r)
               \/ Contract!Apply(r)
        PROVE  Contract!Next
    BY <1>4 DEF Contract!Next
  <1> QED
    BY <1>1, <1>2, <1>3, <1>4

\* The request that a handler holds is open, and no other handler's.
LEMMA HeldIsOpen ==
    ASSUME ProcessInv, NEW h \in Handlers, NEW r, Holds(handlers[h], r)
    PROVE  /\ r \in Rids
           /\ requests[r] \in Request
           /\ outbox[r] = Null
           /\ StageOf(r) = "open"
           /\ \A g \in Handlers \ {h} : ~Holds(handlers[g], r)
  <1>1. r \in Rids /\ requests[r] \in Request
    BY DEF Holds, ProcessInv, EntityInv, HandlersFit, Fits
  <1>2. outbox[r] = Null
    BY DEF Holds, ProcessInv, HandOver, QueuedAfterCall, NotQueued
  <1>3. StageOf(r) = "open"
    BY <1>1, <1>2, NullIsNoRecord DEF StageOf, InHand, Holds
  <1>4. \A g \in Handlers \ {h} : ~Holds(handlers[g], r)
    BY DEF Holds, ProcessInv, HandOver, RequestsAreOwn, HasRequest
  <1> QED
    BY <1>1, <1>2, <1>3, <1>4

\* A step of a handler moves none but the request it has in hand, before or
\* after the step.
LEMMA OthersStay ==
    ASSUME NEW h \in Handlers, handlers \in [Handlers -> Handler],
           NEW l, handlers' = [handlers EXCEPT ![h] = l],
           NEW r \in Rids, requests'[r] = requests[r], outbox'[r] = outbox[r],
           Holds(l, r) <=> Holds(handlers[h], r)
    PROVE  StageOf(r)' = StageOf(r)
  <1>1. handlers'[h] = l /\ \A g \in Handlers \ {h} : handlers'[g] = handlers[g]
    OBVIOUS
  <1>2. InHand(r) <=> \E g \in Handlers : Holds(handlers[g], r)
    BY DEF InHand, Holds
  <1>3. InHand(r)' <=> \E g \in Handlers : Holds(handlers'[g], r)
    BY DEF InHand, Holds
  <1>4. InHand(r)' <=> InHand(r)
    BY <1>1, <1>2, <1>3
  <1> QED
    BY <1>4 DEF StageOf

\* A step that changes no request and no item, of a handler that has neither
\* before nor after it a request in hand.
LEMMA QuietHandler ==
    ASSUME ProcessInv, NEW h \in Handlers, NEW l,
           handlers' = [handlers EXCEPT ![h] = l],
           handlers[h].pc \notin {"await", "enqueue"}, l.pc \notin {"await", "enqueue"},
           UNCHANGED <<stage1Vars, outbox>>
    PROVE  Accounted
  <1>1. \A r \in Rids : StageOf(r)' = StageOf(r)
    BY OthersStay DEF Holds, ProcessInv, EntityInv, TypeOK, stage1Vars
  <1> QED
    BY <1>1, NoneMovesOn, StepsAreAccounted DEF stage1Vars

\* Reading, changing and saving documents is no business of Delivery.
LEMMA DocumentStep ==
    ASSUME ProcessInv, NEW h \in Handlers,
           \/ \E i \in Ids, name \in Names, enabled \in BOOLEAN : Create(h, i, name, enabled)
           \/ UseExisting(h)
           \/ Save(h) \/ SaveFails(h) \/ SaveUnconfirmed(h)
           \/ SaveLastSync(h) \/ SaveLastSyncFails(h)
    PROVE  Accounted
  <1>1. /\ handlers[h].pc \in {"idle", "save", "last_sync"}
        /\ UNCHANGED <<stage1Vars, outbox>>
    BY DEF Create, UseExisting, FindOne, Update, Delete, Idle, Save, SaveFails,
           SaveUnconfirmed, SaveLastSync, SaveLastSyncFails, At
  <1>2. \A answer : Ended(answer).pc = "idle"
    BY DEF Ended
  <1>3. \A i, doc, dirty : Loaded(h, i, doc, dirty).pc = "save"
    BY DEF Loaded, Ended
  <1>4. CASE \E i \in Ids, name \in Names, enabled \in BOOLEAN : Create(h, i, name, enabled)
    <2>1. \E i, doc, dirty : handlers' = [handlers EXCEPT ![h] = Loaded(h, i, doc, dirty)]
      BY <1>4 DEF Create
    <2> QED
      BY <1>1, <1>3, <2>1, QuietHandler
  <1>5. CASE UseExisting(h)
    <2>1. \/ \E i, doc, dirty : handlers' = [handlers EXCEPT ![h] = Loaded(h, i, doc, dirty)]
          \/ \E answer : handlers' = [handlers EXCEPT ![h] = Ended(answer)]
      BY <1>5 DEF UseExisting, FindOne, Update, Delete
    <2> QED
      BY <1>1, <1>2, <1>3, <2>1, QuietHandler
  <1>6. CASE Save(h)
    <2>1. PICK old \in Handler : old = handlers[h]
      BY DEF ProcessInv, EntityInv, TypeOK
    <2>2. PICK memory : handlers' = [handlers EXCEPT ![h] =
                          [old EXCEPT !.pc = "sync", !.dirty = {}, !.doc = memory]]
      BY <1>6, <2>1 DEF Save
    <2>3. PICK l : l = [old EXCEPT !.pc = "sync", !.dirty = {}, !.doc = memory]
      OBVIOUS
    <2>4. l.pc = "sync"
      BY <2>3 DEF Handler
    <2> QED
      BY <1>1, <2>2, <2>3, <2>4, QuietHandler
  <1>7. CASE SaveFails(h) \/ SaveUnconfirmed(h) \/ SaveLastSync(h) \/ SaveLastSyncFails(h)
    <2>1. \E answer : handlers' = [handlers EXCEPT ![h] = Ended(answer)]
      BY <1>7 DEF SaveFails, SaveUnconfirmed, SaveLastSync, SaveLastSyncFails
    <2> QED
      BY <1>1, <1>2, <2>1, QuietHandler
  <1> QED
    BY <1>4, <1>5, <1>6, <1>7

\* Building the payload opens the request.
LEMMA SyncStep ==
    ASSUME ProcessInv, NEW h \in Handlers, NEW r \in Rids, Sync(h, r) \/ SyncThrows(h, r)
    PROVE  Accounted
  <1>1. PICK old \in Handler : old = handlers[h]
    BY DEF ProcessInv, EntityInv, TypeOK
  <1>2. PICK pc \in {"await", "enqueue"} :
          handlers' = [handlers EXCEPT ![h] =
                         [old EXCEPT !.pc = pc, !.request_id = r, !.doc = Null]]
    <2>1. CASE Sync(h, r)
      BY <2>1, <1>1 DEF Sync, ProcessInv, EntityInv, TypeOK
    <2>2. CASE SyncThrows(h, r)
      BY <2>2, <1>1 DEF SyncThrows, ProcessInv, EntityInv, TypeOK
    <2> QED
      BY <2>1, <2>2
  <1>3. PICK l : l = [old EXCEPT !.pc = pc, !.request_id = r, !.doc = Null]
    OBVIOUS
  <1>4. l.pc = pc /\ l.request_id = r /\ handlers' = [handlers EXCEPT ![h] = l]
    BY <1>2, <1>3 DEF Handler
  <1>5. old.pc = "sync" /\ BuildPayload(h, r) /\ UNCHANGED <<applied, outbox>>
    BY <1>1 DEF Sync, SyncThrows, At
  <1>6. /\ requests[r] = Null
        /\ requests'[r] \in Request
        /\ \A q \in Rids \ {r} : requests'[q] = requests[q]
    BY <1>1, <1>5, BuildPayloadAdds DEF ProcessInv
  <1>7. \A q \in Rids \ {r} : StageOf(q)' = StageOf(q)
    BY <1>1, <1>4, <1>5, <1>6, OthersStay DEF Holds, ProcessInv, EntityInv, TypeOK
  <1>8. outbox'[r] = Null
    BY <1>5, <1>6, NullIsNoRecord
       DEF ProcessInv, HandOver, ItemsAreRequests, EntityInv, TypeOK
  <1>9. InHand(r)'
    BY <1>4 DEF InHand, ProcessInv, EntityInv, TypeOK
  <1>10. StageOf(r) = "none" /\ StageOf(r)' = "open"
    BY <1>6, <1>8, <1>9, NullIsNoRecord DEF StageOf
  <1>11. Contract!Build(r)
    BY <1>5, <1>7, <1>10, OneMovesOn, ContractSteps
  <1> QED
    BY <1>11, StepsAreAccounted

\* The handler lets the request in hand go: it has been confirmed, or queued,
\* or lost with the database.
LEMMA LetGo ==
    ASSUME ProcessInv, NEW h \in Handlers, NEW r, Holds(handlers[h], r),
           NEW l, handlers' = [handlers EXCEPT ![h] = l],
           l.pc \notin {"await", "enqueue"},
           UNCHANGED <<requests, applied>>,
           \/ UNCHANGED outbox /\ (r \in applied \/ "mongo" \in Faults)
           \/ outbox' = [outbox EXCEPT ![r] = NewItem(TRUE)]
    PROVE  Accounted
  <1>1. /\ r \in Rids
        /\ requests[r] \in Request
        /\ outbox[r] = Null
        /\ StageOf(r) = "open"
        /\ \A g \in Handlers \ {h} : ~Holds(handlers[g], r)
    BY HeldIsOpen
  <1>2. handlers \in [Handlers -> Handler] /\ outbox \in [Rids -> Item \cup {Null}]
    BY DEF ProcessInv, EntityInv, TypeOK
  <1>3. ASSUME NEW q \in Rids \ {r} PROVE StageOf(q)' = StageOf(q)
    <2>1. outbox'[q] = outbox[q]
      BY <1>2
    <2>2. ~Holds(l, q) /\ ~Holds(handlers[h], q)
      BY DEF Holds
    <2> QED
      BY <1>2, <2>1, <2>2, OthersStay
  <1>4. handlers'[h] = l /\ \A g \in Handlers \ {h} : handlers'[g] = handlers[g]
    BY <1>2
  <1>5. ~InHand(r)'
    BY <1>1, <1>4 DEF InHand, Holds
  <1>6. CASE UNCHANGED outbox /\ (r \in applied \/ "mongo" \in Faults)
    <2>1. StageOf(r)' = "over"
      BY <1>1, <1>5, <1>6, NullIsNoRecord DEF StageOf
    <2>2. Contract!Confirm(r) \/ Contract!Drop(r)
      BY <1>1, <1>3, <1>6, <2>1, OneMovesOn, ContractSteps
    <2> QED
      BY <1>1, <2>2, StepsAreAccounted
  <1>7. CASE outbox' = [outbox EXCEPT ![r] = NewItem(TRUE)]
    <2>1. outbox'[r] = NewItem(TRUE) /\ outbox'[r] \in Item /\ outbox'[r].status = "FAILED"
      BY <1>1, <1>2, <1>7 DEF NewItem, Item, Status
    <2>2. StageOf(r)' = "queued"
      BY <1>1, <2>1, NullIsNoRecord DEF StageOf
    <2>3. Contract!Queue(r)
      BY <1>1, <1>3, <2>2, OneMovesOn, ContractSteps
    <2> QED
      BY <1>1, <2>3, StepsAreAccounted
  <1> QED
    BY <1>6, <1>7

LEMMA HandlerIsAccounted ==
    ASSUME ProcessInv, NEW h \in Handlers, HandlerStep(h)
    PROVE  Accounted
  <1>1. PICK old \in Handler : old = handlers[h]
    BY DEF ProcessInv, EntityInv, TypeOK
  <1>2. PICK r : r = old.request_id
    OBVIOUS
  <1>3. h \in Callers /\ EntityInv
    BY EntityServiceAssumption DEF ProcessInv
  <1>4. Ended("ok").pc = "idle"
    BY DEF Ended
  <1>5. CASE LambdaOk(h)
    <2>1. PICK l : l = [old EXCEPT !.pc = "last_sync", !.ok = TRUE]
      OBVIOUS
    <2>2. handlers' = [handlers EXCEPT ![h] = l] /\ l.pc = "last_sync"
      BY <1>1, <1>5, <2>1 DEF LambdaOk, ProcessInv, EntityInv, TypeOK, Handler
    <2>3. Holds(handlers[h], r)
      BY <1>1, <1>2, <1>5 DEF Holds, LambdaOk, At
    <2>4. r \in applied
      <3>1. calls[h].request_id \in applied
        BY <1>3, <1>5, ReadOkKeeps DEF LambdaOk, EntityInv
      <3>2. calls[h].request_id = r
        BY <1>1, <1>2, <1>5 DEF LambdaOk, At, ProcessInv, EntityInv, HandlersFit, Fits
      <3> QED
        BY <3>1, <3>2
    <2>5. UNCHANGED <<requests, applied, outbox>>
      BY <1>5 DEF LambdaOk
    <2> QED
      BY <2>2, <2>3, <2>4, <2>5, LetGo
  <1>6. CASE LambdaFails(h)
    <2>1. PICK l : l = [old EXCEPT !.pc = "enqueue", !.ok = FALSE]
      OBVIOUS
    <2>2. handlers' = [handlers EXCEPT ![h] = l] /\ l.pc = "enqueue" /\ l.request_id = r
      BY <1>1, <1>2, <1>6, <2>1 DEF LambdaFails, ProcessInv, EntityInv, TypeOK, Handler
    <2>3. old.pc = "await" /\ UNCHANGED <<requests, applied, outbox>>
      BY <1>1, <1>6 DEF LambdaFails, At
    <2>4. \A q \in Rids : Holds(l, q) <=> Holds(handlers[h], q)
      BY <1>1, <1>2, <2>2, <2>3 DEF Holds
    <2>5. \A q \in Rids : StageOf(q)' = StageOf(q)
      BY <2>2, <2>3, <2>4, OthersStay DEF ProcessInv, EntityInv, TypeOK
    <2> QED
      BY <2>3, <2>5, NoneMovesOn, StepsAreAccounted
  <1>7. CASE Enqueue(h)
    <2>1. PICK l : l = [old EXCEPT !.pc = "last_sync"]
      OBVIOUS
    <2>2. handlers' = [handlers EXCEPT ![h] = l] /\ l.pc = "last_sync"
      BY <1>1, <1>7, <2>1 DEF Enqueue, ProcessInv, EntityInv, TypeOK, Handler
    <2>3. Holds(handlers[h], r)
      BY <1>1, <1>2, <1>7 DEF Holds, Enqueue, At
    <2>4. /\ UNCHANGED <<requests, applied>>
          /\ outbox' = [outbox EXCEPT ![r] = NewItem(TRUE)]
      BY <1>1, <1>2, <1>7 DEF Enqueue, stage1Vars
    <2> QED
      BY <2>2, <2>3, <2>4, LetGo
  <1>8. CASE EnqueueFails(h) \/ EnqueueUnconfirmed(h)
    <2>1. Holds(handlers[h], r)
      BY <1>1, <1>2, <1>8 DEF Holds, EnqueueFails, EnqueueUnconfirmed, At
    <2>2. /\ handlers' = [handlers EXCEPT ![h] = Ended("ok")]
          /\ UNCHANGED <<requests, applied>>
          /\ \/ UNCHANGED outbox /\ "mongo" \in Faults
             \/ outbox' = [outbox EXCEPT ![r] = NewItem(TRUE)]
      BY <1>1, <1>2, <1>8 DEF EnqueueFails, EnqueueUnconfirmed, stage1Vars
    <2> QED
      BY <1>4, <2>1, <2>2, LetGo
  <1> QED
    BY <1>5, <1>6, <1>7, <1>8, DocumentStep, SyncStep DEF HandlerStep, Synchronise

\* A step of a run, or of the clock, saves one item or none.
LEMMA OneIsSaved ==
    ASSUME outbox \in [Rids -> Item \cup {Null}],
           (\E p \in Runs : Outbox!RunStep(p)) \/ Outbox!Tick
    PROVE  /\ UNCHANGED <<requests, applied>>
           /\ \E q : \A r \in Rids : r # q => outbox'[r] = outbox[r]
  <1>1. CASE Outbox!Tick
    BY <1>1 DEF Outbox!Tick, Outbox!BecomeDue, Outbox!stage1Vars
  <1>2. ASSUME NEW p \in Runs, Outbox!Start(p)
        PROVE  UNCHANGED <<requests, applied, outbox>>
    BY <1>2 DEF Outbox!Start, Outbox!Find, Outbox!stage1Vars
  <1>3. ASSUME NEW p \in Runs, NEW loaded \in runs[p].batch, Outbox!GiveUp(p, loaded)
        PROVE  /\ UNCHANGED <<requests, applied>>
               /\ \E q : \A r \in Rids : r # q => outbox'[r] = outbox[r]
    BY <1>3 DEF Outbox!GiveUp, Outbox!stage1Vars
  <1>4. ASSUME NEW p \in Runs, Outbox!SaveItem(p) \/ Outbox!SaveItemUnconfirmed(p)
        PROVE  /\ UNCHANGED <<requests, applied>>
               /\ \E q : \A r \in Rids : r # q => outbox'[r] = outbox[r]
    BY <1>4 DEF Outbox!SaveItem, Outbox!SaveItemUnconfirmed, Outbox!stage1Vars
  <1>5. ASSUME NEW p \in Runs, NEW loaded \in runs[p].batch,
               Outbox!Retry(p, loaded) \/ Outbox!RetryThrows(p, loaded)
        PROVE  UNCHANGED <<requests, applied, outbox>>
    BY <1>5 DEF Outbox!Retry, Outbox!RetryThrows, Outbox!stage1Vars
  <1>6. ASSUME NEW p \in Runs,
               \/ Outbox!RetryOk(p) \/ Outbox!RetryFails(p)
               \/ Outbox!SaveItemFails(p) \/ Outbox!CatchFails(p)
        PROVE  UNCHANGED <<requests, applied, outbox>>
    BY <1>6 DEF Outbox!RetryOk, Outbox!RetryFails, Outbox!SaveItemFails,
                Outbox!CatchFails, Outbox!stage1Vars
  <1> QED
    BY <1>1, <1>2, <1>3, <1>4, <1>5, <1>6 DEF Outbox!RunStep, Outbox!Work

\* The item that is saved settles its request, or takes SENT back, or neither.
LEMMA RunIsAccounted ==
    ASSUME ProcessInv, ProcessInv', OutboxKept, OutboxKept',
           \A r \in Rids : outbox'[r] \in Item <=> outbox[r] \in Item,
           UNCHANGED handlers,
           (\E p \in Runs : Outbox!RunStep(p)) \/ Outbox!Tick,
           OP!SentIsKept
    PROVE  Accounted
  <1>1. /\ outbox \in [Rids -> Item \cup {Null}]
        /\ outbox' \in [Rids -> Item \cup {Null}]
    BY DEF ProcessInv, EntityInv, TypeOK
  <1>2. PICK q : /\ UNCHANGED <<requests, applied>>
                 /\ \A r \in Rids : r # q => outbox'[r] = outbox[r]
    BY <1>1, OneIsSaved
  <1>3. \A r \in Rids : InHand(r)' <=> InHand(r)
    BY DEF InHand
  <1>4. \A r \in Rids : r # q => StageOf(r)' = StageOf(r)
    BY <1>2, <1>3 DEF StageOf
  <1>5. CASE q \in Rids /\ StageOf(q)' # StageOf(q)
    <2>1. outbox[q] \in Item /\ outbox'[q] \in Item
      BY <1>1, <1>2, <1>3, <1>5 DEF StageOf
    <2>2. outbox[q] # Null /\ outbox'[q] # Null /\ requests[q] # Null
      BY <1>1, <1>2, <1>5, <2>1, NullIsNoRecord DEF ProcessInv, HandOver, ItemsAreRequests
    <2>3. /\ StageOf(q) = IF outbox[q].status = "SENT" THEN "sent" ELSE "queued"
          /\ StageOf(q)' = IF outbox'[q].status = "SENT" THEN "sent" ELSE "queued"
      BY <1>2, <2>2 DEF StageOf
    <2>4. CASE StageOf(q) = "queued" /\ StageOf(q)' = "sent"
      <3>1. q \in applied
        BY <1>2, <1>5, <2>2, <2>3, <2>4
           DEF OutboxKept, OP!StatusInv, OP!OutboxInv, OP!SentWasApplied
      <3>2. Contract!Settle(q)
        BY <1>2, <1>4, <1>5, <2>4, <3>1, OneMovesOn, ContractSteps
      <3> QED
        BY <1>5, <3>2, StepsAreAccounted
    <2>5. CASE StageOf(q) = "sent" /\ StageOf(q)' = "queued"
      <3>1. "mongo" \in Faults
        BY <1>5, <2>2, <2>3, <2>5 DEF OP!SentIsKept, OP!SentStays
      <3>2. Contract!Reopen(q)
        BY <1>2, <1>4, <1>5, <2>5, <3>1, OneMovesOn, ContractSteps
      <3> QED
        BY <1>5, <3>2, StepsAreAccounted
    <2> QED
      BY <1>5, <2>3, <2>4, <2>5
  <1>6. CASE ~(q \in Rids /\ StageOf(q)' # StageOf(q))
    <2>1. \A r \in Rids : StageOf(r)' = StageOf(r)
      BY <1>4, <1>6
    <2> QED
      BY <1>2, <2>1, NoneMovesOn, StepsAreAccounted
  <1> QED
    BY <1>5, <1>6

LEMMA Stage1IsAccounted ==
    ASSUME ProcessInv, Stage1Step, UNCHANGED <<db, handlers, outbox, runs, missed>>
    PROVE  Accounted
  <1>1. requests' = requests
    BY DEF Stage1Step, Apply, ApplyLate, LoseLate, Upsert
  <1>2. \A r \in Rids : StageOf(r)' = StageOf(r)
    BY <1>1 DEF StageOf, InHand
  <1>3. ASSUME NEW r \in Rids, requests[r] \in Request, applied' = applied \cup {r}
        PROVE  Accounted
    <2>1. StageOf(r) # "none"
      BY <1>3, NullIsNoRecord DEF StageOf
    <2>2. Contract!Apply(r)
      BY <1>2, <1>3, <2>1, NoneMovesOn, ContractSteps
    <2> QED
      BY <2>2, StepsAreAccounted
  <1>4. ASSUME NEW c \in Callers, Apply(c) PROVE Accounted
    <2>1. PICK r : r = calls[c].request_id
      OBVIOUS
    <2>2. calls[c].st # "none" /\ applied' = applied \cup {r}
      BY <1>4, <2>1 DEF Apply, Upsert
    <2>3. r \in Rids /\ requests[r] \in Request
      BY <2>1, <2>2 DEF ProcessInv, EntityInv, Stage1Inv, CallsAreRequests
    <2> QED
      BY <1>3, <2>2, <2>3
  <1>5. ASSUME NEW r \in Rids, ApplyLate(r) PROVE Accounted
    <2>1. late[r] > 0 /\ applied' = applied \cup {r}
      BY <1>5 DEF ApplyLate, Upsert
    <2>2. requests[r] \in Request
      BY <2>1 DEF ProcessInv, EntityInv, Stage1Inv, LateAreRequests
    <2> QED
      BY <1>3, <2>1, <2>2
  <1>6. ASSUME NEW r \in Rids, LoseLate(r) PROVE Accounted
    BY <1>2, <1>6, NoneMovesOn, StepsAreAccounted DEF LoseLate
  <1> QED
    BY <1>4, <1>5, <1>6 DEF Stage1Step

LEMMA CrashIsAccounted ==
    ASSUME ProcessInv, ProcessCrash
    PROVE  Accounted
  <1>1. /\ "crash" \in Faults
        /\ handlers' = [h \in Handlers |-> Ended("none")]
        /\ UNCHANGED <<requests, applied, outbox>>
    BY DEF ProcessCrash, Crash
  <1>2. \A r \in Rids : ~InHand(r)'
    BY <1>1 DEF InHand, Ended
  <1>3. \A r \in Rids : StageOf(r)' = IF StageOf(r) = "open" THEN "over" ELSE StageOf(r)
    BY <1>1, <1>2 DEF StageOf
  <1>4. Stages' = [r \in Rids |-> IF StageOf(r) = "open" THEN "over" ELSE StageOf(r)]
    BY <1>3 DEF Stages
  <1>5. Contract!Die
    BY <1>1, <1>4, ContractSteps
  <1> QED
    BY <1>5, StepsAreAccounted

LEMMA ProcessIsAccounted ==
    ASSUME ProcessInv, OutboxKept, [ProcessNext]_processVars
    PROVE  Accounted
  <1>1. ProcessInv' /\ OutboxKept' /\ OP!SentIsKept
    BY ProcessInvNext, OutboxKeptNext
  <1>2. ASSUME (\E p \in Runs : Outbox!RunStep(p)) \/ Outbox!Tick,
               UNCHANGED <<db, handlers, missed>>
        PROVE  Accounted
    <2>1. \A r \in Rids : outbox'[r] \in Item <=> outbox[r] \in Item
      <3>1. CASE Outbox!Tick
        <4>1. PICK r \in Rids : outbox[r] # Null /\ outbox' = [outbox EXCEPT ![r].due = TRUE]
          BY <3>1 DEF Outbox!Tick, Outbox!BecomeDue
        <4>2. PICK new : new = [outbox[r] EXCEPT !.due = TRUE]
          OBVIOUS
        <4>3. outbox \in [Rids -> Item \cup {Null}]
          BY DEF ProcessInv, EntityInv, TypeOK
        <4>4. outbox[r] \in Item /\ new \in Item
          BY <4>1, <4>2, <4>3 DEF Item
        <4>5. outbox' = [outbox EXCEPT ![r] = new]
          BY <4>1, <4>2
        <4> QED
          BY <4>3, <4>4, <4>5
      <3>2. ASSUME NEW p \in Runs, Outbox!RunStep(p)
            PROVE  \A r \in Rids : outbox'[r] \in Item <=> outbox[r] \in Item
        BY <1>2, <3>2, RunStepMoves DEF RunMovesTo
      <3> QED
        BY <1>2, <3>1, <3>2
    <2> QED
      BY <1>1, <1>2, <2>1, RunIsAccounted
  <1>3. ASSUME UNCHANGED processVars
        PROVE  Accounted
    <2>1. \A r \in Rids : StageOf(r)' = StageOf(r)
      BY <1>3 DEF StageOf, InHand, processVars, vars, serviceVars, stage1Vars
    <2> QED
      BY <1>3, <2>1, NoneMovesOn, StepsAreAccounted DEF processVars, vars, stage1Vars
  <1> QED
    BY <1>2, <1>3, HandlerIsAccounted, Stage1IsAccounted, CrashIsAccounted
       DEF ProcessNext, Handle

\* The process implements Delivery.
THEOREM ProcessKeepsAccount == ProcessSpec => DeliveryHolds
  <1>1. ProcessInit => Contract!Init
    BY DEF ProcessInit, Init, Stage1Init, Contract!Init, StageOf
  <1>2. ProcessInv /\ OutboxKept /\ [ProcessNext]_processVars
          => OutboxKept' /\ [Contract!Next]_(Contract!deliveryVars)
    BY OutboxKeptNext, ProcessIsAccounted DEF Accounted
  <1> QED
    BY <1>1, <1>2, OutboxKeptInit, ProcessInvInit, ProcessInvNext, PTL
       DEF ProcessSpec, DeliveryHolds, Contract!Spec

\* In a Delivery no request is lost but by a crash or a failing database.
LEMMA DeliveryLosesNothing == DeliveryHolds => []Contract!NothingIsLost
  <1>1. Contract!NothingIsLost <=>
          (\A r \in Rids : StageOf(r) = "over" /\ Faults \cap {"crash", "mongo"} = {}
                              => r \in applied)
    BY DEF Contract!NothingIsLost
  <1>2. Contract!Init => Contract!NothingIsLost
    BY DEF Contract!Init, Contract!NothingIsLost
  <1>3. ASSUME Contract!NothingIsLost, Accounted
        PROVE  Contract!NothingIsLost'
    <2> SUFFICES ASSUME NEW r \in Rids, StageOf(r)' = "over",
                        Faults \cap {"crash", "mongo"} = {}
                 PROVE  r \in applied'
      BY DEF Contract!NothingIsLost
    <2>1. "crash" \notin Faults /\ "mongo" \notin Faults
      OBVIOUS
    <2>2. CASE StageOf(r) = "over"
      <3>1. r \in applied
        BY <1>1, <1>3, <2>2
      <3>2. applied \subseteq applied'
        BY <1>3, <2>1, ContractSteps DEF Accounted, Contract!Next, Contract!deliveryVars
      <3> QED
        BY <3>1, <3>2
    <2>3. CASE StageOf(r) # "over"
      <3>1. Stages'[r] = "over" /\ Stages[r] # "over"
        BY <2>3 DEF Stages
      <3>2. Stages' # Stages
        BY <3>1
      <3>3. Contract!Next
        <4>1. Contract!deliveryVars = <<Stages, applied>>
          BY ContractSteps
        <4>2. Contract!deliveryVars' = <<Stages', applied'>>
          BY DEF Contract!deliveryVars, Stages
        <4>3. Contract!deliveryVars' # Contract!deliveryVars
          BY <3>2, <4>1, <4>2
        <4> QED
          BY <1>3, <4>3 DEF Accounted
      <3>4. PICK q \in Rids :
              /\ Stages'[r] # Stages[r]
              /\ \/ Contract!Build(q) \/ Contract!Confirm(q) \/ Contract!Queue(q)
                 \/ Contract!Settle(q)
        BY <1>3, <2>1, <3>1, <3>2, <3>3, ContractSteps DEF Contract!Next
      <3>5. Contract!Confirm(r)
        BY <3>1, <3>4, ContractSteps DEF Stages
      <3> QED
        BY <3>5, ContractSteps
    <2> QED
      BY <2>2, <2>3
  <1> QED
    BY <1>2, <1>3, PTL DEF DeliveryHolds, Contract!Spec, Accounted

\* Every request that SyncService builds is confirmed by Stage 1 or queued,
\* before its handler lets it go, unless the process dies or the database
\* rejects the item.
THEOREM NoRequestIsLost == ProcessSpec => []Contract!NothingIsLost
  BY ProcessKeepsAccount, DeliveryLosesNothing

=============================================================================
