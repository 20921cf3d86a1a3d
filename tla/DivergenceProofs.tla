--------------------------- MODULE DivergenceProofs ---------------------------
(***************************************************************************)
(* Why Stage 1 and the collection agree, for any number of handlers and    *)
(* runs and for all faults: as long as nothing has gone wrong with an      *)
(* entity (missed), at most one handler works on it, and how far that      *)
(* handler has come says whether Stage 1 has what is stored or what an     *)
(* item says.                                                              *)
(***************************************************************************)
EXTENDS BackofficeProofs

\* Explained(i) of Backoffice, of what is known to be an item.
ItemSays(i) ==
    \E r \in Rids :
        /\ outbox[r] \in Item
        /\ requests[r].id = i
        /\ remote[i] = requests[r].body \/ r \notin applied

\* Stage 1 has what is stored of i, or an item explains what else it has.
Agrees(i) == remote[i] = BodyOf(db[i]) \/ ItemSays(i)

\* A handler with locals l works on i.
WorksOn(l, i) == l.pc # "idle" /\ l.id = i

\* A request of i whose caller has gone may still reach Stage 1.
IsLate(r, i) == requests[r] \in Request /\ requests[r].id = i /\ late[r] > 0

\* What the only handler at work on i, with locals l, knows of Stage 1: the
\* paths it has not modified are those stored; its payload is what is stored;
\* its request, until it is applied, was never applied; once it is, Stage 1
\* agrees.
LocalsInStep(l, h, i) ==
    /\ l.pc = "save" /\ db[i] # Null =>
          /\ "name" \notin l.dirty => l.doc.name = db[i].name
          /\ "enabled" \notin l.dirty => l.doc.enabled = db[i].enabled
    /\ l.pc = "sync" => BodyOf(l.doc) = BodyOf(db[i])
    /\ l.pc = "await" =>
          /\ requests[l.request_id].body = BodyOf(db[i])
          /\ calls[h].st = "sent" => l.request_id \notin applied
          /\ calls[h].st = "acked" => Agrees(i)
    /\ l.pc = "enqueue" =>
          /\ requests[l.request_id].body = BodyOf(db[i])
          /\ l.request_id \in applied => Agrees(i)
    /\ l.pc = "last_sync" => Agrees(i)

\* Stage 1 agrees as long as nobody has saved a change that is still to be
\* sent, and a late request of i is that of an item, or one that its handler
\* is about to queue.
InStep(i) ==
    /\ db[i] # Null /\ (\A h \in Handlers : WorksOn(handlers[h], i)
                                              => handlers[h].pc = "save")
         => Agrees(i)
    /\ \A r \in Rids : IsLate(r, i)
         => \/ outbox[r] \in Item
            \/ \E h \in Handlers : handlers[h].pc = "enqueue" /\ handlers[h].request_id = r
    /\ \A h \in Handlers : WorksOn(handlers[h], i) => LocalsInStep(handlers[h], h, i)

OverlapIsMissed ==
    \A g, h \in Handlers : \A i \in Ids :
        g # h /\ WorksOn(handlers[g], i) /\ WorksOn(handlers[h], i) => i \in missed

AppliedAreRequests == \A r \in applied : requests[r] \in Request

StepInv ==
    /\ ProcessInv
    /\ OverlapIsMissed
    /\ AppliedAreRequests
    /\ \A i \in Ids \ missed : InStep(i)

\* No item is ever taken away.
ItemsStay == \A r \in Rids : outbox[r] \in Item => outbox'[r] \in Item

\* Stage 1 goes on agreeing when it is given nothing about i that no item says.
LEMMA AgreesStays ==
    ASSUME NEW i \in Ids, ItemsAreRequests, Agrees(i), ItemsStay,
           remote'[i] = remote[i],
           BodyOf(db'[i]) = BodyOf(db[i]),
           \A r \in Rids : requests[r] \in Request => requests'[r] = requests[r],
           \A r \in applied' \ applied : requests[r].id # i
    PROVE  Agrees(i)'
  <1>1. CASE remote[i] = BodyOf(db[i])
    BY <1>1 DEF Agrees, BodyOf
  <1>2. CASE ItemSays(i)
    <2>1. PICK r \in Rids :
            /\ outbox[r] \in Item /\ requests[r].id = i
            /\ remote[i] = requests[r].body \/ r \notin applied
      BY <1>2 DEF ItemSays
    <2>2. outbox'[r] \in Item /\ requests'[r] = requests[r]
      BY <2>1 DEF ItemsStay, ItemsAreRequests
    <2>3. remote'[i] = requests'[r].body \/ r \notin applied'
      BY <2>1, <2>2
    <2>4. ItemSays(i)'
      BY <2>1, <2>2, <2>3 DEF ItemSays
    <2> QED
      BY <2>4 DEF Agrees
  <1> QED
    BY <1>1, <1>2 DEF Agrees

-----------------------------------------------------------------------------
(* One handler alone on an entity. *)

\* InStep(i) for a handler h, with locals l, besides which nobody works on i.
AloneInStep(l, h, i) ==
    /\ db[i] # Null /\ (WorksOn(l, i) => l.pc = "save") => Agrees(i)
    /\ \A r \in Rids : IsLate(r, i)
         => \/ outbox[r] \in Item
            \/ l.pc = "enqueue" /\ l.request_id = r
    /\ WorksOn(l, i) => LocalsInStep(l, h, i)

LEMMA AloneSees ==
    ASSUME ProcessInv, NEW h \in Handlers, NEW i \in Ids, InStep(i),
           \A g \in Handlers \ {h} : ~WorksOn(handlers[g], i)
    PROVE  AloneInStep(handlers[h], h, i)
  <1>1. ASSUME NEW r \in Rids, IsLate(r, i), outbox[r] \notin Item
        PROVE  handlers[h].pc = "enqueue" /\ handlers[h].request_id = r
    <2>1. PICK g \in Handlers : handlers[g].pc = "enqueue" /\ handlers[g].request_id = r
      BY <1>1 DEF InStep
    <2>2. WorksOn(handlers[g], i)
      BY <1>1, <2>1 DEF WorksOn, IsLate, ProcessInv, EntityInv, HandlersFit, Fits
    <2> QED
      BY <2>1, <2>2
  <1>2. db[i] # Null /\ (WorksOn(handlers[h], i) => handlers[h].pc = "save") => Agrees(i)
    BY DEF InStep
  <1>3. WorksOn(handlers[h], i) => LocalsInStep(handlers[h], h, i)
    BY DEF InStep
  <1> QED
    BY <1>1, <1>2, <1>3 DEF AloneInStep

LEMMA AloneKeeps ==
    ASSUME NEW h \in Handlers, NEW i \in Ids, NEW l,
           handlers'[h] = l,
           AloneInStep(l, h, i)',
           \A g \in Handlers \ {h} : ~WorksOn(handlers'[g], i)
    PROVE  InStep(i)'
  <1>1. ASSUME NEW g \in Handlers, WorksOn(handlers'[g], i)
        PROVE  g = h
    BY <1>1
  <1>2. db'[i] # Null /\ (\A g \in Handlers : WorksOn(handlers'[g], i)
                                              => handlers'[g].pc = "save")
         => Agrees(i)'
    BY DEF AloneInStep, WorksOn
  <1>3. \A r \in Rids : IsLate(r, i)'
         => \/ outbox'[r] \in Item
            \/ \E g \in Handlers : handlers'[g].pc = "enqueue" /\ handlers'[g].request_id = r
    BY DEF AloneInStep
  <1>4. \A g \in Handlers : WorksOn(handlers'[g], i) => LocalsInStep(handlers[g], g, i)'
    BY <1>1 DEF AloneInStep, LocalsInStep, WorksOn
  <1> QED
    BY <1>2, <1>3, <1>4 DEF InStep, WorksOn

-----------------------------------------------------------------------------
(* Handlers that work on something else. *)

\* What a step of h leaves alone: Stage 1 itself, every request that is built
\* already, and whatever is about an entity that it does not work on.
StaysOut(h, i) ==
    /\ db'[i] = db[i]
    /\ \A r \in Rids : IsLate(r, i)' => IsLate(r, i)
    /\ \A r \in Rids : requests'[r] \in Request /\ requests'[r].id = i
                         => requests[r] \in Request

Touches(h) ==
    /\ UNCHANGED <<remote, applied>>
    /\ \A r \in Rids : requests[r] \in Request => requests'[r] = requests[r]
    /\ \A i \in Ids : ~WorksOn(handlers[h], i) => StaysOut(h, i)

LEMMA QuietTouches ==
    ASSUME NEW h, UNCHANGED <<stage1Vars, db>>
    PROVE  Touches(h)
  BY DEF Touches, StaysOut, IsLate, stage1Vars

LEMMA StoringTouches ==
    ASSUME ProcessInv, NEW h \in Handlers, handlers[h].pc # "idle",
           NEW doc, UNCHANGED stage1Vars,
           db' = [db EXCEPT ![handlers[h].id] = doc]
    PROVE  Touches(h)
  BY DEF Touches, StaysOut, IsLate, stage1Vars, WorksOn, ProcessInv, EntityInv, TypeOK

LEMMA RequestTouches ==
    ASSUME ProcessInv, NEW h \in Handlers, NEW r \in Rids,
           Sync(h, r) \/ SyncThrows(h, r)
    PROVE  Touches(h)
  <1>1. /\ handlers[h].pc = "sync" /\ BuildPayload(h, r)
        /\ UNCHANGED <<late, remote, applied, db>>
    BY DEF Sync, SyncThrows, At
  <1>2. /\ requests[r] = Null
        /\ requests'[r] \in Request
        /\ requests'[r].id = handlers[h].id
        /\ \A q \in Rids \ {r} : requests'[q] = requests[q]
    BY <1>1, BuildPayloadAdds DEF ProcessInv
  <1> QED
    BY <1>1, <1>2, NullIsNoRecord DEF Touches, StaysOut, IsLate, WorksOn

LEMMA AnswerTouches ==
    ASSUME ProcessInv, NEW h \in Handlers, LambdaOk(h) \/ LambdaFails(h)
    PROVE  Touches(h)
  <1>1. /\ handlers[h].pc = "await"
        /\ ReadOk(h) \/ ReadFailure(h)
        /\ UNCHANGED <<requests, remote, applied, db>>
    BY DEF LambdaOk, LambdaFails, At
  <1>2. PICK q \in Rids : /\ q = calls[h].request_id
                          /\ q = handlers[h].request_id
                          /\ requests[q].id = handlers[h].id
    BY <1>1 DEF ProcessInv, EntityInv, HandlersFit, Fits
  <1>3. late' = late \/ late' = [late EXCEPT ![q] = @ + 1]
    BY <1>1, <1>2 DEF ReadOk, ReadFailure
  <1>4. \A r \in Rids \ {q} : late'[r] = late[r]
    BY <1>3 DEF ProcessInv, EntityInv, Stage1Inv, Stage1TypeOK
  <1> QED
    BY <1>1, <1>2, <1>4 DEF Touches, StaysOut, IsLate, WorksOn

LEMMA HandlerTouches ==
    ASSUME ProcessInv, NEW h \in Handlers, HandlerStep(h)
    PROVE  Touches(h)
  <1>1. ASSUME \/ \E i \in Ids, name \in Names, enabled \in BOOLEAN :
                     Create(h, i, name, enabled)
               \/ UseExisting(h)
        PROVE  Touches(h)
    BY <1>1, QuietTouches DEF Create, UseExisting, FindOne, Update, Delete, stage1Vars
  <1>2. ASSUME Save(h) \/ SaveUnconfirmed(h)
        PROVE  Touches(h)
    <2>1. PICK increment : increment = IF SetsArray(h) THEN 1 ELSE 0
      OBVIOUS
    <2>2. PICK doc : doc = Saved(db[handlers[h].id], handlers[h].doc,
                                 handlers[h].dirty, increment)
      OBVIOUS
    <2>3. /\ handlers[h].pc # "idle" /\ UNCHANGED stage1Vars
          /\ db' = [db EXCEPT ![handlers[h].id] = doc]
      BY <1>2, <2>1, <2>2 DEF Save, SaveUnconfirmed, At
    <2> QED
      BY <2>3, StoringTouches
  <1>3. ASSUME SaveLastSync(h)
        PROVE  Touches(h)
    <2>1. PICK s : s = [ok |-> handlers[h].ok, request_id |-> handlers[h].request_id]
      OBVIOUS
    <2>2. PICK doc : doc = [db[handlers[h].id] EXCEPT !.last_sync = s]
      OBVIOUS
    <2>3. /\ handlers[h].pc # "idle" /\ UNCHANGED stage1Vars
          /\ db' = [db EXCEPT ![handlers[h].id] = doc]
      BY <1>3, <2>1, <2>2 DEF SaveLastSync, At
    <2> QED
      BY <2>3, StoringTouches
  <1>4. ASSUME \/ SaveFails(h) \/ Enqueue(h) \/ EnqueueFails(h)
               \/ EnqueueUnconfirmed(h) \/ SaveLastSyncFails(h)
        PROVE  Touches(h)
    BY <1>4, QuietTouches
       DEF SaveFails, Enqueue, EnqueueFails, EnqueueUnconfirmed, SaveLastSyncFails
  <1> QED
    BY <1>1, <1>2, <1>3, <1>4, RequestTouches, AnswerTouches DEF HandlerStep, Synchronise

\* A handler that does not work on i leaves it in step.
LEMMA OthersStayInStep ==
    ASSUME ProcessInv, NEW h \in Handlers, NEW l \in Handler, MovesTo(h, l), Touches(h),
           NEW i \in Ids, InStep(i), ItemsStay,
           ~WorksOn(handlers[h], i), ~WorksOn(l, i)
    PROVE  InStep(i)'
  <1>1. handlers'[h] = l /\ \A g \in Handlers \ {h} : handlers'[g] = handlers[g]
    BY DEF MovesTo, ProcessInv, EntityInv, TypeOK
  <1>2. /\ db'[i] = db[i] /\ UNCHANGED <<remote, applied>>
        /\ \A r \in Rids : IsLate(r, i)' => IsLate(r, i)
        /\ \A r \in Rids : requests[r] \in Request => requests'[r] = requests[r]
    BY DEF Touches, StaysOut
  <1>0. Agrees(i) => Agrees(i)'
    BY <1>2, AgreesStays DEF ProcessInv, HandOver
  <1>3. db'[i] # Null /\ (\A g \in Handlers : WorksOn(handlers'[g], i)
                                              => handlers'[g].pc = "save")
         => Agrees(i)'
    BY <1>0, <1>1, <1>2 DEF InStep
  <1>4. ASSUME NEW r \in Rids, IsLate(r, i)', outbox'[r] \notin Item
        PROVE  \E g \in Handlers : handlers'[g].pc = "enqueue" /\ handlers'[g].request_id = r
    <2>1. IsLate(r, i)
      BY <1>2, <1>4
    <2>2. PICK g \in Handlers : handlers[g].pc = "enqueue" /\ handlers[g].request_id = r
      BY <1>4, <2>1 DEF InStep, ItemsStay
    <2>3. WorksOn(handlers[g], i)
      BY <2>1, <2>2 DEF WorksOn, IsLate, ProcessInv, EntityInv, HandlersFit, Fits
    <2> QED
      BY <2>2, <2>3, <1>1
  <1>5. ASSUME NEW g \in Handlers, WorksOn(handlers'[g], i)
        PROVE  LocalsInStep(handlers[g], g, i)'
    <2>1. g # h /\ handlers'[g] = handlers[g] /\ calls'[g] = calls[g]
      BY <1>1, <1>5, EntityServiceAssumption DEF MovesTo
    <2>2. LocalsInStep(handlers[g], g, i)
      BY <1>5, <2>1 DEF InStep
    <2>3. handlers[g].pc \in {"await", "enqueue"}
            => requests'[handlers[g].request_id] = requests[handlers[g].request_id]
      BY DEF Touches, ProcessInv, EntityInv, HandlersFit, Fits
    <2> QED
      BY <2>1, <2>2, <2>3, <1>0, <1>2 DEF LocalsInStep, BodyOf
  <1> QED
    BY <1>3, <1>4, <1>5 DEF InStep, WorksOn

-----------------------------------------------------------------------------
(* What a handler does alone. *)

\* A step of h, alone on i, leaves it with what it has to know.
StaysAlone(h, i) ==
    \E l \in Handler : handlers'[h] = l /\ AloneInStep(l, h, i)'

LEMMA QuietAgrees ==
    ASSUME NEW i \in Ids, Agrees(i), UNCHANGED <<stage1Vars, outbox>>,
           BodyOf(db'[i]) = BodyOf(db[i])
    PROVE  Agrees(i)'
  BY DEF Agrees, ItemSays, stage1Vars, BodyOf

\* Stage 1 gets nothing from a step that only changes handlers and documents.
LEMMA QuietStaysAlone ==
    ASSUME NEW h \in Handlers, NEW i \in Ids, NEW l \in Handler,
           handlers'[h] = l,
           AloneInStep(handlers[h], h, i), handlers[h].pc # "enqueue",
           UNCHANGED <<stage1Vars, outbox>>,
           db'[i] # Null /\ (WorksOn(l, i) => l.pc = "save") => Agrees(i)',
           WorksOn(l, i) => LocalsInStep(l, h, i)'
    PROVE  StaysAlone(h, i)
  <1>1. \A r \in Rids : IsLate(r, i)' => outbox'[r] \in Item
    BY DEF AloneInStep, IsLate, stage1Vars
  <1> QED
    BY <1>1 DEF StaysAlone, AloneInStep, WorksOn

\* The handler has answered.
LEMMA EndStaysAlone ==
    ASSUME NEW h \in Handlers, NEW i \in Ids, NEW answer \in Answers,
           handlers'[h] = Ended(answer),
           AloneInStep(handlers[h], h, i), handlers[h].pc # "enqueue",
           UNCHANGED <<stage1Vars, outbox>>,
           db'[i] # Null => Agrees(i)'
    PROVE  StaysAlone(h, i)
  <1>1. PICK l \in Handler : l = Ended(answer) /\ l.pc = "idle"
    BY EndedFits
  <1> QED
    BY <1>1, QuietStaysAlone DEF WorksOn

\* What BodyOf and Modified make of a document.
LEMMA ModifiedBody ==
    ASSUME NEW old \in Doc, NEW new \in Doc
    PROVE  /\ "name" \notin Modified(old, new) => new.name = old.name
           /\ "enabled" \notin Modified(old, new) => new.enabled = old.enabled
  BY DEF Modified

LEMMA CreateStaysAlone ==
    ASSUME ProcessInv, NEW h \in Handlers, NEW i \in Ids,
           AloneInStep(handlers[h], h, i),
           NEW j \in Ids, NEW name \in Names, NEW enabled \in BOOLEAN,
           Create(h, j, name, enabled),
           WorksOn(handlers'[h], i)
    PROVE  StaysAlone(h, i)
  <1>1. PICK doc : doc = [name |-> name, enabled |-> enabled, deleted |-> FALSE,
                          v |-> 0, last_sync |-> Null]
    OBVIOUS
  <1>2. doc \in Doc
    BY <1>1 DEF Doc
  <1>3. PICK l : l = Loaded(h, j, doc, {"name", "enabled", "deleted"})
    OBVIOUS
  <1>4. l \in Handler /\ l.pc = "save" /\ l.id = j
    BY <1>2, <1>3 DEF Loaded, Ended, Handler, Answers
  <1>5. /\ handlers[h].pc = "idle" /\ db[j] = Null
        /\ handlers'[h] = l /\ UNCHANGED <<stage1Vars, db, outbox>>
    BY <1>1, <1>3 DEF Create, Idle, ProcessInv, EntityInv, TypeOK
  <1>6. i = j
    BY <1>4, <1>5 DEF WorksOn
  <1>7. LocalsInStep(l, h, i)'
    BY <1>4, <1>5, <1>6 DEF LocalsInStep
  <1> QED
    BY <1>4, <1>5, <1>6, <1>7, QuietStaysAlone

\* update and delete: whatever new document h makes of the one it found.
LEMMA LoadStaysAlone ==
    ASSUME ProcessInv, NEW h \in Handlers, NEW i \in Ids,
           AloneInStep(handlers[h], h, i),
           NEW j \in Ids, db[j] \in Doc, NEW new \in Doc,
           handlers[h].pc = "idle",
           handlers' = [handlers EXCEPT ![h] = Loaded(h, j, new, Modified(db[j], new))],
           UNCHANGED <<stage1Vars, db, outbox>>,
           WorksOn(handlers'[h], i)
    PROVE  StaysAlone(h, i)
  <1>1. PICK dirty \in SUBSET {"name", "enabled", "deleted"} : dirty = Modified(db[j], new)
    BY ModifiedType
  <1>2. PICK l : l = Loaded(h, j, new, dirty)
    OBVIOUS
  <1>3. /\ l \in Handler /\ l.pc = "save" /\ l.id = j
        /\ l.doc = new /\ l.dirty = dirty
    BY <1>2 DEF Loaded, Ended, Handler, Answers
  <1>4. handlers'[h] = l
    BY <1>1, <1>2 DEF ProcessInv, EntityInv, TypeOK
  <1>5. i = j
    BY <1>3, <1>4 DEF WorksOn
  <1>6. LocalsInStep(l, h, i)'
    BY <1>1, <1>3, <1>5, ModifiedBody DEF LocalsInStep
  <1>7. db[i] # Null => Agrees(i)'
    BY QuietAgrees DEF AloneInStep, WorksOn
  <1> QED
    BY <1>3, <1>4, <1>6, <1>7, QuietStaysAlone

LEMMA UseStaysAlone ==
    ASSUME ProcessInv, NEW h \in Handlers, NEW i \in Ids,
           AloneInStep(handlers[h], h, i), UseExisting(h),
           WorksOn(handlers'[h], i)
    PROVE  StaysAlone(h, i)
  <1>1. ASSUME NEW j \in Ids, FindOne(h, j)
        PROVE  FALSE
    BY <1>1 DEF FindOne, Ended, WorksOn, ProcessInv, EntityInv, TypeOK
  <1>2. ASSUME NEW j \in Ids, NEW name \in Names, NEW enabled \in BOOLEAN,
               Update(h, j, name, enabled)
        PROVE  StaysAlone(h, i)
    <2>1. PICK new : new = [db[j] EXCEPT !.name = name, !.enabled = enabled]
      OBVIOUS
    <2>2. db[j] \in Doc
      BY <1>2 DEF Update, Visible, ProcessInv, EntityInv, TypeOK
    <2>3. new \in Doc
      BY <2>1, <2>2 DEF Doc
    <2> QED
      BY <1>2, <2>1, <2>2, <2>3, LoadStaysAlone DEF Update, Idle
  <1>3. ASSUME NEW j \in Ids, Delete(h, j)
        PROVE  StaysAlone(h, i)
    <2>1. PICK new : new = [db[j] EXCEPT !.enabled = FALSE, !.deleted = TRUE]
      OBVIOUS
    <2>2. db[j] \in Doc
      BY <1>3 DEF Delete, Visible, ProcessInv, EntityInv, TypeOK
    <2>3. new \in Doc
      BY <2>1, <2>2 DEF Doc
    <2> QED
      BY <1>3, <2>1, <2>2, <2>3, LoadStaysAlone DEF Delete, Idle
  <1> QED
    BY <1>1, <1>2, <1>3 DEF UseExisting

\* What save() stores is, path by path, what the handler has in memory, if the
\* paths it did not modify are those it found.
LEMMA SavedBody ==
    ASSUME NEW stored \in Doc \cup {Null}, NEW doc \in Doc,
           NEW dirty \in SUBSET {"name", "enabled", "deleted"},
           NEW increment \in {0, 1},
           stored # Null =>
              /\ "name" \notin dirty => doc.name = stored.name
              /\ "enabled" \notin dirty => doc.enabled = stored.enabled
    PROVE  /\ Saved(stored, doc, dirty, increment).name = doc.name
           /\ Saved(stored, doc, dirty, increment).enabled = doc.enabled
  BY DEF Saved, Doc

LEMMA SaveStaysAlone ==
    ASSUME ProcessInv, NEW h \in Handlers, NEW i \in Ids,
           AloneInStep(handlers[h], h, i), Save(h), handlers[h].id = i
    PROVE  StaysAlone(h, i)
  <1>1. PICK old \in Handler : old = handlers[h]
    BY DEF ProcessInv, EntityInv, TypeOK
  <1>2. PICK increment \in {0, 1} : increment = IF SetsArray(h) THEN 1 ELSE 0
    OBVIOUS
  <1>3. old.pc = "save" /\ old.id = i /\ old.doc \in Doc
    BY <1>1 DEF Save, At, ProcessInv, EntityInv, HandlersFit, Fits
  <1>4. PICK stored \in Doc \cup {Null} : stored = db[i]
    BY DEF ProcessInv, EntityInv, TypeOK
  <1>5. PICK new : new = Saved(stored, old.doc, old.dirty, increment)
    OBVIOUS
  <1>6. new.name = old.doc.name /\ new.enabled = old.doc.enabled
    <2>1. stored # Null =>
              /\ "name" \notin old.dirty => old.doc.name = stored.name
              /\ "enabled" \notin old.dirty => old.doc.enabled = stored.enabled
      BY <1>1, <1>3, <1>4 DEF AloneInStep, WorksOn, LocalsInStep
    <2>2. old.dirty \in SUBSET {"name", "enabled", "deleted"}
      BY DEF Handler
    <2> QED
      BY <2>1, <2>2, <1>3, <1>5, SavedBody
  <1>7. PICK memory : memory = [old.doc EXCEPT !.v = @ + increment]
    OBVIOUS
  <1>8. memory \in Doc /\ memory.name = old.doc.name /\ memory.enabled = old.doc.enabled
    BY <1>3, <1>7 DEF Doc
  <1>9. PICK l : l = [old EXCEPT !.pc = "sync", !.dirty = {}, !.doc = memory]
    OBVIOUS
  <1>10. l \in Handler /\ l.pc = "sync" /\ l.id = i /\ l.doc = memory
    BY <1>3, <1>8, <1>9 DEF Handler
  <1>11. /\ handlers' = [handlers EXCEPT ![h] = l]
         /\ db' = [db EXCEPT ![i] = new]
         /\ UNCHANGED <<stage1Vars, outbox>>
    BY <1>1, <1>2, <1>3, <1>4, <1>5, <1>7, <1>9 DEF Save
  <1>12. handlers'[h] = l /\ db'[i] = new
    BY <1>11 DEF ProcessInv, EntityInv, TypeOK
  <1>13. BodyOf(memory) = BodyOf(new)
    BY <1>6, <1>8 DEF BodyOf
  <1>14. LocalsInStep(l, h, i)'
    BY <1>10, <1>12, <1>13 DEF LocalsInStep, BodyOf
  <1> QED
    BY <1>1, <1>3, <1>10, <1>11, <1>12, <1>14, QuietStaysAlone DEF WorksOn

\* A save that is rejected and stores nothing; storing something is missed.
LEMMA SaveRejectedStaysAlone ==
    ASSUME ProcessInv, NEW h \in Handlers, NEW i \in Ids,
           AloneInStep(handlers[h], h, i), handlers[h].id = i,
           SaveFails(h) \/ SaveUnconfirmed(h), ~GivesUp(h)
    PROVE  StaysAlone(h, i)
  <1>1. /\ handlers[h].pc = "save"
        /\ handlers' = [handlers EXCEPT ![h] = Ended("error")]
        /\ UNCHANGED <<stage1Vars, outbox>>
    BY DEF SaveFails, SaveUnconfirmed, At
  <1>2. handlers'[h] = Ended("error") /\ handlers'[h].pc = "idle"
    BY <1>1 DEF Ended, ProcessInv, EntityInv, TypeOK
  <1>3. UNCHANGED db
    BY <1>1, <1>2 DEF GivesUp
  <1>4. db'[i] # Null => Agrees(i)'
    BY <1>1, <1>3, QuietAgrees DEF AloneInStep, WorksOn
  <1> QED
    BY <1>1, <1>2, <1>4, EndStaysAlone DEF Answers

LEMMA RequestStaysAlone ==
    ASSUME ProcessInv, AppliedAreRequests, NEW h \in Handlers, NEW i \in Ids,
           AloneInStep(handlers[h], h, i), handlers[h].id = i,
           NEW r \in Rids, Sync(h, r) \/ SyncThrows(h, r)
    PROVE  StaysAlone(h, i)
  <1>1. PICK old \in Handler : old = handlers[h]
    BY DEF ProcessInv, EntityInv, TypeOK
  <1>2. PICK l : l = [old EXCEPT !.pc = IF Sync(h, r) THEN "await" ELSE "enqueue",
                                 !.request_id = r, !.doc = Null]
    OBVIOUS
  <1>3. /\ old.pc = "sync" /\ BuildPayload(h, r)
        /\ UNCHANGED <<late, remote, applied, db, outbox>>
    BY <1>1 DEF Sync, SyncThrows, At
  <1>4. handlers'[h] = l
    <2>1. CASE Sync(h, r)
      BY <2>1, <1>1, <1>2 DEF Sync, ProcessInv, EntityInv, TypeOK
    <2>2. CASE SyncThrows(h, r) /\ ~Sync(h, r)
      BY <2>2, <1>1, <1>2 DEF SyncThrows, ProcessInv, EntityInv, TypeOK
    <2> QED
      BY <2>1, <2>2
  <1>5. /\ l \in Handler /\ l.request_id = r
        /\ l.pc \in {"await", "enqueue"}
        /\ l.pc = "await" => Sync(h, r)
    BY <1>2 DEF Handler
  <1>6. /\ requests[r] = Null
        /\ \A q \in Rids \ {r} : requests'[q] = requests[q]
    BY <1>1, <1>3, BuildPayloadAdds DEF ProcessInv
  <1>7. requests'[r].body = BodyOf(db[i])
    <2>1. BodyOf(old.doc) = BodyOf(db[i])
      BY <1>1, <1>3 DEF AloneInStep, WorksOn, LocalsInStep
    <2>2. PICK new : new = [id |-> old.id, body |-> BodyOf(old.doc)]
      OBVIOUS
    <2>3. requests' = [requests EXCEPT ![r] = new]
      BY <1>1, <1>3, <2>2 DEF BuildPayload, BodyOf
    <2>4. new.body = BodyOf(old.doc)
      BY <2>2
    <2> QED
      BY <2>1, <2>3, <2>4 DEF ProcessInv, EntityInv, Stage1Inv, Stage1TypeOK
  <1>8. r \notin applied /\ ~(late[r] > 0)
    BY <1>6, NullIsNoRecord DEF AppliedAreRequests, ProcessInv, EntityInv, Stage1Inv,
                                LateAreRequests
  <1>9. Sync(h, r) => calls'[h].st = "sent"
    BY EntityServiceAssumption
       DEF Sync, Post, ProcessInv, EntityInv, Stage1Inv, Stage1TypeOK
  <1>10. \A q \in Rids : IsLate(q, i)' => outbox'[q] \in Item
    BY <1>1, <1>3, <1>6, <1>8 DEF AloneInStep, IsLate
  <1>11. LocalsInStep(l, h, i)'
    BY <1>3, <1>5, <1>7, <1>8, <1>9 DEF LocalsInStep, BodyOf
  <1>12. handlers[h].pc # "save" /\ l.pc # "save" /\ l.id = i /\ l.pc # "idle"
    BY <1>1, <1>2, <1>3, <1>5 DEF Handler
  <1> QED
    BY <1>4, <1>5, <1>10, <1>11, <1>12 DEF StaysAlone, AloneInStep, WorksOn

LEMMA AnswerStaysAlone ==
    ASSUME ProcessInv, NEW h \in Handlers, NEW i \in Ids,
           AloneInStep(handlers[h], h, i), handlers[h].id = i,
           LambdaOk(h) \/ LambdaFails(h)
    PROVE  StaysAlone(h, i)
  <1>1. PICK old \in Handler : old = handlers[h]
    BY DEF ProcessInv, EntityInv, TypeOK
  <1>2. PICK l \in Handler :
          /\ handlers'[h] = l /\ l.id = i /\ l.request_id = old.request_id
          /\ \/ l.pc = "last_sync" /\ ReadOk(h)
             \/ l.pc = "enqueue" /\ ReadFailure(h)
    <2>1. CASE LambdaOk(h)
      <3>1. PICK l : l = [old EXCEPT !.pc = "last_sync", !.ok = TRUE]
        OBVIOUS
      <3>2. l \in Handler /\ l.pc = "last_sync" /\ l.id = i
            /\ l.request_id = old.request_id
        BY <3>1, <1>1 DEF Handler
      <3>3. handlers'[h] = l
        BY <2>1, <3>1, <1>1 DEF LambdaOk, ProcessInv, EntityInv, TypeOK
      <3> QED
        BY <2>1, <3>2, <3>3 DEF LambdaOk
    <2>2. CASE LambdaFails(h)
      <3>1. PICK l : l = [old EXCEPT !.pc = "enqueue", !.ok = FALSE]
        OBVIOUS
      <3>2. l \in Handler /\ l.pc = "enqueue" /\ l.id = i
            /\ l.request_id = old.request_id
        BY <3>1, <1>1 DEF Handler
      <3>3. handlers'[h] = l
        BY <2>2, <3>1, <1>1 DEF LambdaFails, ProcessInv, EntityInv, TypeOK
      <3> QED
        BY <2>2, <3>2, <3>3 DEF LambdaFails
    <2> QED
      BY <2>1, <2>2
  <1>3. /\ old.pc = "await" /\ UNCHANGED <<requests, remote, applied, db, outbox>>
        /\ calls[h].request_id = old.request_id /\ old.request_id \in Rids
    BY <1>1 DEF LambdaOk, LambdaFails, At, ProcessInv, EntityInv, HandlersFit, Fits
  <1>4. \A r \in Rids : IsLate(r, i) => outbox[r] \in Item
    BY <1>1, <1>3 DEF AloneInStep
  <1>5. LocalsInStep(old, h, i)
    BY <1>1, <1>3 DEF AloneInStep, WorksOn
  <1>8. Agrees(i) => Agrees(i)'
    BY <1>3 DEF Agrees, ItemSays, BodyOf
  <1>9. calls[h].st \in {"none", "sent", "acked"}
    BY EntityServiceAssumption
       DEF ProcessInv, EntityInv, Stage1Inv, Stage1TypeOK, Call
  <1>6. CASE l.pc = "last_sync" /\ ReadOk(h)
    <2>1. Agrees(i)' /\ late' = late
      BY <1>3, <1>5, <1>6, <1>8 DEF ReadOk, LocalsInStep
    <2>2. \A r \in Rids : IsLate(r, i)' => outbox'[r] \in Item
      BY <1>3, <1>4, <2>1 DEF IsLate
    <2>3. LocalsInStep(l, h, i)'
      BY <1>6, <2>1 DEF LocalsInStep
    <2> QED
      BY <1>2, <1>6, <2>1, <2>2, <2>3 DEF StaysAlone, AloneInStep
  <1>7. CASE l.pc = "enqueue" /\ ReadFailure(h)
    <2>1. late' = late \/ late' = [late EXCEPT ![old.request_id] = @ + 1]
      BY <1>3, <1>7 DEF ReadFailure
    <2>2. \A r \in Rids \ {old.request_id} : late'[r] = late[r]
      BY <1>3, <2>1 DEF ProcessInv, EntityInv, Stage1Inv, Stage1TypeOK
    <2>3. \A r \in Rids : IsLate(r, i)' => outbox'[r] \in Item \/ r = l.request_id
      BY <1>2, <1>3, <1>4, <2>2 DEF IsLate
    <2>4. LocalsInStep(l, h, i)'
      <3>1. /\ requests'[l.request_id].body = BodyOf(db'[i])
            /\ l.request_id \in applied' => Agrees(i)'
        BY <1>2, <1>3, <1>5, <1>7, <1>8, <1>9 DEF ReadFailure, LocalsInStep, BodyOf
      <3> QED
        BY <1>7, <3>1 DEF LocalsInStep, BodyOf
    <2> QED
      BY <1>2, <1>7, <2>3, <2>4 DEF StaysAlone, AloneInStep, WorksOn
  <1> QED
    BY <1>2, <1>6, <1>7

LEMMA ReportStaysAlone ==
    ASSUME ProcessInv, NEW h \in Handlers, NEW i \in Ids,
           AloneInStep(handlers[h], h, i), handlers[h].id = i,
           SaveLastSync(h) \/ SaveLastSyncFails(h)
    PROVE  StaysAlone(h, i)
  <1>1. /\ handlers[h].pc = "last_sync"
        /\ handlers' = [handlers EXCEPT ![h] = Ended("ok")]
        /\ UNCHANGED <<stage1Vars, outbox>>
    BY DEF SaveLastSync, SaveLastSyncFails, At
  <1>2. handlers'[h] = Ended("ok")
    BY <1>1 DEF ProcessInv, EntityInv, TypeOK
  <1>3. Agrees(i)
    BY <1>1 DEF AloneInStep, WorksOn, LocalsInStep
  <1>4. BodyOf(db'[i]) = BodyOf(db[i])
    <2>1. PICK s : s = [ok |-> handlers[h].ok, request_id |-> handlers[h].request_id]
      OBVIOUS
    <2>2. PICK doc : doc = [db[i] EXCEPT !.last_sync = s]
      OBVIOUS
    <2>3. db[i] \in Doc
      BY <1>1 DEF ProcessInv, EntityInv, HandlersFit, Fits
    <2>4. db' = db \/ db' = [db EXCEPT ![i] = doc]
      BY <2>1, <2>2 DEF SaveLastSync, SaveLastSyncFails
    <2>5. doc.name = db[i].name /\ doc.enabled = db[i].enabled
      BY <2>2, <2>3 DEF Doc
    <2> QED
      BY <2>4, <2>5 DEF BodyOf, ProcessInv, EntityInv, TypeOK
  <1>5. Agrees(i)'
    BY <1>1, <1>3, <1>4, QuietAgrees
  <1> QED
    BY <1>1, <1>2, <1>5, EndStaysAlone DEF Answers

\* The request that is queued is one that Stage 1 has not applied, and then
\* its item says so, or Stage 1 agrees already.
LEMMA EnqueueStaysAlone ==
    ASSUME ProcessInv, NEW h \in Handlers, NEW i \in Ids, ItemsStay,
           AloneInStep(handlers[h], h, i), handlers[h].id = i, Enqueue(h)
    PROVE  StaysAlone(h, i)
  <1>1. PICK old \in Handler : old = handlers[h]
    BY DEF ProcessInv, EntityInv, TypeOK
  <1>2. PICK r \in Rids : r = old.request_id /\ requests[r].id = i
    BY <1>1 DEF Enqueue, At, ProcessInv, EntityInv, HandlersFit, Fits
  <1>3. PICK l : l = [old EXCEPT !.pc = "last_sync"]
    OBVIOUS
  <1>4. l \in Handler /\ l.pc = "last_sync" /\ l.id = i
    BY <1>1, <1>3 DEF Handler
  <1>5. /\ old.pc = "enqueue" /\ handlers'[h] = l
        /\ UNCHANGED <<requests, late, remote, applied, db>>
        /\ outbox'[r] = NewItem(TRUE)
    BY <1>1, <1>2, <1>3
       DEF Enqueue, At, stage1Vars, ProcessInv, EntityInv, TypeOK
  <1>6. outbox'[r] \in Item
    BY <1>5 DEF NewItem, Item, Status
  <1>7. Agrees(i)'
    <2>1. CASE r \in applied
      <3>1. Agrees(i)
        BY <1>1, <1>2, <1>5, <2>1 DEF AloneInStep, WorksOn, LocalsInStep
      <3> QED
        BY <1>5, <3>1, AgreesStays DEF ProcessInv, HandOver
    <2>2. CASE r \notin applied
      <3>1. requests'[r].id = i /\ r \notin applied'
        BY <1>2, <1>5, <2>2
      <3> QED
        BY <1>6, <3>1 DEF Agrees, ItemSays
    <2> QED
      BY <2>1, <2>2
  <1>8. \A q \in Rids : IsLate(q, i)' => outbox'[q] \in Item
    BY <1>1, <1>2, <1>5, <1>6 DEF AloneInStep, IsLate, ItemsStay
  <1>9. LocalsInStep(l, h, i)'
    BY <1>4, <1>7 DEF LocalsInStep
  <1> QED
    BY <1>4, <1>5, <1>7, <1>8, <1>9 DEF StaysAlone, AloneInStep

\* A handler works on one document until it answers.
LEMMA KeepsItsId ==
    ASSUME EntityInv, NEW h \in Handlers,
           \/ Save(h) \/ (\E r \in Rids : Sync(h, r) \/ SyncThrows(h, r))
           \/ LambdaOk(h) \/ LambdaFails(h) \/ Enqueue(h)
    PROVE  handlers'[h].id = handlers[h].id
  <1>1. PICK old \in Handler : old = handlers[h]
    BY DEF EntityInv, TypeOK
  <1>2. ASSUME Save(h) PROVE handlers'[h].id = old.id
    <2>1. PICK doc : handlers' = [handlers EXCEPT ![h] =
                         [old EXCEPT !.pc = "sync", !.dirty = {}, !.doc = doc]]
      BY <1>1, <1>2 DEF Save
    <2>2. PICK l : l = [old EXCEPT !.pc = "sync", !.dirty = {}, !.doc = doc]
      OBVIOUS
    <2> QED
      BY <2>1, <2>2 DEF Handler, EntityInv, TypeOK
  <1>3. ASSUME NEW r \in Rids, Sync(h, r) \/ SyncThrows(h, r)
        PROVE  handlers'[h].id = old.id
    <2>1. PICK pc : handlers' = [handlers EXCEPT ![h].pc = pc, ![h].request_id = r,
                                                 ![h].doc = Null]
      BY <1>3 DEF Sync, SyncThrows
    <2>2. PICK l : l = [old EXCEPT !.pc = pc, !.request_id = r, !.doc = Null]
      OBVIOUS
    <2>3. handlers'[h] = l
      BY <2>1, <2>2, <1>1 DEF EntityInv, TypeOK
    <2> QED
      BY <2>2, <2>3 DEF Handler
  <1>4. ASSUME LambdaOk(h) \/ LambdaFails(h) PROVE handlers'[h].id = old.id
    <2>1. PICK pc, ok : handlers' = [handlers EXCEPT ![h].pc = pc, ![h].ok = ok]
      BY <1>4 DEF LambdaOk, LambdaFails
    <2>2. PICK l : l = [old EXCEPT !.pc = pc, !.ok = ok]
      OBVIOUS
    <2>3. handlers'[h] = l
      BY <2>1, <2>2, <1>1 DEF EntityInv, TypeOK
    <2> QED
      BY <2>2, <2>3 DEF Handler
  <1>5. ASSUME Enqueue(h) PROVE handlers'[h].id = old.id
    BY <1>1, <1>5 DEF Enqueue, Handler, EntityInv, TypeOK
  <1> QED
    BY <1>1, <1>2, <1>3, <1>4, <1>5

\* A handler alone on i keeps it in step, or misses it.
LEMMA AloneStep ==
    ASSUME StepInv, NEW h \in Handlers, NEW i \in Ids,
           AloneInStep(handlers[h], h, i), Handle(h), i \notin missed', ItemsStay,
           WorksOn(handlers[h], i) \/ WorksOn(handlers'[h], i)
    PROVE  StaysAlone(h, i)
  <1>1. /\ HandlerStep(h) /\ ProcessInv /\ AppliedAreRequests
        /\ GivesUp(h) => handlers[h].id # i
    BY DEF Handle, StepInv
  <1>2. handlers[h] \in Handler /\ handlers \in [Handlers -> Handler]
    BY <1>1 DEF ProcessInv, EntityInv, TypeOK
  <1>3. ASSUME \/ \E j \in Ids, name \in Names, enabled \in BOOLEAN :
                     Create(h, j, name, enabled)
               \/ UseExisting(h)
        PROVE  StaysAlone(h, i)
    <2>1. handlers[h].pc = "idle"
      BY <1>3 DEF Create, UseExisting, FindOne, Update, Delete, Idle
    <2>2. WorksOn(handlers'[h], i)
      BY <2>1 DEF WorksOn
    <2> QED
      BY <1>1, <1>3, <2>2, CreateStaysAlone, UseStaysAlone
  <1>4. ASSUME Save(h) \/ SaveFails(h) \/ SaveUnconfirmed(h) \/ Synchronise(h)
        PROVE  handlers[h].id = i
    <2>1. PICK l \in Handler : /\ handlers'[h] = l
                               /\ l.pc = "idle" \/ l.id = handlers[h].id
      <3>1. ASSUME \/ SaveFails(h) \/ SaveUnconfirmed(h) \/ EnqueueFails(h)
                   \/ EnqueueUnconfirmed(h) \/ SaveLastSync(h) \/ SaveLastSyncFails(h)
            PROVE  \E answer \in Answers : handlers'[h] = Ended(answer)
        BY <3>1, <1>2 DEF SaveFails, SaveUnconfirmed, EnqueueFails, EnqueueUnconfirmed,
                          SaveLastSync, SaveLastSyncFails, Answers
      <3>2. ASSUME \/ Save(h) \/ (\E r \in Rids : Sync(h, r) \/ SyncThrows(h, r))
                   \/ LambdaOk(h) \/ LambdaFails(h) \/ Enqueue(h)
            PROVE  handlers'[h] \in Handler /\ handlers'[h].id = handlers[h].id
        BY <1>1, <3>2, EntityInvNext, KeepsItsId DEF Next, ProcessInv, EntityInv, TypeOK
      <3> QED
        BY <1>4, <3>1, <3>2, EndedFits DEF Synchronise
    <2> QED
      BY <2>1 DEF WorksOn
  <1>5. ASSUME EnqueueFails(h) \/ EnqueueUnconfirmed(h)
        PROVE  FALSE
    <2>1. handlers[h].pc = "enqueue" /\ handlers' = [handlers EXCEPT ![h] = Ended("ok")]
      BY <1>5 DEF EnqueueFails, EnqueueUnconfirmed, At
    <2>2. handlers'[h].pc = "idle"
      BY <1>2, <2>1 DEF Ended
    <2> QED
      BY <1>1, <1>4, <1>5, <2>1, <2>2 DEF GivesUp, Synchronise
  <1> QED
    BY <1>1, <1>3, <1>4, <1>5, SaveStaysAlone, SaveRejectedStaysAlone,
       RequestStaysAlone, AnswerStaysAlone, EnqueueStaysAlone, ReportStaysAlone
       DEF HandlerStep, Synchronise

LEMMA HandleStaysInStep ==
    ASSUME StepInv, NEW h \in Handlers, Handle(h), ProcessInv',
           NEW i \in Ids, i \notin missed', InStep(i), ItemsStay
    PROVE  InStep(i)'
  <1>1. /\ HandlerStep(h) /\ ProcessInv
        /\ i \notin missed
        /\ i \notin Overlapping'
    BY DEF Handle, StepInv
  <1>2. PICK l \in Handler : MovesTo(h, l)
    BY <1>1, HandlerHandsOver DEF ProcessInv
  <1>3. handlers'[h] = l /\ \A g \in Handlers \ {h} : handlers'[g] = handlers[g]
    BY <1>1, <1>2 DEF MovesTo, ProcessInv, EntityInv, TypeOK
  <1>4. CASE ~WorksOn(handlers[h], i) /\ ~WorksOn(l, i)
    BY <1>1, <1>2, <1>4, HandlerTouches, OthersStayInStep
  <1>5. CASE WorksOn(handlers[h], i) \/ WorksOn(l, i)
    <2>1. \A g \in Handlers \ {h} : ~WorksOn(handlers[g], i)
      <3>1. ASSUME NEW g \in Handlers \ {h}, WorksOn(handlers[g], i), WorksOn(l, i)
            PROVE  FALSE
        BY <3>1, <1>1, <1>3 DEF Overlapping, WorksOn
      <3>2. ASSUME NEW g \in Handlers \ {h}, WorksOn(handlers[g], i),
                   WorksOn(handlers[h], i)
            PROVE  FALSE
        BY <3>2, <1>1 DEF StepInv, OverlapIsMissed
      <3> QED
        BY <3>1, <3>2, <1>5
    <2>2. AloneInStep(handlers[h], h, i)
      BY <2>1, <1>1, AloneSees
    <2>3. StaysAlone(h, i)
      BY <2>2, <1>3, <1>5, AloneStep
    <2>4. \A g \in Handlers \ {h} : ~WorksOn(handlers'[g], i)
      BY <2>1, <1>3
    <2> QED
      BY <2>3, <2>4, AloneKeeps DEF StaysAlone
  <1> QED
    BY <1>4, <1>5

-----------------------------------------------------------------------------
(* What happens around the handlers of i. *)

\* A step that gives Stage 1 nothing about i but what items say.
LEMMA QuietStaysInStep ==
    ASSUME ProcessInv, NEW i \in Ids, InStep(i), ItemsStay,
           UNCHANGED <<requests, db, handlers>>,
           Agrees(i) => Agrees(i)',
           \A h \in Handlers : WorksOn(handlers[h], i) => calls'[h] = calls[h],
           \A r \in applied' \ applied : requests[r].id # i \/ outbox[r] \in Item,
           \A r \in Rids : IsLate(r, i)' => IsLate(r, i) \/ outbox'[r] \in Item
    PROVE  InStep(i)'
  <1>1. db'[i] # Null /\ (\A h \in Handlers : WorksOn(handlers'[h], i)
                                              => handlers'[h].pc = "save")
         => Agrees(i)'
    BY DEF InStep
  <1>2. \A r \in Rids : IsLate(r, i)'
         => \/ outbox'[r] \in Item
            \/ \E h \in Handlers : handlers'[h].pc = "enqueue" /\ handlers'[h].request_id = r
    BY DEF InStep, ItemsStay
  <1>3. ASSUME NEW h \in Handlers, WorksOn(handlers'[h], i)
        PROVE  LocalsInStep(handlers[h], h, i)'
    <2>1. LocalsInStep(handlers[h], h, i) /\ calls'[h] = calls[h]
      BY <1>3 DEF InStep
    <2>2. handlers[h].pc \in {"await", "enqueue"} =>
            /\ requests[handlers[h].request_id].id = i
            /\ outbox[handlers[h].request_id] \notin Item
      BY <1>3, NullIsNoRecord
         DEF WorksOn, ProcessInv, EntityInv, HandlersFit, Fits, HandOver, QueuedAfterCall,
             NotQueued
    <2>3. handlers[h].pc \in {"await", "enqueue"} =>
            (handlers[h].request_id \in applied' => handlers[h].request_id \in applied)
      BY <2>2
    <2> QED
      BY <2>1, <2>3 DEF LocalsInStep, BodyOf
  <1> QED
    BY <1>1, <1>2, <1>3 DEF InStep, WorksOn

\* A run leaves on its way only the request of an item.
LEMMA RunStaysInStep ==
    ASSUME ProcessInv, NEW p \in Runs, Outbox!RunStep(p), UNCHANGED <<db, handlers>>,
           NEW i \in Ids, InStep(i)
    PROVE  InStep(i)'
  <1>1. PICK k \in Outbox!Run : RunMovesTo(p, k)
    BY FindMoves, GiveUpMoves, RetryMoves, RetryThrowsMoves, AnswerIsRead, SaveItemMoves
       DEF Outbox!RunStep, Outbox!Start, Outbox!Work
  <1>2. /\ UNCHANGED <<requests, remote, applied>>
        /\ \A h \in Handlers : calls'[h] = calls[h]
        /\ ItemsStay
    BY <1>1, EntityServiceAssumption, BackofficeAssumption DEF RunMovesTo, ItemsStay
  <1>3. \/ late' = late
        \/ /\ calls[p].st = "sent"
           /\ late' = [late EXCEPT ![calls[p].request_id] = @ + 1]
    BY DEF Outbox!RunStep, Outbox!Start, Outbox!Work, Outbox!Find, Outbox!GiveUp,
           Outbox!Retry, Outbox!RetryThrows, Outbox!RetryOk, Outbox!RetryFails,
           Outbox!SaveItem, Outbox!SaveItemFails, Outbox!SaveItemUnconfirmed,
           Outbox!CatchFails, Outbox!stage1Vars, Outbox!ReadOk, Outbox!ReadFailure
  <1>4. calls[p].st = "sent"
          => /\ calls[p].request_id \in Rids
             /\ outbox[calls[p].request_id] \in Item
    BY BackofficeAssumption
       DEF ProcessInv, RunsFit, RunFits, EntityInv, Stage1Inv, CallsAreRequests
  <1>5. \A r \in Rids : IsLate(r, i)' => IsLate(r, i) \/ outbox'[r] \in Item
    BY <1>2, <1>3, <1>4 DEF IsLate, ItemsStay, ProcessInv, EntityInv, Stage1Inv, Stage1TypeOK
  <1>6. Agrees(i) => Agrees(i)'
    BY <1>2, AgreesStays DEF ProcessInv, HandOver
  <1> QED
    BY <1>2, <1>5, <1>6, QuietStaysInStep

\* What Stage 1 makes of the request of an item, or of one about another
\* entity.
LEMMA ItemAppliedAgrees ==
    ASSUME ProcessInv, NEW i \in Ids, NEW r \in Rids, Upsert(r), requests[r] \in Request,
           UNCHANGED <<db, outbox>>,
           requests[r].id # i \/ outbox[r] \in Item,
           Agrees(i)
    PROVE  Agrees(i)'
  <1>1. /\ remote \in [Ids -> Body \cup {Null}] /\ requests[r].id \in Ids
        /\ ItemsAreRequests /\ ItemsStay
    BY DEF ProcessInv, EntityInv, Stage1Inv, Stage1TypeOK, HandOver, Request, ItemsStay
  <1>2. CASE requests[r].id = i /\ ~(Idempotent /\ r \in applied)
    <2>1. remote'[i] = requests[r].body /\ requests' = requests
      BY <1>1, <1>2 DEF Upsert
    <2>2. ItemSays(i)'
      BY <1>2, <2>1 DEF ItemSays
    <2> QED
      BY <2>2 DEF Agrees
  <1>3. CASE requests[r].id # i \/ (Idempotent /\ r \in applied)
    <2>1. remote'[i] = remote[i] /\ requests' = requests
      BY <1>1, <1>3 DEF Upsert
    <2>2. \A q \in applied' \ applied : requests[q].id # i
      BY <1>3 DEF Upsert
    <2> QED
      BY <1>1, <2>1, <2>2, AgreesStays
  <1> QED
    BY <1>2, <1>3

\* What Stage 1 applies about i is the request of the handler that works on it,
\* one that this handler is about to queue, or one that an item says.
LEMMA Stage1StaysInStep ==
    ASSUME StepInv, Stage1Step, UNCHANGED <<db, handlers, outbox>>,
           NEW i \in Ids, i \notin missed, InStep(i)
    PROVE  InStep(i)'
  <1>1. /\ ProcessInv /\ Stage1TypeOK /\ UNCHANGED requests
        /\ ItemsStay
    BY Stage1StepKeeps DEF StepInv, ProcessInv, EntityInv, Stage1Inv, ItemsStay
  <1>2. ASSUME NEW r \in Rids, Upsert(r), requests[r] \in Request,
               requests[r].id # i \/ outbox[r] \in Item
        PROVE  /\ Agrees(i) => Agrees(i)'
               /\ \A q \in applied' \ applied : requests[q].id # i \/ outbox[q] \in Item
    BY <1>1, <1>2, ItemAppliedAgrees DEF Upsert
  <1>3. ASSUME NEW r \in Rids, ApplyLate(r)
        PROVE  InStep(i)'
    <2>1. /\ requests[r] \in Request /\ late[r] > 0
          /\ Upsert(r) /\ UNCHANGED calls /\ late' = [late EXCEPT ![r] = @ - 1]
      BY <1>1, <1>3 DEF ApplyLate, ProcessInv, EntityInv, Stage1Inv, LateAreRequests
    <2>2. \A q \in Rids : IsLate(q, i)' => IsLate(q, i)
      BY <1>1, <2>1 DEF IsLate, Stage1TypeOK
    <2>3. CASE requests[r].id # i \/ outbox[r] \in Item
      BY <2>1, <2>2, <2>3, <1>1, <1>2, QuietStaysInStep
    <2>4. CASE requests[r].id = i /\ outbox[r] \notin Item
      <3>1. PICK h \in Handlers : handlers[h].pc = "enqueue" /\ handlers[h].request_id = r
        BY <2>1, <2>4 DEF InStep, IsLate
      <3>2. WorksOn(handlers[h], i)
        BY <3>1, <2>4, <1>1 DEF WorksOn, ProcessInv, EntityInv, HandlersFit, Fits
      <3>3. \A g \in Handlers \ {h} : ~WorksOn(handlers[g], i)
        BY <3>2 DEF StepInv, OverlapIsMissed
      <3>4. AloneInStep(handlers[h], h, i)
        BY <3>3, <1>1, AloneSees
      <3>5. PICK l : l = handlers[h] /\ handlers'[h] = l
        OBVIOUS
      <3>6. /\ requests[r].body = BodyOf(db[i])
            /\ r \in applied => Agrees(i)
        BY <3>1, <3>2, <3>4 DEF AloneInStep, LocalsInStep
      <3>7. Agrees(i)'
        <4>1. CASE Idempotent /\ r \in applied
          <5>1. UNCHANGED <<remote, applied>> /\ Agrees(i)
            BY <2>1, <3>6, <4>1 DEF Upsert
          <5> QED
            BY <1>1, <5>1, AgreesStays DEF ProcessInv, HandOver
        <4>2. CASE ~(Idempotent /\ r \in applied)
          <5>1. remote'[i] = BodyOf(db'[i])
            BY <1>1, <2>1, <2>4, <3>6, <4>2 DEF Upsert, Stage1TypeOK
          <5> QED
            BY <5>1 DEF Agrees, BodyOf
        <4> QED
          BY <4>1, <4>2
      <3>8. LocalsInStep(l, h, i)'
        BY <3>1, <3>5, <3>6, <3>7, <1>1 DEF LocalsInStep, BodyOf
      <3>9. \A q \in Rids : IsLate(q, i)'
              => \/ outbox'[q] \in Item
                 \/ l.pc = "enqueue" /\ l.request_id = q
        BY <2>2, <3>4, <3>5 DEF AloneInStep
      <3>10. AloneInStep(l, h, i)'
        BY <3>7, <3>8, <3>9 DEF AloneInStep
      <3> QED
        BY <3>3, <3>5, <3>10, AloneKeeps
    <2> QED
      BY <2>3, <2>4
  <1>4. ASSUME NEW r \in Rids, LoseLate(r)
        PROVE  InStep(i)'
    <2>1. \A q \in Rids : IsLate(q, i)' => IsLate(q, i)
      BY <1>1, <1>4 DEF LoseLate, IsLate, Stage1TypeOK
    <2>2. Agrees(i) => Agrees(i)'
      BY <1>1, <1>4, AgreesStays DEF LoseLate, ProcessInv, HandOver
    <2> QED
      BY <2>1, <2>2, <1>1, <1>4, QuietStaysInStep DEF LoseLate
  <1>5. ASSUME NEW c \in Callers, Apply(c)
        PROVE  InStep(i)'
    <2>1. PICK r \in Rids : r = calls[c].request_id /\ requests[r] \in Request
      BY <1>1, <1>5 DEF Apply, ProcessInv, EntityInv, Stage1Inv, CallsAreRequests
    <2>2. /\ calls[c].st = "sent" /\ Upsert(r) /\ UNCHANGED late
          /\ calls' = [calls EXCEPT ![c].st = "acked"]
      BY <1>5, <2>1 DEF Apply
    <2>3. \A q \in Rids : IsLate(q, i)' => IsLate(q, i)
      BY <1>1, <2>2 DEF IsLate
    <2>4. c \in Runs => outbox[r] \in Item
      BY <1>1, <2>1, <2>2 DEF ProcessInv, RunsFit, RunFits
    <2>5. c \in Handlers => /\ handlers[c].pc = "await"
                            /\ handlers[c].request_id = r
                            /\ WorksOn(handlers[c], requests[r].id)
      BY <1>1, <2>1, <2>2
         DEF WorksOn, ProcessInv, HandOver, CallsAreAwaited, EntityInv, HandlersFit, Fits
    <2>6. CASE requests[r].id # i \/ c \in Runs
      <3>1. \A h \in Handlers : WorksOn(handlers[h], i) => calls'[h] = calls[h]
        BY <2>2, <2>5, <2>6, <1>1, EntityServiceAssumption, BackofficeAssumption
           DEF WorksOn, Stage1TypeOK
      <3> QED
        BY <3>1, <2>1, <2>2, <2>3, <2>4, <2>6, <1>1, <1>2, QuietStaysInStep
    <2>7. CASE requests[r].id = i /\ c \notin Runs
      <3>1. /\ c \in Handlers /\ handlers[c].pc = "await" /\ handlers[c].request_id = r
            /\ WorksOn(handlers[c], i)
        BY <2>5, <2>7, BackofficeAssumption
      <3>2. \A g \in Handlers \ {c} : ~WorksOn(handlers[g], i)
        BY <3>1 DEF StepInv, OverlapIsMissed
      <3>3. AloneInStep(handlers[c], c, i) /\ LocalsInStep(handlers[c], c, i)
        BY <3>1, <3>2, <1>1, AloneSees DEF AloneInStep
      <3>4. r \notin applied /\ requests[r].body = BodyOf(db[i])
        BY <3>1, <3>3, <2>2 DEF LocalsInStep
      <3>5. Agrees(i)'
        <4>1. remote'[i] = BodyOf(db'[i])
          BY <3>4, <2>2, <2>7, <1>1 DEF Upsert, Stage1TypeOK
        <4> QED
          BY <4>1 DEF Agrees, BodyOf
      <3>6. calls'[c].st = "acked"
        BY <2>2, <1>1 DEF Stage1TypeOK, Call
      <3>7. PICK l : l = handlers[c] /\ handlers'[c] = l
        OBVIOUS
      <3>8. LocalsInStep(l, c, i)'
        BY <3>1, <3>4, <3>5, <3>6, <3>7, <1>1 DEF LocalsInStep, BodyOf
      <3>9. AloneInStep(l, c, i)'
        BY <3>1, <3>3, <3>5, <3>7, <3>8, <2>3 DEF AloneInStep
      <3> QED
        BY <3>1, <3>2, <3>7, <3>9, AloneKeeps
    <2> QED
      BY <2>6, <2>7
  <1> QED
    BY <1>3, <1>4, <1>5 DEF Stage1Step

\* A call that may survive its caller is of a handler that is interrupted, or
\* of an item.
LEMMA CrashStaysInStep ==
    ASSUME ProcessInv, ProcessCrash,
           NEW i \in Ids, i \notin missed', InStep(i)
    PROVE  InStep(i)'
  <1>1. /\ \A h \in Handlers : handlers'[h].pc = "idle"
        /\ UNCHANGED <<requests, remote, applied, db, outbox>>
        /\ DropCalls
    BY DEF ProcessCrash, Crash, Ended
  <1>2. ASSUME NEW h \in Handlers, WorksOn(handlers[h], i)
        PROVE  handlers[h].pc \in {"save", "last_sync"}
    <2>1. handlers[h].pc \notin {"sync", "await", "enqueue"}
      BY <1>2 DEF ProcessCrash, Interrupted, WorksOn
    <2> QED
      BY <1>2, <2>1 DEF WorksOn, ProcessInv, EntityInv, TypeOK, Handler
  <1>3. db[i] # Null => Agrees(i)
    <2>1. CASE \E h \in Handlers : WorksOn(handlers[h], i) /\ handlers[h].pc = "last_sync"
      BY <2>1 DEF InStep, LocalsInStep
    <2>2. CASE \A h \in Handlers : WorksOn(handlers[h], i) => handlers[h].pc = "save"
      BY <2>2 DEF InStep
    <2> QED
      BY <2>1, <2>2, <1>2
  <1>4. ASSUME NEW r \in Rids, IsLate(r, i)', outbox'[r] \notin Item
        PROVE  FALSE
    <2>1. requests[r] \in Request /\ requests[r].id = i
      BY <1>1, <1>4 DEF IsLate
    <2>2. ~(late[r] > 0)
      <3> SUFFICES ASSUME late[r] > 0 PROVE FALSE
        OBVIOUS
      <3>1. PICK h \in Handlers : handlers[h].pc = "enqueue" /\ handlers[h].request_id = r
        BY <1>1, <1>4, <2>1 DEF InStep, IsLate
      <3> QED
        BY <3>1, <2>1, <1>2 DEF WorksOn, ProcessInv, EntityInv, HandlersFit, Fits
    <2>3. \A c \in Callers : calls[c].st = "sent" => calls[c].request_id # r
      <3> SUFFICES ASSUME NEW c \in Callers, calls[c].st = "sent", calls[c].request_id = r
                   PROVE  FALSE
        OBVIOUS
      <3>1. CASE c \in Runs
        BY <1>1, <1>4, <3>1 DEF ProcessInv, RunsFit, RunFits
      <3>2. CASE c \in Handlers
        <4>1. handlers[c].pc = "await"
          BY <3>2 DEF ProcessInv, HandOver, CallsAreAwaited
        <4> QED
          BY <3>2, <4>1, <2>1, <1>2 DEF WorksOn, ProcessInv, EntityInv, HandlersFit, Fits
      <3> QED
        BY <3>1, <3>2, BackofficeAssumption
    <2>4. PICK survivors \in SUBSET {c \in Callers : calls[c].st = "sent"} :
            late' = [q \in Rids |-> late[q]
                       + Cardinality({c \in survivors : calls[c].request_id = q})]
      BY <1>1 DEF DropCalls
    <2>5. {c \in survivors : calls[c].request_id = r} = {}
      BY <2>3
    <2>6. late'[r] = late[r] + 0
      BY <2>4, <2>5, FS_EmptySet
    <2> QED
      BY <1>4, <2>2, <2>6 DEF IsLate, ProcessInv, EntityInv, Stage1Inv, Stage1TypeOK
  <1>5. db'[i] # Null => Agrees(i)'
    BY <1>1, <1>3 DEF Agrees, ItemSays, BodyOf
  <1> QED
    BY <1>1, <1>4, <1>5 DEF InStep, WorksOn

-----------------------------------------------------------------------------
(* The process. *)

LEMMA HandleKeepsSteps ==
    ASSUME StepInv, NEW h \in Handlers, Handle(h)
    PROVE  StepInv'
  <1>1. ProcessInv /\ HandlerStep(h) /\ ProcessInv'
    BY HandleKeeps DEF StepInv, Handle
  <1>2. Touches(h)
    BY <1>1, HandlerTouches
  <1>3. PICK l \in Handler : MovesTo(h, l)
    BY <1>1, HandlerHandsOver DEF ProcessInv
  <1>4. OverlapIsMissed'
    BY DEF Handle, Overlapping, OverlapIsMissed, WorksOn
  <1>5. AppliedAreRequests'
    BY <1>1, <1>2
       DEF Touches, StepInv, AppliedAreRequests, ProcessInv, EntityInv, Stage1Inv,
           Stage1TypeOK
  <1>6. ItemsStay
    <2>1. NewItem(TRUE) \in Item
      BY DEF NewItem, Item, Status
    <2> QED
      BY <1>1, <1>3, <2>1 DEF ItemsStay, MovesTo, ProcessInv, EntityInv, TypeOK
  <1>7. ASSUME NEW i \in Ids \ missed'
        PROVE  InStep(i)'
    <2>1. i \in Ids \ missed
      BY DEF Handle
    <2>2. InStep(i)
      BY <2>1 DEF StepInv
    <2> QED
      BY <1>1, <1>6, <2>1, <2>2, HandleStaysInStep
  <1> QED
    BY <1>1, <1>4, <1>5, <1>7 DEF StepInv

\* A step around the handlers.
LEMMA EnvironmentKeepsSteps ==
    ASSUME StepInv, ProcessInv',
           UNCHANGED requests, missed \subseteq missed',
           \/ UNCHANGED handlers
           \/ \A h \in Handlers : handlers'[h].pc = "idle",
           \A r \in applied' \ applied : requests[r] \in Request,
           \A i \in Ids \ missed' : InStep(i) => InStep(i)'
    PROVE  StepInv'
  <1>1. OverlapIsMissed'
    BY DEF StepInv, OverlapIsMissed, WorksOn
  <1>2. AppliedAreRequests'
    BY DEF StepInv, AppliedAreRequests, Request, Body
  <1>3. ASSUME NEW i \in Ids \ missed'
        PROVE  InStep(i)'
    BY <1>3 DEF StepInv
  <1> QED
    BY <1>1, <1>2, <1>3 DEF StepInv

LEMMA StepInvInit ==
    ProcessInit => StepInv
  <1> SUFFICES ASSUME ProcessInit PROVE StepInv
    OBVIOUS
  <1>1. /\ \A h \in Handlers : handlers[h].pc = "idle"
        /\ db = [i \in Ids |-> Null] /\ applied = {}
        /\ late = [r \in Rids |-> 0]
    BY DEF ProcessInit, Init, Stage1Init, Ended
  <1>2. \A i \in Ids : InStep(i)
    BY <1>1 DEF InStep, WorksOn, IsLate
  <1> QED
    BY <1>1, <1>2, ProcessInvInit DEF StepInv, OverlapIsMissed, AppliedAreRequests, WorksOn

LEMMA StepInvNext ==
    StepInv /\ [ProcessNext]_processVars => StepInv'
  <1> SUFFICES ASSUME StepInv, [ProcessNext]_processVars PROVE StepInv'
    OBVIOUS
  <1>1. ProcessInv /\ ProcessInv'
    BY ProcessInvNext DEF StepInv
  <1>2. ASSUME NEW p \in Runs, Outbox!RunStep(p), UNCHANGED <<db, handlers, missed>>
        PROVE  StepInv'
    <2>1. PICK k \in Outbox!Run : RunMovesTo(p, k)
      BY <1>1, <1>2, FindMoves, GiveUpMoves, RetryMoves, RetryThrowsMoves, AnswerIsRead,
         SaveItemMoves
         DEF Outbox!RunStep, Outbox!Start, Outbox!Work
    <2>2. UNCHANGED <<requests, applied>>
      BY <2>1 DEF RunMovesTo
    <2>3. \A i \in Ids \ missed' : InStep(i) => InStep(i)'
      BY <1>1, <1>2, RunStaysInStep
    <2> QED
      BY <1>1, <1>2, <2>2, <2>3, EnvironmentKeepsSteps
  <1>3. ASSUME Outbox!Tick, UNCHANGED <<db, handlers, missed>>
        PROVE  StepInv'
    <2>1. PICK r \in Rids : Outbox!BecomeDue(r)
      BY <1>3 DEF Outbox!Tick
    <2>2. PICK new : new = [outbox[r] EXCEPT !.due = TRUE]
      OBVIOUS
    <2>3. UNCHANGED stage1Vars /\ outbox' = [outbox EXCEPT ![r] = new]
      BY <2>1, <2>2 DEF Outbox!BecomeDue, Outbox!stage1Vars, stage1Vars
    <2>4. outbox[r] \in Item
      BY <1>1, <2>1 DEF Outbox!BecomeDue, ProcessInv, EntityInv, TypeOK
    <2>5. new \in Item
      BY <2>2, <2>4 DEF Item
    <2>6. ItemsStay
      BY <1>1, <2>3, <2>5 DEF ItemsStay, ProcessInv, EntityInv, TypeOK
    <2>7. \A i \in Ids \ missed' : InStep(i) => InStep(i)'
      <3>1. \A i \in Ids, q \in Rids : IsLate(q, i)' => IsLate(q, i)
        BY <2>3 DEF IsLate, stage1Vars
      <3>2. \A i \in Ids : Agrees(i) => Agrees(i)'
        BY <1>1, <1>3, <2>3, <2>6, AgreesStays DEF stage1Vars, ProcessInv, HandOver
      <3> QED
        BY <1>1, <1>3, <2>3, <2>6, <3>1, <3>2, QuietStaysInStep DEF stage1Vars
    <2> QED
      BY <1>1, <1>3, <2>3, <2>7, EnvironmentKeepsSteps DEF stage1Vars
  <1>4. ASSUME Stage1Step, UNCHANGED <<db, handlers, outbox, runs, missed>>
        PROVE  StepInv'
    <2>1. UNCHANGED requests
      BY <1>1, <1>4, Stage1StepKeeps DEF ProcessInv, EntityInv
    <2>2. \A r \in applied' \ applied : requests[r] \in Request
      BY <1>1, <1>4 DEF Stage1Step, Apply, ApplyLate, LoseLate, Upsert, ProcessInv,
                        EntityInv, Stage1Inv, CallsAreRequests, LateAreRequests
    <2>3. \A i \in Ids \ missed' : InStep(i) => InStep(i)'
      BY <1>4, Stage1StaysInStep
    <2> QED
      BY <1>1, <1>4, <2>1, <2>2, <2>3, EnvironmentKeepsSteps
  <1>5. ASSUME ProcessCrash
        PROVE  StepInv'
    <2>1. /\ \A h \in Handlers : handlers'[h].pc = "idle"
          /\ UNCHANGED <<requests, applied, outbox>>
          /\ missed \subseteq missed'
      BY <1>5 DEF ProcessCrash, Crash, Ended
    <2>2. \A i \in Ids \ missed' : InStep(i) => InStep(i)'
      BY <1>1, <1>5, CrashStaysInStep
    <2> QED
      BY <1>1, <2>1, <2>2, EnvironmentKeepsSteps
  <1>6. ASSUME UNCHANGED processVars
        PROVE  StepInv'
    <2>1. UNCHANGED <<stage1Vars, db, handlers, outbox, missed>>
      BY <1>6 DEF processVars, vars, serviceVars
    <2>2. /\ ItemsStay
          /\ \A i \in Ids, q \in Rids : IsLate(q, i)' => IsLate(q, i)
          /\ \A i \in Ids : Agrees(i) => Agrees(i)'
      BY <2>1, QuietAgrees DEF IsLate, ItemsStay, stage1Vars
    <2>3. \A i \in Ids \ missed' : InStep(i) => InStep(i)'
      BY <1>1, <2>1, <2>2, QuietStaysInStep DEF stage1Vars
    <2> QED
      BY <1>1, <2>1, <2>3, EnvironmentKeepsSteps DEF stage1Vars
  <1> QED
    BY <1>2, <1>3, <1>4, <1>5, <1>6, HandleKeepsSteps DEF ProcessNext

\* For any number of handlers and runs and all faults: while no handler works
\* on an entity, Stage 1 differs from the document only if it lacks the request
\* of an item or has just what an item says, or if a crash, a save or an
\* enqueue that was rejected, or a second handler on the same document came in
\* between.
THEOREM DivergencesHaveCauses == ProcessSpec => []DivergenceHasACause
  <1>1. StepInv => DivergenceHasACause
    <2> SUFFICES ASSUME StepInv, NEW i \in Ids \ missed, db[i] # Null,
                        \A h \in Handlers : handlers[h].id # i,
                        remote[i] # BodyOf(db[i])
                 PROVE  Explained(i)
      BY DEF DivergenceHasACause
    <2>1. ItemSays(i)
      BY DEF StepInv, InStep, WorksOn, Agrees
    <2> QED
      BY <2>1, NullIsNoRecord DEF ItemSays, Explained
  <1> QED
    BY <1>1, StepInvInit, StepInvNext, PTL DEF ProcessSpec

\* A handler that is about to build its payload has in memory what is stored.
HoldsWhatIsStored ==
    \A h \in Handlers :
        handlers[h].pc = "sync" /\ handlers[h].id \notin missed
            => BodyOf(handlers[h].doc) = BodyOf(db[handlers[h].id])

\* The payload of create, update and delete has the values of the collection,
\* although save() refreshes nothing, unless a second handler, a crash or a
\* rejected write has come upon the same document.
THEOREM StoredIsSentUnlessMissed == ProcessSpec => []HoldsWhatIsStored
  <1>1. ASSUME StepInv, NEW h \in Handlers,
               handlers[h].pc = "sync", handlers[h].id \notin missed
        PROVE  BodyOf(handlers[h].doc) = BodyOf(db[handlers[h].id])
    <2>1. handlers[h].id \in Ids
      BY <1>1 DEF StepInv, ProcessInv, EntityInv, HandlersFit, Fits
    <2>2. InStep(handlers[h].id)
      BY <1>1, <2>1 DEF StepInv
    <2> QED
      BY <1>1, <2>1, <2>2 DEF InStep, WorksOn, LocalsInStep
  <1>2. StepInv => HoldsWhatIsStored
    BY <1>1 DEF HoldsWhatIsStored
  <1> QED
    BY <1>2, StepInvInit, StepInvNext, PTL DEF ProcessSpec

-----------------------------------------------------------------------------
(* Without a fault of the database, a crash or an overlap. *)

LEMMA GivingUpNeedsAFault ==
    ASSUME TypeOK, Faults \subseteq {"config"}, NEW h \in Handlers, HandlerStep(h)
    PROVE  ~GivesUp(h)
  <1> SUFFICES ASSUME GivesUp(h)
               PROVE  FALSE
    OBVIOUS
  <1>1. /\ handlers'[h].pc = "idle"
        /\ handlers[h].pc \in {"save", "enqueue"}
        /\ handlers[h].pc = "save" => db' # db
    BY DEF GivesUp
  <1>2. CASE Save(h) \/ Enqueue(h)
    <2>1. handlers[h] \in Handler
      BY DEF TypeOK
    <2>2. /\ [handlers[h] EXCEPT !.pc = "last_sync"].pc # "idle"
          /\ \A memory :
                [handlers[h] EXCEPT !.pc = "sync", !.dirty = {}, !.doc = memory].pc # "idle"
      BY <2>1 DEF Handler
    <2>3. PICK l : handlers' = [handlers EXCEPT ![h] = l] /\ l.pc # "idle"
      BY <1>2, <2>2 DEF Save, Enqueue, TypeOK
    <2> QED
      BY <1>1, <2>3 DEF TypeOK
  <1>3. CASE ~Save(h) /\ ~Enqueue(h)
    BY <1>1, <1>3 DEF HandlerStep, Create, UseExisting, FindOne, Delete, Update, Idle, At,
                SaveFails, SaveUnconfirmed, Synchronise, Sync, SyncThrows, LambdaOk,
                LambdaFails, EnqueueFails, EnqueueUnconfirmed, SaveLastSync,
                SaveLastSyncFails
  <1> QED
    BY <1>2, <1>3

\* The causes that DivergenceHasACause excepts are absent.
LEMMA NothingIsMissed ==
    ASSUME ProcessInv, DeleteInv', OneAtATime', Faults \subseteq {"config"},
           missed = {}, [ProcessNext]_processVars
    PROVE  missed' = {}
  <1>1. ASSUME NEW h \in Handlers, Handle(h)
        PROVE  missed' = {}
    <2>1. Overlapping' = {}
      BY NullIsNoId DEF DeleteInv, IdleHasNone, OneAtATime, Idle, Overlapping
    <2>2. ~GivesUp(h)
      BY <1>1, GivingUpNeedsAFault DEF Handle, ProcessInv, EntityInv
    <2> QED
      BY <1>1, <2>1, <2>2 DEF Handle
  <1>2. ~ProcessCrash
    BY DEF ProcessCrash, Crash
  <1> QED
    BY <1>1, <1>2 DEF ProcessNext, processVars

\* While no handler works on an entity, Stage 1 has what is stored or an item
\* explains the difference.
DivergenceIsExplained ==
    \A i \in Ids :
        /\ db[i] # Null
        /\ \A h \in Handlers : handlers[h].id # i
        /\ remote[i] # BodyOf(db[i])
        => Explained(i)

\* In a process whose database answers and that does not stop, as long as no
\* two requests change one document at the same time: whenever Stage 1 differs
\* from what is stored, it lacks the request of an item or has just what an
\* item says, whatever Stage 1 and the network do.
THEOREM DivergenceIsExplainedUnlessOverlap ==
    ASSUME Faults \subseteq {"config"}
    PROVE  ProcessSpec => ([]OneAtATime => []DivergenceIsExplained)
  <1>1. ProcessInit => DeleteInv /\ missed = {}
    BY DeleteInvInit DEF ProcessInit
  <1>2. /\ ProcessInv /\ DeleteInv /\ missed = {}
        /\ OneAtATime'
        /\ [ProcessNext]_processVars
        => DeleteInv' /\ (missed = {})'
    BY DeleteInvHere, NothingIsMissed
  <1>3. missed = {} /\ DivergenceHasACause => DivergenceIsExplained
    BY DEF DivergenceHasACause, DivergenceIsExplained
  <1> QED
    BY <1>1, <1>2, <1>3, ProcessInvInit, ProcessInvNext, DivergencesHaveCauses, PTL
       DEF ProcessSpec

=============================================================================
