------------------------ MODULE OutboxServiceProofs ------------------------
(***************************************************************************)
(* Theorems about OutboxService for any number of overlapping runs, items, *)
(* attempts and any batch limit.                                           *)
(***************************************************************************)
EXTENDS OutboxService, Stage1Proofs

\* A run that calls or saves has an item in hand.
ItemInHand ==
    \A p \in Runs : runs[p].pc \in {"await", "save", "catch"} => runs[p].item \in Local

\* The call a run awaits is the one for that item.
CallIsForItem ==
    \A p \in Runs : runs[p].pc = "await"
        => calls[p].request_id = runs[p].item.request_id

\* A run about to save SENT has read Stage 1's acknowledgement.
SentInHandWasApplied ==
    \A p \in Runs : runs[p].pc \in {"save", "catch"} /\ runs[p].item.status = "SENT"
        => runs[p].item.request_id \in applied

\* What a run has in memory is still stored: nothing removes an item.
MemoryIsStored ==
    \A p \in Runs :
        /\ \A item \in runs[p].batch : outbox[item.request_id] \in Item
        /\ runs[p].pc \in {"await", "save", "catch"}
             => outbox[runs[p].item.request_id] \in Item

\* An item carries the payload it was queued with.
RequestsKept == \A r \in Rids : outbox[r] \in Item => requests[r] \in Request

\* Every invariant of the module rests on the ones before it in this list.
OutboxInv ==
    /\ Stage1Inv
    /\ TypeOK
    /\ RequestsKept
    /\ ItemInHand
    /\ CallIsForItem
    /\ MemoryIsStored
    /\ SentInHandWasApplied
    /\ SentWasApplied
    /\ AttemptsWithinMax

\* Going on with part of a batch leaves a well-formed run (Continue).
LEMMA ContinueType ==
    ASSUME NEW batch \in SUBSET Local
    PROVE  /\ Continue(batch) \in Run
           /\ Continue(batch).pc \in {"idle", "next"}
           /\ Continue(batch).batch \subseteq batch
  BY DEF Continue, Run, NoRun

\* Setting a status leaves an item an item of the same request (SetStatus).
LEMMA SetStatusType ==
    ASSUME NEW item \in Local, NEW status \in Status
    PROVE  /\ SetStatus(item, status) \in Local
           /\ SetStatus(item, status).request_id = item.request_id
           /\ SetStatus(item, status).attempts = item.attempts
           /\ SetStatus(item, status).status = status
  BY DEF SetStatus, Local

\* A step of a run that touches neither Stage 1 nor the outbox.
LEMMA RunMoves ==
    ASSUME OutboxInv, UNCHANGED <<stage1Vars, outbox>>,
           NEW p \in Runs, NEW run \in Run,
           runs' = [runs EXCEPT ![p] = run],
           \A item \in run.batch : outbox[item.request_id] \in Item,
           run.pc # "await",
           run.pc \in {"save", "catch"} =>
              /\ run.item \in Local
              /\ outbox[run.item.request_id] \in Item
              /\ run.item.status # "SENT"
              /\ run.item.attempts <= MaxAttempts
    PROVE  OutboxInv'
  <1>1. Stage1Inv'
    BY StutterKeeps DEF OutboxInv
  <1>2. TypeOK'
    BY <1>1 DEF OutboxInv, TypeOK, Stage1Inv
  <1>3. (ItemInHand /\ CallIsForItem /\ SentInHandWasApplied)'
    BY DEF OutboxInv, TypeOK, Run, ItemInHand, CallIsForItem,
           SentInHandWasApplied, stage1Vars
  <1>4. MemoryIsStored'
    BY DEF OutboxInv, TypeOK, Run, MemoryIsStored
  <1>5. (RequestsKept /\ SentWasApplied /\ AttemptsWithinMax)'
    BY DEF OutboxInv, TypeOK, Run, RequestsKept, SentWasApplied, AttemptsWithinMax,
           stage1Vars
  <1> QED
    BY <1>1, <1>2, <1>3, <1>4, <1>5 DEF OutboxInv

\* A step of a run that saves one item and goes on with its batch, or with the
\* same item in the catch block.
LEMMA ItemSaved ==
    ASSUME OutboxInv, UNCHANGED stage1Vars,
           NEW p \in Runs, NEW run \in Run,
           runs' = [runs EXCEPT ![p] = run],
           run.batch \subseteq runs[p].batch,
           run.pc \in {"idle", "next", "catch"},
           NEW q \in Rids, NEW item \in Item, outbox[q] \in Item,
           run.pc = "catch" =>
              /\ run.item \in Local
              /\ run.item.request_id = q
              /\ run.item.status # "SENT"
              /\ run.item.attempts <= MaxAttempts,
           outbox' = [outbox EXCEPT ![q] = item],
           item.status = "SENT" => q \in applied,
           item.attempts <= MaxAttempts
    PROVE  OutboxInv'
  <1>1. Stage1Inv'
    BY StutterKeeps DEF OutboxInv
  <1>2. TypeOK'
    BY <1>1 DEF OutboxInv, TypeOK, Stage1Inv
  <1>3. (ItemInHand /\ CallIsForItem /\ SentInHandWasApplied)'
    BY DEF OutboxInv, TypeOK, Run, ItemInHand, CallIsForItem,
           SentInHandWasApplied, stage1Vars
  <1>4. MemoryIsStored'
    BY DEF OutboxInv, TypeOK, Run, Local, MemoryIsStored, ItemInHand
  <1>5. (RequestsKept /\ SentWasApplied /\ AttemptsWithinMax)'
    BY DEF OutboxInv, TypeOK, Run, RequestsKept, SentWasApplied, AttemptsWithinMax,
           stage1Vars
  <1> QED
    BY <1>1, <1>2, <1>3, <1>4, <1>5 DEF OutboxInv

\* A step that changes sync_outbox, if at all, by queueing new items.
OnlyQueues ==
    \A r \in Rids :
        \/ outbox'[r] = outbox[r]
        \/ outbox[r] \notin Item /\ outbox'[r] = NewItem(TRUE)

\* A step of the environment: Stage 1, whoever queues a new item, or the death
\* of the process.
LEMMA EnvironmentKeeps ==
    ASSUME OutboxInv, Stage1Inv', RequestsKept', applied \subseteq applied',
           \/ /\ UNCHANGED runs
              /\ \A p \in Runs : calls'[p].request_id = calls[p].request_id
           \/ runs' = [p \in Runs |-> NoRun],
           outbox' \in [Rids -> Item \cup {Null}],
           OnlyQueues
    PROVE  OutboxInv'
  <1>1. TypeOK'
    BY DEF OutboxInv, TypeOK, Stage1Inv, NoRun, Run
  <1>2. \A r \in Rids : outbox[r] \in Item => outbox'[r] \in Item
    BY DEF OnlyQueues
  <1>3. (ItemInHand /\ CallIsForItem /\ SentInHandWasApplied)'
    BY DEF OutboxInv, ItemInHand, CallIsForItem, SentInHandWasApplied, NoRun
  <1>4. MemoryIsStored'
    <2>1. CASE UNCHANGED runs
      <3>1. \A p \in Runs :
              /\ runs[p].batch \subseteq Local
              /\ runs[p].pc \in {"await", "save", "catch"} => runs[p].item \in Local
        BY DEF OutboxInv, TypeOK, Run, ItemInHand
      <3>2. \A item \in Local : item.request_id \in Rids
        BY DEF Local
      <3> QED
        BY <2>1, <1>2, <3>1, <3>2 DEF OutboxInv, MemoryIsStored
    <2>2. CASE runs' = [p \in Runs |-> NoRun]
      BY <2>2 DEF MemoryIsStored, NoRun
    <2> QED
      BY <2>1, <2>2
  <1>5. NewItem(TRUE).status = "FAILED" /\ NewItem(TRUE).attempts = 0
    BY DEF NewItem
  <1>6. SentWasApplied'
    BY <1>5 DEF OutboxInv, SentWasApplied, OnlyQueues
  <1>7. AttemptsWithinMax'
    <2>1. ASSUME NEW r \in Rids, outbox'[r] # Null
          PROVE  outbox'[r].attempts <= MaxAttempts
      <3>1. 0 <= MaxAttempts
        BY OutboxServiceAssumption
      <3>2. NewItem(TRUE).attempts <= MaxAttempts
        BY <3>1 DEF NewItem
      <3>3. outbox[r] # Null => outbox[r].attempts <= MaxAttempts
        BY DEF OutboxInv, AttemptsWithinMax
      <3>4. outbox'[r] \in {outbox[r], NewItem(TRUE)}
        BY DEF OnlyQueues
      <3> QED
        BY <2>1, <3>2, <3>3, <3>4
    <2>2. CASE UNCHANGED runs
      BY <2>1, <2>2 DEF OutboxInv, AttemptsWithinMax
    <2>3. CASE runs' = [p \in Runs |-> NoRun]
      BY <2>1, <2>3 DEF AttemptsWithinMax, NoRun
    <2> QED
      BY <2>1, <2>2, <2>3
  <1> QED
    BY <1>1, <1>3, <1>4, <1>6, <1>7 DEF OutboxInv

LEMMA FindKeeps ==
    ASSUME OutboxInv, NEW p \in Runs, NEW s \in SUBSET Rids, Find(p, s)
    PROVE  OutboxInv'
  <1> DEFINE batch == {Loaded(r) : r \in s}
  <1>1. ASSUME NEW r \in s
        PROVE  Loaded(r) \in Local /\ outbox[Loaded(r).request_id] \in Item
    <2>1. Due(r)
      BY DEF Find, Batches
    <2>2. outbox[r] \in Item
      BY <2>1 DEF Due, OutboxInv, TypeOK
    <2> QED
      BY <2>2 DEF Loaded, Local, Item
  <1>2. batch \in SUBSET Local
    BY <1>1
  <1>3. \A item \in batch : outbox[item.request_id] \in Item
    BY <1>1
  <1>4. runs' = [runs EXCEPT ![p] = Continue(batch)]
    BY DEF Find
  <1> HIDE DEF batch
  <1> QED
    BY <1>2, <1>3, <1>4, ContinueType, RunMoves DEF Find

LEMMA GiveUpKeeps ==
    ASSUME OutboxInv, NEW p \in Runs, NEW loaded \in runs[p].batch, GiveUp(p, loaded)
    PROVE  OutboxInv'
  <1> DEFINE item == SetStatus(loaded, "FAILED")
             rest == runs[p].batch \ {loaded}
             q == loaded.request_id
             status == IF item.dirty THEN item.status ELSE outbox[q].status
  <1>1. runs[p].batch \in SUBSET Local /\ loaded \in Local
    BY DEF OutboxInv, TypeOK, Run
  <1>2. item \in Local /\ item.status = "FAILED" /\ item.request_id = q
    BY <1>1, SetStatusType DEF Status
  <1>3. Continue(rest) \in Run /\ Continue(rest).pc \in {"idle", "next"}
        /\ Continue(rest).batch \subseteq runs[p].batch
    BY <1>1, ContinueType
  <1>4. /\ runs' = [runs EXCEPT ![p] = Continue(rest)]
        /\ \/ outbox' = [outbox EXCEPT ![q].status = status]
           \/ outbox' = outbox
        /\ UNCHANGED stage1Vars
    BY <1>2 DEF GiveUp
  <1>5. outbox[q] \in Item /\ q \in Rids
    BY <1>1 DEF OutboxInv, MemoryIsStored, Local
  <1>6. \A other \in Continue(rest).batch : outbox[other.request_id] \in Item
    BY <1>3 DEF OutboxInv, MemoryIsStored
  <1>7. status \in Status /\ (status = "SENT" => outbox[q].status = "SENT")
    BY <1>2, <1>5 DEF Item, Status
  <1> HIDE DEF item, rest, status, q
  <1>8. CASE outbox' = outbox
    BY <1>3, <1>4, <1>6, <1>8, RunMoves
  <1>9. CASE outbox' = [outbox EXCEPT ![q].status = status]
    <2> DEFINE new == [outbox[q] EXCEPT !.status = status]
    <2>1. outbox \in [Rids -> Item \cup {Null}]
      BY DEF OutboxInv, TypeOK
    <2>2. new \in Item /\ new.status = status /\ new.attempts = outbox[q].attempts
      BY <1>5, <1>7 DEF Item
    <2>3. outbox' = [outbox EXCEPT ![q] = new]
      BY <1>9
    <2>4. /\ outbox[q].attempts <= MaxAttempts
          /\ status = "SENT" => q \in applied
      BY <1>5, <1>7, OutboxServiceAssumption
         DEF OutboxInv, AttemptsWithinMax, SentWasApplied
    <2> HIDE DEF new
    <2> QED
      BY <1>3, <1>4, <1>5, <2>2, <2>3, <2>4, ItemSaved
  <1> QED
    BY <1>4, <1>8, <1>9

LEMMA RetryKeeps ==
    ASSUME OutboxInv, NEW p \in Runs, NEW loaded \in runs[p].batch, Retry(p, loaded)
    PROVE  OutboxInv'
  <1> DEFINE item == [loaded EXCEPT !.attempts = @ + 1]
             run == [pc |-> "await", batch |-> runs[p].batch \ {loaded},
                     item |-> item]
  <1>1. runs[p].batch \in SUBSET Local /\ loaded \in Local /\ p \in Callers
    BY OutboxServiceAssumption DEF OutboxInv, TypeOK, Run
  <1>2. item \in Local /\ item.request_id = loaded.request_id
        /\ item.attempts = loaded.attempts + 1
    BY <1>1 DEF Local
  <1>3. item.attempts <= MaxAttempts
    BY <1>1, <1>2, OutboxServiceAssumption DEF Retry, Exhausted, Local
  <1>4. /\ runs' = [runs EXCEPT ![p] = run]
        /\ Post(p, loaded.request_id)
        /\ UNCHANGED <<requests, late, remote, applied, outbox>>
    BY DEF Retry
  <1>5. loaded.request_id \in Rids /\ requests[loaded.request_id] \in Request
    BY <1>1 DEF OutboxInv, MemoryIsStored, RequestsKept, Local
  <1>6. Stage1Inv'
    BY <1>1, <1>4, <1>5, PostKeeps DEF OutboxInv, Stage1Inv, Stage1TypeOK
  <1>7. calls' = [calls EXCEPT ![p] = [st |-> "sent", request_id |-> loaded.request_id]]
        /\ calls \in [Callers -> Call]
    BY <1>4 DEF Post, OutboxInv, Stage1Inv, Stage1TypeOK
  <1> HIDE DEF item
  <1>8. run \in Run
    BY <1>1, <1>2 DEF Run
  <1>9. TypeOK'
    BY <1>4, <1>6, <1>8 DEF OutboxInv, TypeOK, Stage1Inv
  <1>10. (ItemInHand /\ CallIsForItem /\ SentInHandWasApplied)'
    BY <1>1, <1>2, <1>4, <1>7, OutboxServiceAssumption
       DEF OutboxInv, TypeOK, Run, ItemInHand, CallIsForItem, SentInHandWasApplied
  <1>11. MemoryIsStored'
    BY <1>2, <1>4 DEF OutboxInv, TypeOK, MemoryIsStored
  <1>12. (RequestsKept /\ SentWasApplied /\ AttemptsWithinMax)'
    BY <1>3, <1>4 DEF OutboxInv, TypeOK, RequestsKept, SentWasApplied, AttemptsWithinMax
  <1> QED
    BY <1>6, <1>9, <1>10, <1>11, <1>12 DEF OutboxInv

LEMMA RetryThrowsKeeps ==
    ASSUME OutboxInv, NEW p \in Runs, NEW loaded \in runs[p].batch,
           RetryThrows(p, loaded)
    PROVE  OutboxInv'
  <1> DEFINE counted == [loaded EXCEPT !.attempts = @ + 1]
             item == SetStatus(counted, "FAILED")
             run == [pc |-> "catch", batch |-> runs[p].batch \ {loaded},
                     item |-> item]
  <1>1. runs[p].batch \in SUBSET Local /\ loaded \in Local
    BY DEF OutboxInv, TypeOK, Run
  <1>2. counted \in Local /\ counted.request_id = loaded.request_id
        /\ counted.attempts <= MaxAttempts
    BY <1>1, OutboxServiceAssumption DEF RetryThrows, Exhausted, Local
  <1>3. runs' = [runs EXCEPT ![p] = run] /\ UNCHANGED <<stage1Vars, outbox>>
    BY DEF RetryThrows
  <1> HIDE DEF counted
  <1>4. item \in Local /\ item.request_id = loaded.request_id
        /\ item.attempts <= MaxAttempts /\ item.status = "FAILED"
    BY <1>2, SetStatusType DEF Status
  <1> HIDE DEF item
  <1>5. run \in Run
    BY <1>1, <1>4 DEF Run
  <1>6. /\ \A other \in run.batch : outbox[other.request_id] \in Item
        /\ outbox[run.item.request_id] \in Item
    BY <1>4 DEF OutboxInv, MemoryIsStored
  <1>7. run.pc = "catch" /\ run.item = item
    OBVIOUS
  <1> HIDE DEF run
  <1> QED
    BY <1>3, <1>4, <1>5, <1>6, <1>7, RunMoves

\* A run that has read an answer has the same item in hand, with a status.
LEMMA AnswerShape ==
    ASSUME NEW run \in Run, run.item \in Local, NEW status \in Status
    PROVE  \E new \in Run :
              /\ new = [run EXCEPT !.pc = "save", !.item = SetStatus(@, status)]
              /\ new.pc = "save"
              /\ new.batch = run.batch
              /\ new.item \in Local
              /\ new.item.request_id = run.item.request_id
              /\ new.item.attempts = run.item.attempts
              /\ new.item.status = status
  <1> DEFINE item == SetStatus(run.item, status)
             new == [run EXCEPT !.pc = "save", !.item = item]
  <1>1. item \in Local /\ item.request_id = run.item.request_id
        /\ item.attempts = run.item.attempts /\ item.status = status
    BY SetStatusType
  <1> HIDE DEF item
  <1>2. new \in Run /\ new.pc = "save" /\ new.item = item /\ new.batch = run.batch
    BY <1>1 DEF Run
  <1>3. new = [run EXCEPT !.pc = "save", !.item = SetStatus(@, status)]
    BY DEF item
  <1> HIDE DEF new
  <1> QED
    BY <1>1, <1>2, <1>3

\* The run reads the answer of its call and is about to save the item.
LEMMA AnswerRead ==
    ASSUME OutboxInv, Stage1Inv', NEW p \in Runs, NEW run \in Run,
           runs[p].pc = "await",
           runs' = [runs EXCEPT ![p] = run],
           run.pc = "save",
           run.batch = runs[p].batch,
           run.item \in Local,
           run.item.request_id = runs[p].item.request_id,
           run.item.attempts = runs[p].item.attempts,
           run.item.status = "SENT" => run.item.request_id \in applied,
           \A c \in Callers \ {p} : calls'[c] = calls[c],
           UNCHANGED <<requests, remote, applied, outbox>>
    PROVE  OutboxInv'
  <1>1. TypeOK'
    BY DEF OutboxInv, TypeOK, Stage1Inv
  <1>2. runs'[p] = run /\ \A other \in Runs \ {p} : runs'[other] = runs[other]
    BY DEF OutboxInv, TypeOK
  <1>3. (ItemInHand /\ SentInHandWasApplied)'
    BY <1>2 DEF OutboxInv, ItemInHand, SentInHandWasApplied
  <1>4. CallIsForItem'
    BY <1>2, OutboxServiceAssumption DEF OutboxInv, CallIsForItem
  <1>5. MemoryIsStored'
    BY <1>2 DEF OutboxInv, MemoryIsStored
  <1>6. (RequestsKept /\ SentWasApplied /\ AttemptsWithinMax)'
    BY <1>2 DEF OutboxInv, RequestsKept, SentWasApplied, AttemptsWithinMax
  <1> QED
    BY <1>1, <1>3, <1>4, <1>5, <1>6 DEF OutboxInv

LEMMA RetryOkKeeps ==
    ASSUME OutboxInv, NEW p \in Runs, RetryOk(p)
    PROVE  OutboxInv'
  <1>1. ReadOk(p) /\ p \in Callers /\ runs[p].pc = "await"
        /\ UNCHANGED <<requests, remote, applied, outbox>>
    BY OutboxServiceAssumption DEF RetryOk, At
  <1>2. Stage1Inv' /\ calls[p].request_id \in applied
    BY <1>1, ReadOkKeeps DEF OutboxInv
  <1>3. runs[p].item.request_id \in applied
    BY <1>1, <1>2 DEF OutboxInv, CallIsForItem
  <1>4. \A c \in Callers \ {p} : calls'[c] = calls[c]
    BY <1>1 DEF ReadOk, OutboxInv, Stage1Inv, Stage1TypeOK
  <1>5. runs[p] \in Run /\ runs[p].item \in Local
    BY <1>1 DEF OutboxInv, TypeOK, ItemInHand
  <1>6. PICK run \in Run :
          /\ run = [runs[p] EXCEPT !.pc = "save", !.item = SetStatus(@, "SENT")]
          /\ run.pc = "save"
          /\ run.batch = runs[p].batch
          /\ run.item \in Local
          /\ run.item.request_id = runs[p].item.request_id
          /\ run.item.attempts = runs[p].item.attempts
    BY <1>5, AnswerShape DEF Status
  <1>7. runs' = [runs EXCEPT ![p] = run]
    BY <1>6 DEF RetryOk, OutboxInv, TypeOK
  <1> QED
    BY <1>1, <1>2, <1>3, <1>4, <1>6, <1>7, AnswerRead

LEMMA RetryFailsKeeps ==
    ASSUME OutboxInv, NEW p \in Runs, RetryFails(p)
    PROVE  OutboxInv'
  <1>1. ReadFailure(p) /\ p \in Callers /\ runs[p].pc = "await"
        /\ UNCHANGED <<requests, remote, applied, outbox>>
    BY OutboxServiceAssumption DEF RetryFails, At
  <1>2. Stage1Inv'
    BY <1>1, ReadFailureKeeps DEF OutboxInv
  <1>3. \A c \in Callers \ {p} : calls'[c] = calls[c]
    BY <1>1 DEF ReadFailure, OutboxInv, Stage1Inv, Stage1TypeOK
  <1>4. runs[p] \in Run /\ runs[p].item \in Local
    BY <1>1 DEF OutboxInv, TypeOK, ItemInHand
  <1>5. PICK run \in Run :
          /\ run = [runs[p] EXCEPT !.pc = "save", !.item = SetStatus(@, "FAILED")]
          /\ run.pc = "save"
          /\ run.batch = runs[p].batch
          /\ run.item \in Local
          /\ run.item.request_id = runs[p].item.request_id
          /\ run.item.attempts = runs[p].item.attempts
          /\ run.item.status = "FAILED"
    BY <1>4, AnswerShape DEF Status
  <1>6. runs' = [runs EXCEPT ![p] = run]
    BY <1>5 DEF RetryFails, OutboxInv, TypeOK
  <1> QED
    BY <1>1, <1>2, <1>3, <1>5, <1>6, AnswerRead

LEMMA SaveItemKeeps ==
    ASSUME OutboxInv, NEW p \in Runs, SaveItem(p)
    PROVE  OutboxInv'
  <1> DEFINE item == runs[p].item
             q == item.request_id
             new == [status   |-> IF item.dirty THEN item.status ELSE outbox[q].status,
                     attempts |-> item.attempts,
                     due      |-> FALSE]
             rest == runs[p].batch
  <1>1. /\ runs[p].pc \in {"save", "catch"}
        /\ outbox' = [outbox EXCEPT ![q] = new]
        /\ runs' = [runs EXCEPT ![p] = Continue(rest)]
        /\ UNCHANGED stage1Vars
    BY DEF SaveItem, At
  <1>2. item \in Local /\ q \in Rids /\ outbox[q] \in Item /\ rest \in SUBSET Local
    BY <1>1 DEF OutboxInv, ItemInHand, MemoryIsStored, TypeOK, Run, Local
  <1>3. new \in Item
    BY <1>2 DEF Local, Item
  <1>4. new.status = "SENT" => q \in applied
    BY <1>1, <1>2, OutboxServiceAssumption
       DEF OutboxInv, SentInHandWasApplied, SentWasApplied
  <1>5. new.attempts <= MaxAttempts
    BY <1>1 DEF OutboxInv, AttemptsWithinMax
  <1> HIDE DEF new, rest, q
  <1>6. /\ Continue(rest) \in Run
        /\ Continue(rest).pc \in {"idle", "next"}
        /\ Continue(rest).batch \subseteq rest
    BY <1>2, ContinueType
  <1> QED
    BY <1>1, <1>2, <1>3, <1>4, <1>5, <1>6, ItemSaved DEF rest

LEMMA SaveItemFailsKeeps ==
    ASSUME OutboxInv, NEW p \in Runs, SaveItemFails(p)
    PROVE  OutboxInv'
  <1> DEFINE item == SetStatus(runs[p].item, "FAILED")
             run == [runs[p] EXCEPT !.pc = "catch", !.item = item]
  <1>1. /\ runs[p].pc = "save"
        /\ runs' = [runs EXCEPT ![p].pc = "catch",
                               ![p].item = SetStatus(@, "FAILED")]
        /\ UNCHANGED <<stage1Vars, outbox>>
    BY DEF SaveItemFails, At
  <1>2. runs[p] \in Run /\ runs[p].item \in Local
    BY <1>1 DEF OutboxInv, TypeOK, ItemInHand
  <1>3. /\ item \in Local
        /\ item.request_id = runs[p].item.request_id
        /\ item.attempts = runs[p].item.attempts
        /\ item.status = "FAILED"
    BY <1>2, SetStatusType DEF Status
  <1>4. runs' = [runs EXCEPT ![p] = run]
    BY <1>1 DEF OutboxInv, TypeOK
  <1> HIDE DEF item
  <1>5. run \in Run /\ run.pc = "catch" /\ run.item = item
        /\ run.batch = runs[p].batch
    BY <1>2, <1>3 DEF Run
  <1> HIDE DEF run
  <1>6. /\ \A other \in run.batch : outbox[other.request_id] \in Item
        /\ outbox[run.item.request_id] \in Item
        /\ run.item.attempts <= MaxAttempts
    BY <1>1, <1>3, <1>5 DEF OutboxInv, MemoryIsStored, AttemptsWithinMax
  <1> QED
    BY <1>1, <1>3, <1>4, <1>5, <1>6, RunMoves

LEMMA SaveItemUnconfirmedKeeps ==
    ASSUME OutboxInv, NEW p \in Runs, SaveItemUnconfirmed(p)
    PROVE  OutboxInv'
  <1>1. PICK old : old = runs[p]
    OBVIOUS
  <1>2. PICK item : item = old.item
    OBVIOUS
  <1>3. PICK q : q = item.request_id
    OBVIOUS
  <1>4. PICK new : new = [status   |-> IF item.dirty THEN item.status ELSE outbox[q].status,
                          attempts |-> item.attempts,
                          due      |-> FALSE]
    OBVIOUS
  <1>5. PICK failed : failed = SetStatus(item, "FAILED")
    OBVIOUS
  <1>6. PICK run : run = [old EXCEPT !.pc = "catch", !.item = failed]
    OBVIOUS
  <1>7. /\ old.pc = "save"
        /\ outbox' = [outbox EXCEPT ![q] = new]
        /\ runs' = [runs EXCEPT ![p] = run]
        /\ UNCHANGED stage1Vars
    BY <1>1, <1>2, <1>3, <1>4, <1>5, <1>6
       DEF SaveItemUnconfirmed, At, OutboxInv, TypeOK
  <1>8. old \in Run /\ item \in Local /\ q \in Rids /\ outbox[q] \in Item
    BY <1>1, <1>2, <1>3, <1>7 DEF OutboxInv, TypeOK, ItemInHand, MemoryIsStored, Local
  <1>9. new \in Item
    BY <1>4, <1>8 DEF Local, Item
  <1>10. new.status = "SENT" => q \in applied
    BY <1>1, <1>2, <1>3, <1>4, <1>7, <1>8, OutboxServiceAssumption
       DEF OutboxInv, SentInHandWasApplied, SentWasApplied
  <1>11. new.attempts <= MaxAttempts /\ item.attempts <= MaxAttempts
    BY <1>1, <1>2, <1>4, <1>7 DEF OutboxInv, AttemptsWithinMax
  <1>12. /\ failed \in Local
         /\ failed.request_id = q
         /\ failed.attempts = item.attempts
         /\ failed.status = "FAILED"
    BY <1>3, <1>5, <1>8, SetStatusType DEF Status
  <1>13. run \in Run /\ run.pc = "catch" /\ run.item = failed /\ run.batch = old.batch
    BY <1>6, <1>8, <1>12 DEF Run
  <1> QED
    BY <1>1, <1>7, <1>8, <1>9, <1>10, <1>11, <1>12, <1>13, ItemSaved

LEMMA CatchFailsKeeps ==
    ASSUME OutboxInv, NEW p \in Runs, CatchFails(p)
    PROVE  OutboxInv'
  <1> DEFINE rest == runs[p].batch
  <1>1. /\ runs' = [runs EXCEPT ![p] = Continue(rest)]
        /\ UNCHANGED <<stage1Vars, outbox>>
    BY DEF CatchFails
  <1>2. rest \in SUBSET Local /\ \A item \in rest : outbox[item.request_id] \in Item
    BY DEF OutboxInv, TypeOK, Run, MemoryIsStored
  <1> HIDE DEF rest
  <1>3. /\ Continue(rest) \in Run
        /\ Continue(rest).pc \in {"idle", "next"}
        /\ Continue(rest).batch \subseteq rest
    BY <1>2, ContinueType
  <1> QED
    BY <1>1, <1>2, <1>3, RunMoves

\* Time only makes an item due.
LEMMA BecomeDueKeeps ==
    ASSUME OutboxInv, NEW r \in Rids, BecomeDue(r)
    PROVE  OutboxInv'
  <1> DEFINE new == [outbox[r] EXCEPT !.due = TRUE]
  <1>1. outbox[r] # Null /\ outbox' = [outbox EXCEPT ![r] = new]
        /\ UNCHANGED <<stage1Vars, runs>>
    BY DEF BecomeDue
  <1>2. outbox[r] \in Item
    BY <1>1 DEF OutboxInv, TypeOK
  <1>3. new \in Item /\ new.status = outbox[r].status
        /\ new.attempts = outbox[r].attempts
    BY <1>2 DEF Item
  <1> HIDE DEF new
  <1>4. Stage1Inv'
    BY <1>1, StutterKeeps DEF OutboxInv
  <1>5. TypeOK'
    BY <1>1, <1>3, <1>4 DEF OutboxInv, TypeOK, Stage1Inv
  <1>6. (ItemInHand /\ CallIsForItem /\ SentInHandWasApplied /\ RequestsKept)'
    BY <1>1, <1>2 DEF OutboxInv, TypeOK, ItemInHand, CallIsForItem,
                      SentInHandWasApplied, RequestsKept, stage1Vars
  <1>7. MemoryIsStored'
    BY <1>1, <1>3 DEF OutboxInv, TypeOK, MemoryIsStored
  <1>8. (SentWasApplied /\ AttemptsWithinMax)'
    BY <1>1, <1>3 DEF OutboxInv, TypeOK, SentWasApplied, AttemptsWithinMax, stage1Vars
  <1> QED
    BY <1>4, <1>5, <1>6, <1>7, <1>8 DEF OutboxInv

\* The invariant is inductive.
LEMMA OutboxInvInit ==
    Init => OutboxInv
  <1> SUFFICES ASSUME Init PROVE OutboxInv
    OBVIOUS
  <1>1. Stage1TypeOK
    BY Stage1Assumption DEF Init, Stage1TypeOK, NoCall, Call
  <1>2. CallsAreRequests /\ LateAreRequests /\ AckedIsApplied
    BY DEF Init, CallsAreRequests, LateAreRequests, AckedIsApplied, NoCall
  <1>3. TypeOK
    BY <1>1 DEF Init, TypeOK, NewItem, Item, Status, NoRun, Run
  <1>4. RequestsKept /\ ItemInHand /\ CallIsForItem /\ MemoryIsStored
        /\ SentInHandWasApplied
    BY DEF Init, RequestsKept, ItemInHand, CallIsForItem, MemoryIsStored,
           SentInHandWasApplied, NoRun
  <1>5. SentWasApplied /\ AttemptsWithinMax
    BY OutboxServiceAssumption
       DEF Init, NewItem, NoRun, SentWasApplied, AttemptsWithinMax
  <1> QED
    BY <1>1, <1>2, <1>3, <1>4, <1>5 DEF OutboxInv, Stage1Inv

LEMMA OutboxInvNext ==
    OutboxInv /\ [Next]_vars => OutboxInv'
  <1> SUFFICES ASSUME OutboxInv, [Next]_vars PROVE OutboxInv'
    OBVIOUS
  <1>1. ASSUME NEW p \in Runs, Start(p) PROVE OutboxInv'
    BY <1>1, FindKeeps DEF Start
  <1>2. ASSUME NEW p \in Runs, Work(p) PROVE OutboxInv'
    BY <1>2, GiveUpKeeps, RetryKeeps, RetryThrowsKeeps, RetryOkKeeps,
       RetryFailsKeeps, SaveItemKeeps, SaveItemFailsKeeps, SaveItemUnconfirmedKeeps,
       CatchFailsKeeps DEF Work
  <1>3. ASSUME Tick PROVE OutboxInv'
    BY <1>3, BecomeDueKeeps DEF Tick
  <1>4. outbox \in [Rids -> Item \cup {Null}] /\ RequestsKept
    BY DEF OutboxInv, TypeOK
  <1>5. ASSUME Stage1Step, UNCHANGED runVars PROVE OutboxInv'
    <2>1. Stage1Inv' /\ requests' = requests /\ applied \subseteq applied'
      BY <1>5, Stage1StepKeeps DEF OutboxInv
    <2>2. \A c \in Callers : calls'[c].request_id = calls[c].request_id
      BY <1>5 DEF Stage1Step, Apply, ApplyLate, LoseLate,
                  OutboxInv, Stage1Inv, Stage1TypeOK, Call
    <2>3. RequestsKept'
      BY <1>4, <1>5, <2>1 DEF RequestsKept, runVars
    <2> QED
      BY <1>4, <1>5, <2>1, <2>2, <2>3, EnvironmentKeeps, OutboxServiceAssumption
         DEF runVars, OnlyQueues
  <1>6. ASSUME Crash PROVE OutboxInv'
    <2>1. Stage1Inv'
      BY <1>6, DropCallsKeeps DEF Crash, OutboxInv
    <2>2. RequestsKept'
      BY <1>4, <1>6 DEF Crash, RequestsKept
    <2> QED
      BY <1>4, <1>6, <2>1, <2>2, EnvironmentKeeps DEF Crash, OnlyQueues
  <1>7. ASSUME UNCHANGED vars PROVE OutboxInv'
    <2>1. Stage1Inv'
      BY <1>7, StutterKeeps DEF vars, OutboxInv
    <2>2. RequestsKept'
      BY <1>4, <1>7 DEF vars, runVars, stage1Vars, RequestsKept
    <2> QED
      BY <1>4, <1>7, <2>1, <2>2, EnvironmentKeeps
         DEF vars, runVars, stage1Vars, OnlyQueues
  <1> QED
    BY <1>1, <1>2, <1>3, <1>5, <1>6, <1>7 DEF Next, RunStep

\* Every reachable state is well typed, an item marked SENT was applied by
\* Stage 1, and no count of attempts exceeds maxAttempts, for any number of
\* overlapping runs and any mix of crashes and failing saves.
THEOREM OutboxIsSound == Spec => [](TypeOK /\ SentWasApplied /\ AttemptsWithinMax)
  <1>1. OutboxInv => TypeOK /\ SentWasApplied /\ AttemptsWithinMax
    BY DEF OutboxInv
  <1> QED
    BY <1>1, OutboxInvInit, OutboxInvNext, PTL DEF Spec

\* Every reachable state of the outbox and of its runs is well typed.
THEOREM OutboxServiceTypes == Spec => []TypeOK
  BY OutboxIsSound, PTL

\* An item marked SENT was applied by Stage 1, whatever runs overlap.
THEOREM SentIsDelivered == Spec => []SentWasApplied
  BY OutboxIsSound, PTL

\* No count of attempts, stored or in memory, exceeds maxAttempts, although
\* every run counts from what it loaded.
THEOREM AttemptsAreBounded == Spec => []AttemptsWithinMax
  BY OutboxIsSound, PTL

-----------------------------------------------------------------------------
(* SENT is final but for saves that fail. *)

\* Nothing in memory would write FAILED over a stored status: what was loaded
\* is FAILED, and so FAILED is never a modification of it; except in the catch
\* block after a save of SENT that failed.
FailedIsNeverWritten ==
    /\ \A r \in Rids : outbox[r] # Null => outbox[r].status \in {"SENT", "FAILED"}
    /\ \A p \in Runs :
          /\ \A item \in runs[p].batch : item.status = "FAILED" /\ ~item.dirty
          /\ runs[p].pc = "await" => runs[p].item.status = "FAILED" /\ ~runs[p].item.dirty
          /\ runs[p].pc = "save" /\ runs[p].item.dirty => runs[p].item.status = "SENT"
          /\ runs[p].pc = "catch" => /\ runs[p].item.status = "FAILED"
                                     /\ "mongo" \in Faults \/ ~runs[p].item.dirty

StatusInv == OutboxInv /\ FailedIsNeverWritten

SentStays ==
    \A r \in Rids : outbox[r] # Null /\ outbox[r].status = "SENT"
                       => outbox'[r] # Null /\ outbox'[r].status = "SENT"

SentGoesOnlySo ==
    \A r \in Rids : outbox[r] # Null /\ outbox[r].status = "SENT" =>
        /\ outbox'[r] # Null
        /\ \/ outbox'[r].status = "SENT"
           \/ \E p \in Runs : SaveOfSentFailed(p, r) /\ runs'[p] # runs[p]

\* What a step does to the status SENT.
SentIsKept == SentGoesOnlySo /\ ("mongo" \in Faults \/ SentStays)

LEMMA StaysIsKept ==
    SentStays => SentIsKept
  BY DEF SentStays, SentGoesOnlySo, SentIsKept

\* Assigning FAILED to what was loaded as FAILED modifies nothing.
LEMMA SetFailed ==
    ASSUME NEW item \in Local, item.status = "FAILED", ~item.dirty
    PROVE  ~SetStatus(item, "FAILED").dirty
  BY DEF SetStatus, Local

\* A run that goes on has nothing new in memory.
LEMMA ContinueMemory ==
    ASSUME NEW batch
    PROVE  /\ Continue(batch).batch \subseteq batch
           /\ Continue(batch).pc \in {"idle", "next"}
  BY DEF Continue, NoRun

\* A step that leaves the outbox alone and gives run p such memory.
LEMMA MemoryKept ==
    ASSUME StatusInv, UNCHANGED outbox, NEW p \in Runs, NEW run,
           runs' = [runs EXCEPT ![p] = run],
           \A item \in run.batch : item.status = "FAILED" /\ ~item.dirty,
           run.pc = "await" => run.item.status = "FAILED" /\ ~run.item.dirty,
           run.pc = "save" /\ run.item.dirty => run.item.status = "SENT",
           run.pc = "catch" => /\ run.item.status = "FAILED"
                               /\ "mongo" \in Faults \/ ~run.item.dirty
    PROVE  FailedIsNeverWritten' /\ SentIsKept
  <1>1. SentStays
    BY DEF SentStays
  <1>2. FailedIsNeverWritten'
    BY DEF StatusInv, OutboxInv, TypeOK, FailedIsNeverWritten
  <1> QED
    BY <1>1, <1>2, StaysIsKept

LEMMA FindStatus ==
    ASSUME StatusInv, NEW p \in Runs, NEW s \in SUBSET Rids, Find(p, s)
    PROVE  FailedIsNeverWritten' /\ SentIsKept
  <1> DEFINE batch == {Loaded(r) : r \in s}
  <1>1. ASSUME NEW r \in s
        PROVE  Loaded(r).status = "FAILED" /\ ~Loaded(r).dirty
    <2>1. outbox[r] # Null /\ outbox[r].status \in {"PENDING", "FAILED"}
      BY DEF Find, Batches, Due
    <2>2. outbox[r].status = "FAILED"
      BY <2>1 DEF StatusInv, FailedIsNeverWritten
    <2> QED
      BY <2>2 DEF Loaded
  <1>2. \A item \in batch : item.status = "FAILED" /\ ~item.dirty
    BY <1>1
  <1>3. runs' = [runs EXCEPT ![p] = Continue(batch)] /\ UNCHANGED outbox
    BY DEF Find
  <1> HIDE DEF batch
  <1> QED
    BY <1>2, <1>3, ContinueMemory, MemoryKept

LEMMA SaveItemStatus ==
    ASSUME StatusInv, NEW p \in Runs, SaveItem(p)
    PROVE  FailedIsNeverWritten' /\ SentIsKept
  <1> DEFINE item == runs[p].item
             q == item.request_id
             new == [status   |-> IF item.dirty THEN item.status ELSE outbox[q].status,
                     attempts |-> item.attempts,
                     due      |-> FALSE]
             rest == runs[p].batch
  <1>1. /\ runs[p].pc \in {"save", "catch"}
        /\ outbox' = [outbox EXCEPT ![q] = new]
        /\ runs' = [runs EXCEPT ![p] = Continue(rest)]
    BY DEF SaveItem, At
  <1>2. item \in Local /\ q \in Rids /\ outbox[q] \in Item
    BY <1>1 DEF StatusInv, OutboxInv, ItemInHand, MemoryIsStored, Local
  <1>3. /\ new.status \in {"SENT", "FAILED"}
        /\ outbox[q].status = "SENT" /\ new.status # "SENT"
              => "mongo" \in Faults /\ SaveOfSentFailed(p, q)
        /\ new \in Item
    BY <1>1, <1>2, OutboxServiceAssumption
       DEF StatusInv, FailedIsNeverWritten, Local, Item, SaveOfSentFailed, At
  <1>4. \A other \in rest : other.status = "FAILED" /\ ~other.dirty
    BY DEF StatusInv, FailedIsNeverWritten
  <1> HIDE DEF new, rest, q
  <1>5. new # Null
    BY <1>3, OutboxServiceAssumption
  <1>6. /\ Continue(rest).batch \subseteq rest
        /\ Continue(rest).pc \in {"idle", "next"}
    BY ContinueMemory
  <1>7. /\ \A r \in Rids : outbox'[r] = IF r = q THEN new ELSE outbox[r]
        /\ \A s \in Runs : runs'[s] = IF s = p THEN Continue(rest) ELSE runs[s]
    BY <1>1, <1>2 DEF StatusInv, OutboxInv, TypeOK
  <1>8. SentIsKept
    <2>1. runs'[p] # runs[p]
      BY <1>1, <1>6, <1>7
    <2>2. SentGoesOnlySo
      BY <1>3, <1>5, <1>7, <2>1 DEF SentGoesOnlySo
    <2>3. "mongo" \in Faults \/ SentStays
      BY <1>3, <1>5, <1>7 DEF SentStays
    <2> QED
      BY <2>2, <2>3 DEF SentIsKept
  <1>9. FailedIsNeverWritten'
    BY <1>3, <1>4, <1>6, <1>7 DEF StatusInv, FailedIsNeverWritten
  <1> QED
    BY <1>8, <1>9

\* A run whose save was rejected has the same item in hand, as FAILED.
LEMMA SaveFailedShape ==
    ASSUME OutboxInv, NEW p \in Runs, runs[p].pc = "save",
           runs' = [runs EXCEPT ![p].pc = "catch", ![p].item = SetStatus(@, "FAILED")]
    PROVE  \E run : /\ runs' = [runs EXCEPT ![p] = run]
                    /\ run.pc = "catch"
                    /\ run.batch = runs[p].batch
                    /\ run.item.status = "FAILED"
  <1>1. PICK old \in Run : old = runs[p]
    BY DEF OutboxInv, TypeOK
  <1>2. PICK failed : failed = SetStatus(old.item, "FAILED")
    OBVIOUS
  <1>3. PICK run : run = [old EXCEPT !.pc = "catch", !.item = failed]
    OBVIOUS
  <1>4. runs' = [runs EXCEPT ![p] = run]
    BY <1>1, <1>2, <1>3 DEF OutboxInv, TypeOK
  <1>5. failed.status = "FAILED"
    BY <1>1, <1>2, SetStatusType DEF OutboxInv, ItemInHand, Status
  <1>6. run.pc = "catch" /\ run.batch = old.batch /\ run.item = failed
    BY <1>3 DEF Run
  <1> QED
    BY <1>1, <1>4, <1>5, <1>6

LEMMA SaveItemUnconfirmedStatus ==
    ASSUME StatusInv, NEW p \in Runs, SaveItemUnconfirmed(p)
    PROVE  FailedIsNeverWritten' /\ SentIsKept
  <1>1. PICK item \in Local : item = runs[p].item /\ outbox[item.request_id] \in Item
    BY DEF SaveItemUnconfirmed, At, StatusInv, OutboxInv, ItemInHand, MemoryIsStored
  <1>2. PICK q \in Rids : q = item.request_id
    BY DEF Local
  <1>3. PICK new : new = [status   |-> IF item.dirty THEN item.status ELSE outbox[q].status,
                          attempts |-> item.attempts,
                          due      |-> FALSE]
    OBVIOUS
  <1>4. PICK run :
          /\ runs' = [runs EXCEPT ![p] = run]
          /\ run.pc = "catch"
          /\ run.batch = runs[p].batch
          /\ run.item.status = "FAILED"
    BY SaveFailedShape DEF SaveItemUnconfirmed, At, StatusInv
  <1>5. runs[p].pc = "save" /\ "mongo" \in Faults /\ outbox' = [outbox EXCEPT ![q] = new]
    BY <1>1, <1>2, <1>3 DEF SaveItemUnconfirmed, At
  <1>6. /\ new \in Item
        /\ new.status \in {"SENT", "FAILED"}
        /\ outbox[q].status = "SENT" => new.status = "SENT"
    BY <1>1, <1>2, <1>3, <1>5, OutboxServiceAssumption
       DEF StatusInv, FailedIsNeverWritten, Local, Item
  <1>7. /\ \A r \in Rids : outbox'[r] = IF r = q THEN new ELSE outbox[r]
        /\ \A s \in Runs : runs'[s] = IF s = p THEN run ELSE runs[s]
    BY <1>4, <1>5 DEF StatusInv, OutboxInv, TypeOK
  <1>8. FailedIsNeverWritten'
    BY <1>4, <1>5, <1>6, <1>7 DEF StatusInv, FailedIsNeverWritten
  <1>9. SentStays
    BY <1>6, <1>7, OutboxServiceAssumption DEF SentStays
  <1> QED
    BY <1>8, <1>9, StaysIsKept

LEMMA WorkStatus ==
    ASSUME StatusInv, NEW p \in Runs, Work(p)
    PROVE  FailedIsNeverWritten' /\ SentIsKept
  <1> DEFINE rest == runs[p].batch
  <1>1. \A item \in rest : item \in Local /\ item.status = "FAILED" /\ ~item.dirty
    BY DEF StatusInv, OutboxInv, TypeOK, Run, FailedIsNeverWritten
  <1>2. ASSUME NEW loaded \in rest, GiveUp(p, loaded)
        PROVE  FailedIsNeverWritten' /\ SentIsKept
    <2> DEFINE item == SetStatus(loaded, "FAILED")
               left == rest \ {loaded}
    <2>1. ~item.dirty
      BY <1>1, SetFailed
    <2>2. item.request_id = loaded.request_id /\ outbox[item.request_id] \in Item
      BY <1>1, SetStatusType DEF StatusInv, OutboxInv, MemoryIsStored, Status
    <2>3. outbox' = [outbox EXCEPT ![item.request_id].status = outbox[item.request_id].status]
          \/ outbox' = outbox
      BY <1>2, <2>1 DEF GiveUp
    <2>4. outbox' = outbox
      <3> DEFINE q == item.request_id
      <3>1. outbox[q] \in Item
        BY <2>2
      <3>2. [outbox[q] EXCEPT !.status = outbox[q].status] = outbox[q]
        BY <3>1 DEF Item
      <3>3. outbox \in [Rids -> Item \cup {Null}]
        BY DEF StatusInv, OutboxInv, TypeOK
      <3> HIDE DEF q
      <3>4. [outbox EXCEPT ![q] = outbox[q]] = outbox
        BY <3>3
      <3> QED
        BY <2>3, <3>2, <3>4 DEF q
    <2>5. runs' = [runs EXCEPT ![p] = Continue(left)]
      BY <1>2 DEF GiveUp
    <2>6. left \subseteq rest
      OBVIOUS
    <2> HIDE DEF left, rest
    <2>7. /\ Continue(left).pc \in {"idle", "next"}
          /\ \A other \in Continue(left).batch : other.status = "FAILED" /\ ~other.dirty
      BY <1>1, <2>6, ContinueMemory
    <2> QED
      BY <2>4, <2>5, <2>7, MemoryKept
  <1>3. ASSUME NEW loaded \in rest, Retry(p, loaded)
        PROVE  FailedIsNeverWritten' /\ SentIsKept
    <2> DEFINE item == [loaded EXCEPT !.attempts = @ + 1]
               run == [pc |-> "await", batch |-> rest \ {loaded}, item |-> item]
    <2>1. runs' = [runs EXCEPT ![p] = run] /\ UNCHANGED outbox
      BY <1>3 DEF Retry
    <2>2. item.status = "FAILED" /\ ~item.dirty
      BY <1>1 DEF Local
    <2>3. run.pc = "await" /\ run.item = item /\ run.batch \subseteq rest
      OBVIOUS
    <2> HIDE DEF item, run, rest
    <2>4. \A other \in run.batch : other.status = "FAILED" /\ ~other.dirty
      BY <1>1, <2>3
    <2> QED
      BY <2>1, <2>2, <2>3, <2>4, MemoryKept
  <1>4. ASSUME NEW loaded \in rest, RetryThrows(p, loaded)
        PROVE  FailedIsNeverWritten' /\ SentIsKept
    <2> DEFINE counted == [loaded EXCEPT !.attempts = @ + 1]
               item == SetStatus(counted, "FAILED")
               run == [pc |-> "catch", batch |-> rest \ {loaded}, item |-> item]
    <2>1. runs' = [runs EXCEPT ![p] = run] /\ UNCHANGED outbox
      BY <1>4 DEF RetryThrows
    <2>2. counted \in Local /\ counted.status = "FAILED" /\ ~counted.dirty
      BY <1>1 DEF Local
    <2> HIDE DEF counted
    <2>3. ~item.dirty /\ item.status = "FAILED"
      BY <2>2, SetFailed, SetStatusType DEF Status
    <2>4. run.pc = "catch" /\ run.item = item /\ run.batch \subseteq rest
      OBVIOUS
    <2> HIDE DEF item, run, rest
    <2>5. \A other \in run.batch : other.status = "FAILED" /\ ~other.dirty
      BY <1>1, <2>4
    <2> QED
      BY <2>1, <2>3, <2>4, <2>5, MemoryKept
  <1>5. ASSUME RetryOk(p) PROVE FailedIsNeverWritten' /\ SentIsKept
    <2>1. runs[p].pc = "await" /\ UNCHANGED outbox
      BY <1>5 DEF RetryOk, At
    <2>2. runs[p] \in Run /\ runs[p].item \in Local
      BY <2>1 DEF StatusInv, OutboxInv, TypeOK, ItemInHand
    <2>3. PICK run \in Run :
            /\ run = [runs[p] EXCEPT !.pc = "save", !.item = SetStatus(@, "SENT")]
            /\ run.pc = "save"
            /\ run.batch = runs[p].batch
            /\ run.item.status = "SENT"
      BY <2>2, AnswerShape DEF Status
    <2>4. runs' = [runs EXCEPT ![p] = run]
      BY <1>5, <2>3 DEF RetryOk, StatusInv, OutboxInv, TypeOK
    <2> QED
      BY <1>1, <2>1, <2>3, <2>4, MemoryKept
  <1>6. ASSUME RetryFails(p) PROVE FailedIsNeverWritten' /\ SentIsKept
    <2>1. runs[p].pc = "await" /\ UNCHANGED outbox
      BY <1>6 DEF RetryFails, At
    <2> DEFINE item == SetStatus(runs[p].item, "FAILED")
               run == [runs[p] EXCEPT !.pc = "save", !.item = item]
    <2>2. /\ runs[p] \in Run /\ runs[p].item \in Local
          /\ runs[p].item.status = "FAILED" /\ ~runs[p].item.dirty
      BY <2>1 DEF StatusInv, OutboxInv, TypeOK, ItemInHand, FailedIsNeverWritten
    <2>3. ~item.dirty
      BY <2>2, SetFailed
    <2>4. runs' = [runs EXCEPT ![p] = run]
      BY <1>6 DEF RetryFails, StatusInv, OutboxInv, TypeOK
    <2> HIDE DEF item
    <2>5. run.pc = "save" /\ run.item = item /\ run.batch = runs[p].batch
      BY <2>2 DEF Run
    <2> HIDE DEF run
    <2> QED
      BY <1>1, <2>1, <2>3, <2>4, <2>5, MemoryKept
  <1>7. ASSUME SaveItem(p) PROVE FailedIsNeverWritten' /\ SentIsKept
    BY <1>7, SaveItemStatus
  <1>8. ASSUME SaveItemFails(p)
        PROVE  FailedIsNeverWritten' /\ SentIsKept
    <2>1. PICK run :
            /\ "mongo" \in Faults
            /\ runs' = [runs EXCEPT ![p] = run] /\ UNCHANGED outbox
            /\ run.pc = "catch" /\ run.batch = rest /\ run.item.status = "FAILED"
      BY <1>8, SaveFailedShape DEF SaveItemFails, At, StatusInv
    <2> QED
      BY <1>1, <2>1, MemoryKept
  <1>9. ASSUME SaveItemUnconfirmed(p)
        PROVE  FailedIsNeverWritten' /\ SentIsKept
    BY <1>9, SaveItemUnconfirmedStatus
  <1>10. ASSUME CatchFails(p)
         PROVE  FailedIsNeverWritten' /\ SentIsKept
    <2>1. runs' = [runs EXCEPT ![p] = Continue(rest)] /\ UNCHANGED outbox
      BY <1>10 DEF CatchFails
    <2> HIDE DEF rest
    <2> QED
      BY <1>1, <2>1, ContinueMemory, MemoryKept
  <1> QED
    BY <1>2, <1>3, <1>4, <1>5, <1>6, <1>7, <1>8, <1>9, <1>10 DEF Work

\* A step of the environment changes no status, and what it queues is FAILED.
LEMMA EnvironmentStatus ==
    ASSUME StatusInv,
           OnlyQueues,
           runs' = runs \/ runs' = [p \in Runs |-> NoRun]
    PROVE  FailedIsNeverWritten' /\ SentStays
  <1>1. NewItem(TRUE).status = "FAILED"
    BY DEF NewItem
  <1>2. SentStays
    <2>1. \A r \in Rids : outbox[r] # Null => outbox[r] \in Item
      BY DEF StatusInv, OutboxInv, TypeOK
    <2> QED
      BY <2>1 DEF SentStays, OnlyQueues
  <1>3. \A r \in Rids : outbox'[r] # Null => outbox'[r].status \in {"SENT", "FAILED"}
    BY <1>1 DEF StatusInv, FailedIsNeverWritten, OnlyQueues
  <1>4. FailedIsNeverWritten'
    <2>1. CASE runs' = runs
      BY <1>3, <2>1 DEF StatusInv, FailedIsNeverWritten
    <2>2. CASE runs' = [p \in Runs |-> NoRun]
      BY <1>3, <2>2 DEF FailedIsNeverWritten, NoRun
    <2> QED
      BY <2>1, <2>2
  <1> QED
    BY <1>2, <1>4

LEMMA BecomeDueStatus ==
    ASSUME StatusInv, NEW r \in Rids, BecomeDue(r)
    PROVE  FailedIsNeverWritten' /\ SentIsKept
  <1> DEFINE new == [outbox[r] EXCEPT !.due = TRUE]
  <1>1. outbox[r] # Null /\ outbox' = [outbox EXCEPT ![r] = new] /\ UNCHANGED runs
    BY DEF BecomeDue
  <1>2. outbox[r] \in Item
    BY <1>1 DEF StatusInv, OutboxInv, TypeOK
  <1>3. new.status = outbox[r].status /\ new # Null
    BY <1>2, OutboxServiceAssumption DEF Item
  <1> HIDE DEF new
  <1>4. SentStays
    BY <1>1, <1>3 DEF StatusInv, OutboxInv, TypeOK, SentStays
  <1> QED
    BY <1>1, <1>3, <1>4, StaysIsKept
       DEF StatusInv, OutboxInv, TypeOK, FailedIsNeverWritten

LEMMA StatusInvInit ==
    Init => StatusInv
  <1> SUFFICES ASSUME Init PROVE FailedIsNeverWritten
    BY OutboxInvInit DEF StatusInv
  <1> QED
    BY DEF Init, FailedIsNeverWritten, NewItem, NoRun

\* What a run or the clock does.
LEMMA RunsKeepStatus ==
    ASSUME StatusInv, (\E p \in Runs : RunStep(p)) \/ Tick
    PROVE  StatusInv' /\ SentIsKept
  <1>1. OutboxInv'
    BY OutboxInvNext DEF StatusInv, Next
  <1>2. FailedIsNeverWritten' /\ SentIsKept
    BY FindStatus, WorkStatus, BecomeDueStatus DEF RunStep, Start, Tick
  <1> QED
    BY <1>1, <1>2 DEF StatusInv

LEMMA StatusInvNext ==
    ASSUME StatusInv, [Next]_vars
    PROVE  StatusInv' /\ SentIsKept
  <1>1. OutboxInv'
    BY OutboxInvNext DEF StatusInv
  <1>2. CASE (\E p \in Runs : RunStep(p)) \/ Tick
    BY <1>2, RunsKeepStatus
  <1>3. CASE \/ Stage1Step /\ UNCHANGED runVars
             \/ Crash
             \/ UNCHANGED vars
    <2>1. FailedIsNeverWritten' /\ SentStays
      BY <1>3, EnvironmentStatus DEF runVars, vars, Crash, OnlyQueues
    <2> QED
      BY <1>1, <2>1, StaysIsKept DEF StatusInv
  <1> QED
    BY <1>2, <1>3 DEF Next

\* Whatever runs overlap, whenever the process restarts and whatever saves
\* fail, an item that is SENT stays SENT, or loses it to a run that delivered
\* it as well and whose own save was rejected: then the status set before that
\* save is still a modified path, and the catch block writes FAILED over it.
THEOREM SentStaysSent == Spec => SentIsFinal
  <1>1. StatusInv /\ [Next]_vars => StatusInv' /\ [SentGoesOnlySo]_vars
    BY StatusInvNext DEF SentIsKept
  <1> QED
    BY <1>1, StatusInvInit, PTL DEF Spec, SentIsFinal, SentGoesOnlySo

=============================================================================
