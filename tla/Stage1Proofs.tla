---------------------------- MODULE Stage1Proofs ----------------------------
(***************************************************************************)
(* What every step of the call protocol of Stage1 preserves.  The proofs   *)
(* about the modules that call Stage 1 cite these lemmas, one for each     *)
(* way in which their actions touch the protocol.                          *)
(***************************************************************************)
EXTENDS Stage1, FiniteSetTheorems, TLAPS

\* A call in progress is about a request that was really built.
CallsAreRequests ==
    \A c \in Callers : calls[c].st # "none"
        => calls[c].request_id \in Rids /\ requests[calls[c].request_id] \in Request

LateAreRequests == \A r \in Rids : late[r] > 0 => requests[r] \in Request

\* Stage 1 has applied what it has acknowledged.
AckedIsApplied ==
    \A c \in Callers : calls[c].st = "acked" => calls[c].request_id \in applied

Stage1Inv ==
    /\ Stage1TypeOK
    /\ CallsAreRequests
    /\ LateAreRequests
    /\ AckedIsApplied

\* The invariant holds as long as the protocol's state does not change.
LEMMA StutterKeeps ==
    Stage1Inv /\ UNCHANGED stage1Vars => Stage1Inv'
  BY DEF Stage1Inv, Stage1TypeOK, CallsAreRequests, LateAreRequests,
         AckedIsApplied, stage1Vars, Body, Request, Call

\* It holds at the start.
LEMMA InitEstablishes ==
    Stage1Init => Stage1Inv
  BY Stage1Assumption
     DEF Stage1Init, Stage1Inv, Stage1TypeOK, CallsAreRequests, LateAreRequests,
         AckedIsApplied, NoCall, Call

\* Applying a request that exists keeps Stage 1 well typed and only adds to
\* the applied requests (Upsert).
LEMMA UpsertApplies ==
    ASSUME Stage1TypeOK, NEW r \in Rids, requests[r] \in Request, Upsert(r)
    PROVE  /\ requests' = requests
           /\ remote' \in [Ids -> Body \cup {Null}]
           /\ applied' = applied \cup {r}
           /\ applied' \subseteq Rids
  BY DEF Stage1TypeOK, Upsert, Request

\* Issuing a call for a request that exists after the step (fetch).
LEMMA PostKeeps ==
    ASSUME Stage1Inv,
           NEW c \in Callers, NEW r \in Rids, Post(c, r),
           requests' \in [Rids -> Request \cup {Null}],
           requests'[r] \in Request,
           \A q \in Rids : requests[q] \in Request => requests'[q] \in Request,
           UNCHANGED <<late, remote, applied>>
    PROVE  Stage1Inv'
  <1>1. calls' = [calls EXCEPT ![c] = [st |-> "sent", request_id |-> r]]
    BY DEF Post
  <1>2. calls' \in [Callers -> Call]
    BY <1>1 DEF Stage1Inv, Stage1TypeOK, Call
  <1>3. Stage1TypeOK'
    BY <1>2 DEF Stage1Inv, Stage1TypeOK, Body
  <1>4. CallsAreRequests'
    BY <1>1 DEF Stage1Inv, Stage1TypeOK, CallsAreRequests, Request, Body, Call
  <1>5. LateAreRequests'
    BY DEF Stage1Inv, Stage1TypeOK, LateAreRequests, Request, Body
  <1>6. AckedIsApplied'
    BY <1>1 DEF Stage1Inv, Stage1TypeOK, AckedIsApplied, Call
  <1> QED
    BY <1>3, <1>4, <1>5, <1>6 DEF Stage1Inv

\* Reading ok = true, or ok = false, ends the caller's call; a request may be
\* added to those still on their way.
LEMMA ReadOkKeeps ==
    ASSUME Stage1Inv, NEW c \in Callers, ReadOk(c),
           UNCHANGED <<requests, remote, applied>>
    PROVE  /\ Stage1Inv'
           /\ calls[c].request_id \in applied
  <1>1. calls' = [calls EXCEPT ![c] = [st |-> "none", request_id |-> Null]]
    BY DEF ReadOk, NoCall
  <1>2. Stage1TypeOK'
    BY <1>1 DEF ReadOk, Stage1Inv, Stage1TypeOK, Call, Body
  <1>3. CallsAreRequests' /\ AckedIsApplied'
    BY <1>1 DEF Stage1Inv, Stage1TypeOK, CallsAreRequests, AckedIsApplied, Call
  <1>4. LateAreRequests'
    BY DEF ReadOk, Stage1Inv, LateAreRequests
  <1>5. calls[c].request_id \in applied
    BY DEF ReadOk, Stage1Inv, AckedIsApplied
  <1> QED
    BY <1>2, <1>3, <1>4, <1>5 DEF Stage1Inv

LEMMA ReadFailureKeeps ==
    ASSUME Stage1Inv, NEW c \in Callers, ReadFailure(c),
           UNCHANGED <<requests, remote, applied>>
    PROVE  Stage1Inv'
  <1> DEFINE r == calls[c].request_id
  <1>1. calls' = [calls EXCEPT ![c] = [st |-> "none", request_id |-> Null]]
    BY DEF ReadFailure, NoCall
  <1>2. r \in Rids /\ requests[r] \in Request
    BY DEF ReadFailure, Stage1Inv, CallsAreRequests
  <1>3. \/ late' = late
        \/ late[r] < MaxLate /\ late' = [late EXCEPT ![r] = @ + 1]
    BY DEF ReadFailure
  <1>4. late' \in [Rids -> 0..MaxLate]
    BY <1>2, <1>3, Stage1Assumption DEF Stage1Inv, Stage1TypeOK
  <1>5. Stage1TypeOK'
    BY <1>1, <1>4 DEF Stage1Inv, Stage1TypeOK, Call, Body
  <1>6. CallsAreRequests' /\ AckedIsApplied'
    BY <1>1 DEF Stage1Inv, Stage1TypeOK, CallsAreRequests, AckedIsApplied, Call
  <1>7. LateAreRequests'
    <2> SUFFICES ASSUME NEW q \in Rids, late'[q] > 0
                 PROVE  requests[q] \in Request
      BY DEF LateAreRequests
    <2>1. CASE q = r
      BY <2>1, <1>2
    <2>2. CASE q # r
      BY <2>2, <1>2, <1>3 DEF Stage1Inv, Stage1TypeOK, LateAreRequests
    <2> QED
      BY <2>1, <2>2
  <1> QED
    BY <1>5, <1>6, <1>7 DEF Stage1Inv

\* The death of the process drops every call; a request is left on its way
\* only if it was in flight (DropCalls).
LEMMA DropCallsKeeps ==
    ASSUME Stage1Inv, DropCalls, UNCHANGED <<requests, remote, applied>>
    PROVE  Stage1Inv'
  <1>1. calls' = [c \in Callers |-> [st |-> "none", request_id |-> Null]]
    BY DEF DropCalls, NoCall
  <1>2. PICK survivors \in SUBSET {c \in Callers : calls[c].st = "sent"} :
          /\ \A r \in Rids :
                late[r] + Cardinality({c \in survivors : calls[c].request_id = r})
                  <= MaxLate
          /\ late' = [r \in Rids |-> late[r]
                + Cardinality({c \in survivors : calls[c].request_id = r})]
    BY DEF DropCalls
  <1> DEFINE surviving(r) == {c \in survivors : calls[c].request_id = r}
  <1>3. \A r : IsFiniteSet(surviving(r)) /\ Cardinality(surviving(r)) \in Nat
    <2> TAKE r
    <2>1. surviving(r) \subseteq Callers
      OBVIOUS
    <2>2. IsFiniteSet(surviving(r))
      BY <2>1, FS_Subset, Stage1Assumption
    <2> QED
      BY <2>2, FS_CardinalityType
  <1>4. late' \in [Rids -> 0..MaxLate]
    <2> HIDE DEF surviving
    <2>1. \A r \in Rids : late'[r] = late[r] + Cardinality(surviving(r))
      BY <1>2 DEF surviving
    <2>2. \A r \in Rids : late'[r] \in 0..MaxLate
      <3> TAKE r \in Rids
      <3>1. late[r] + Cardinality(surviving(r)) <= MaxLate
        BY <1>2 DEF surviving
      <3>2. late[r] \in 0..MaxLate
        BY DEF Stage1Inv, Stage1TypeOK
      <3> QED
        BY <3>1, <3>2, <2>1, <1>3, Stage1Assumption
    <2> QED
      BY <2>2, <1>2
  <1>5. Stage1TypeOK'
    BY <1>1, <1>4 DEF Stage1Inv, Stage1TypeOK, Call, Body
  <1>6. CallsAreRequests' /\ AckedIsApplied'
    BY <1>1 DEF CallsAreRequests, AckedIsApplied
  <1>7. LateAreRequests'
    <2> SUFFICES ASSUME NEW r \in Rids, late'[r] > 0
                 PROVE  requests[r] \in Request
      BY DEF LateAreRequests
    <2>1. CASE late[r] > 0
      BY <2>1 DEF Stage1Inv, LateAreRequests
    <2>2. CASE ~(late[r] > 0)
      <3>1. late[r] = 0
        BY <2>2, Stage1Assumption DEF Stage1Inv, Stage1TypeOK
      <3>2. Cardinality(surviving(r)) # 0
        BY <3>1, <1>2
      <3>3. surviving(r) # {}
        BY <3>2, FS_EmptySet
      <3>4. PICK c \in survivors : calls[c].request_id = r
        BY <3>3
      <3> QED
        BY <3>4 DEF Stage1Inv, CallsAreRequests
    <2> QED
      BY <2>1, <2>2
  <1> QED
    BY <1>5, <1>6, <1>7 DEF Stage1Inv

\* Stage 1's own steps: applying a call, applying or losing a late request.
LEMMA Stage1StepKeeps ==
    ASSUME Stage1Inv, Stage1Step
    PROVE  Stage1Inv' /\ requests' = requests /\ applied \subseteq applied'
  <1>1. ASSUME NEW c \in Callers, Apply(c)
        PROVE  Stage1Inv' /\ requests' = requests /\ applied \subseteq applied'
    <2> DEFINE r == calls[c].request_id
    <2>1. calls[c].st = "sent" /\ Upsert(r)
          /\ calls' = [calls EXCEPT ![c].st = "acked"] /\ late' = late
      BY <1>1 DEF Apply
    <2>2. r \in Rids /\ requests[r] \in Request
      BY <2>1 DEF Stage1Inv, CallsAreRequests
    <2>3. /\ requests' = requests
          /\ remote' \in [Ids -> Body \cup {Null}]
          /\ applied' = applied \cup {r}
          /\ applied' \subseteq Rids
      BY <2>1, <2>2, UpsertApplies DEF Stage1Inv
    <2>4. Stage1TypeOK'
      BY <2>1, <2>3 DEF Stage1Inv, Stage1TypeOK, Call
    <2>5. CallsAreRequests'
      BY <2>1, <2>2, <2>3 DEF Stage1Inv, Stage1TypeOK, CallsAreRequests, Call
    <2>6. LateAreRequests'
      BY <2>1, <2>3 DEF Stage1Inv, LateAreRequests
    <2>7. AckedIsApplied'
      BY <2>1, <2>3 DEF Stage1Inv, Stage1TypeOK, AckedIsApplied, Call
    <2> QED
      BY <2>3, <2>4, <2>5, <2>6, <2>7 DEF Stage1Inv
  <1>2. ASSUME NEW r \in Rids, ApplyLate(r)
        PROVE  Stage1Inv' /\ requests' = requests /\ applied \subseteq applied'
    <2>1. late[r] > 0 /\ Upsert(r) /\ late' = [late EXCEPT ![r] = @ - 1]
          /\ calls' = calls
      BY <1>2 DEF ApplyLate
    <2>2. requests[r] \in Request
      BY <2>1 DEF Stage1Inv, LateAreRequests
    <2>3. /\ requests' = requests
          /\ remote' \in [Ids -> Body \cup {Null}]
          /\ applied' = applied \cup {r}
          /\ applied' \subseteq Rids
      BY <2>1, <2>2, UpsertApplies DEF Stage1Inv
    <2>4. late' \in [Rids -> 0..MaxLate]
      BY <2>1, Stage1Assumption DEF Stage1Inv, Stage1TypeOK
    <2>5. Stage1TypeOK'
      BY <2>1, <2>3, <2>4 DEF Stage1Inv, Stage1TypeOK
    <2>6. CallsAreRequests' /\ AckedIsApplied'
      BY <2>1, <2>3 DEF Stage1Inv, CallsAreRequests, AckedIsApplied
    <2>7. LateAreRequests'
      BY <2>1, <2>2, <2>3 DEF Stage1Inv, Stage1TypeOK, LateAreRequests
    <2> QED
      BY <2>3, <2>5, <2>6, <2>7 DEF Stage1Inv
  <1>3. ASSUME NEW r \in Rids, LoseLate(r)
        PROVE  Stage1Inv' /\ requests' = requests /\ applied \subseteq applied'
    <2>1. late[r] > 0 /\ late' = [late EXCEPT ![r] = @ - 1]
          /\ UNCHANGED <<requests, calls, remote, applied>>
      BY <1>3 DEF LoseLate
    <2>2. late' \in [Rids -> 0..MaxLate]
      BY <2>1, Stage1Assumption DEF Stage1Inv, Stage1TypeOK
    <2>3. Stage1TypeOK'
      BY <2>1, <2>2 DEF Stage1Inv, Stage1TypeOK
    <2>4. CallsAreRequests' /\ AckedIsApplied'
      BY <2>1 DEF Stage1Inv, CallsAreRequests, AckedIsApplied
    <2>5. LateAreRequests'
      BY <2>1 DEF Stage1Inv, Stage1TypeOK, LateAreRequests
    <2> QED
      BY <2>1, <2>3, <2>4, <2>5 DEF Stage1Inv
  <1> QED
    BY <1>1, <1>2, <1>3 DEF Stage1Step

=============================================================================
