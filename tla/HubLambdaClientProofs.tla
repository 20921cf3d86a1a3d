----------------------- MODULE HubLambdaClientProofs -----------------------
(***************************************************************************)
(* Theorems about HubLambdaClient for any timeout, any requests and any    *)
(* number of abandoned calls on their way: the timer bounds the wait for   *)
(* the headers, and the client implements LambdaCall.                      *)
(***************************************************************************)
EXTENDS HubLambdaClient, TLAPS

\* The timer runs exactly while the headers are awaited, and is never
\* overdue; a call in progress, or one left on its way, is about a request
\* that was built.
ClientInv ==
    /\ TypeOK
    /\ timer <=> phase = "fetch"
    /\ phase = "fetch" => clock <= Timeout
    /\ phase # "idle" => rid \in Rids /\ requests[rid] \in Contract!Request
    /\ \A r \in Rids : late[r] > 0 => requests[r] \in Contract!Request

\* The state that TypeOK says something of, variable by variable.
Typed ==
    /\ requests \in [Rids -> Contract!Request \cup {Null}]
    /\ late \in [Rids -> 0..MaxLate]
    /\ remote \in [Ids -> Contract!Body \cup {Null}]
    /\ applied \subseteq Rids

CallTyped ==
    /\ phase \in {"idle", "fetch", "body"}
    /\ rid \in Rids \cup {Null}
    /\ timer \in BOOLEAN
    /\ clock \in 0..MaxClock
    /\ wire \in {"pending", "applied", "refused"}
    /\ status \in {"none", "2xx", "other"}
    /\ result \in Codes

\* What the caller sees of the call has its type whenever rid has, before a
\* step and after it.
LEMMA TypesSplit ==
    ASSUME rid \in Rids \cup {Null}
    PROVE  Contract!TypeOK <=> Typed
  <1>1. calls \in [{Caller} -> Contract!Call]
    BY DEF calls, Contract!Call
  <1>2. answers \in [{Caller} -> Contract!Answer]
    BY DEF answers, Contract!Answer
  <1> QED
    BY <1>1, <1>2 DEF Contract!TypeOK, Contract!Stage1TypeOK, Typed

LEMMA TypesSplitNext ==
    ASSUME CallTyped', Typed'
    PROVE  TypeOK'
  <1> USE DEF CallTyped
  <1>1. calls' \in [{Caller} -> Contract!Call]
    BY DEF calls, Contract!Call
  <1>2. answers' \in [{Caller} -> Contract!Answer]
    BY DEF answers, Contract!Answer
  <1>3. Contract!TypeOK'
    BY <1>1, <1>2 DEF Contract!TypeOK, Contract!Stage1TypeOK, Typed
  <1> QED
    BY <1>3, Zenon DEF TypeOK

LEMMA ClientInvInit ==
    Init => ClientInv
  <1> SUFFICES ASSUME Init PROVE ClientInv
    OBVIOUS
  <1>1. Typed
    BY HubLambdaClientAssumption DEF Init, Contract!Stage1Init, Typed
  <1>2. rid \in Rids \cup {Null}
    BY DEF Init
  <1>3. Contract!TypeOK
    BY <1>1, <1>2, TypesSplit
  <1>4. CallTyped
    <2>1. timer \in BOOLEAN
      BY DEF Init
    <2>2. clock \in 0..MaxClock
      BY HubLambdaClientAssumption DEF Init
    <2> QED
      BY <2>1, <2>2 DEF Init, CallTyped, Codes
  <1>5. TypeOK
    BY <1>3, <1>4, Zenon DEF TypeOK, CallTyped
  <1> QED
    BY <1>5, HubLambdaClientAssumption DEF Init, Contract!Stage1Init, ClientInv

\* What Stage 1 applies exists, so it stays well typed.
LEMMA UpsertKeepsTypes ==
    ASSUME Typed, NEW r \in Rids, requests[r] \in Contract!Request, Contract!Upsert(r)
    PROVE  /\ remote' \in [Ids -> Contract!Body \cup {Null}]
           /\ applied' \subseteq Rids
           /\ requests' = requests
  BY DEF Typed, Contract!Upsert, Contract!Request

LEMMA AbandonKeepsTypes ==
    ASSUME Typed, rid \in Rids, requests[rid] \in Contract!Request, Abandon,
           \A r \in Rids : late[r] > 0 => requests[r] \in Contract!Request
    PROVE  /\ late' \in [Rids -> 0..MaxLate]
           /\ \A r \in Rids : late'[r] > 0 => requests[r] \in Contract!Request
  BY HubLambdaClientAssumption DEF Typed, Abandon

\* The call returns, with its request handled, lost or still on its way.
LEMMA ReturnKeeps ==
    ASSUME ClientInv, phase # "idle", Abandon, NEW code \in Codes, Return(code)
    PROVE  ClientInv'
  <1>1. Typed
    BY TypesSplit DEF ClientInv, TypeOK
  <1>2. Typed' /\ rid' = Null
        /\ \A r \in Rids : late'[r] > 0 => requests'[r] \in Contract!Request
    <2>1. late' \in [Rids -> 0..MaxLate]
          /\ \A r \in Rids : late'[r] > 0 => requests[r] \in Contract!Request
      BY <1>1, AbandonKeepsTypes DEF ClientInv
    <2>2. UNCHANGED <<requests, remote, applied>> /\ rid' = Null
      BY DEF Return
    <2>3. Typed'
      BY <1>1, <2>1, <2>2 DEF Typed, Contract!Request, Contract!Body
    <2> QED
      BY <2>1, <2>2, <2>3
  <1>3. CallTyped'
    <2>1. timer' \in BOOLEAN
      BY DEF Return
    <2>2. clock' \in 0..MaxClock
      BY HubLambdaClientAssumption DEF Return
    <2> QED
      BY <2>1, <2>2 DEF Return, CallTyped
  <1>4. TypeOK'
    BY <1>2, <1>3, TypesSplitNext
  <1> QED
    BY <1>2, <1>4 DEF ClientInv, Return

LEMMA StartKeeps ==
    ASSUME ClientInv, NEW r \in Rids, NEW request \in Contract!Request, Start(r, request)
    PROVE  ClientInv'
  <1>1. Typed /\ rid' = r
    BY TypesSplit DEF ClientInv, TypeOK, Start, Begin
  <1>2. requests' = [requests EXCEPT ![r] = request] /\ UNCHANGED <<late, remote, applied>>
    BY DEF Start, Begin
  <1>3. Typed'
    BY <1>1, <1>2 DEF Typed, Contract!Request, Contract!Body
  <1>4. \A q \in Rids : late'[q] > 0 => requests'[q] \in Contract!Request
    BY <1>1, <1>2 DEF Typed, ClientInv
  <1>5. requests'[r] \in Contract!Request
    BY <1>1, <1>2 DEF Typed
  <1>6. CallTyped'
    BY <1>1, HubLambdaClientAssumption DEF Start, Begin, CallTyped, Codes
  <1>7. TypeOK'
    BY <1>3, <1>6, TypesSplitNext
  <1> QED
    BY <1>1, <1>4, <1>5, <1>7, HubLambdaClientAssumption DEF Start, Begin, ClientInv

\* Steps that only change how the call goes on.
LEMMA CallGoesOn ==
    ASSUME ClientInv, UNCHANGED <<requests, late, remote, applied, rid>>,
           phase # "idle", CallTyped', timer' <=> phase' = "fetch",
           phase' = "fetch" => clock' <= Timeout
    PROVE  ClientInv'
  <1>1. Typed'
    BY TypesSplit DEF ClientInv, TypeOK, Typed, Contract!Request, Contract!Body
  <1>2. TypeOK'
    BY <1>1, TypesSplitNext
  <1>3. rid' \in Rids /\ requests'[rid'] \in Contract!Request
    BY DEF ClientInv
  <1>4. \A r \in Rids : late'[r] > 0 => requests'[r] \in Contract!Request
    BY DEF ClientInv
  <1> QED
    BY <1>2, <1>3, <1>4 DEF ClientInv

LEMMA HeadersKeep ==
    ASSUME ClientInv, NEW line \in {"2xx", "other"}, Headers(line)
    PROVE  ClientInv'
  <1>1. CallTyped'
    BY DEF ClientInv, TypeOK, Headers, CallTyped, Codes
  <1> QED
    BY <1>1, CallGoesOn DEF Headers

LEMMA TickKeeps ==
    ASSUME ClientInv, Tick
    PROVE  ClientInv'
  <1>1. clock \in Nat /\ clock < MaxClock /\ clock' = clock + 1
    BY HubLambdaClientAssumption DEF ClientInv, TypeOK, Tick
  <1>2. UNCHANGED <<phase, rid, timer, wire, status, result>>
    BY DEF Tick
  <1>3. CallTyped'
    BY <1>1, <1>2, HubLambdaClientAssumption DEF ClientInv, TypeOK, CallTyped, Codes
  <1>4. phase' = "fetch" => clock' <= Timeout
    <2>1. phase = "fetch" => timer /\ clock <= Timeout
      BY DEF ClientInv
    <2>2. phase = "fetch" => clock # Timeout
      BY <2>1 DEF Tick
    <2> QED
      BY <1>1, <1>2, <2>1, <2>2, HubLambdaClientAssumption
  <1>5. timer' <=> phase' = "fetch"
    BY <1>2 DEF ClientInv
  <1> QED
    BY <1>3, <1>4, <1>5, CallGoesOn DEF Tick

\* Stage 1 applies or refuses the request of the call in progress.
LEMMA HandleKeeps ==
    ASSUME ClientInv, Handle
    PROVE  ClientInv'
  <1>1. Typed /\ rid \in Rids /\ requests[rid] \in Contract!Request
    BY TypesSplit DEF ClientInv, TypeOK, Handle
  <1>2. /\ remote' \in [Ids -> Contract!Body \cup {Null}]
        /\ applied' \subseteq Rids
        /\ requests' = requests
    BY <1>1, UpsertKeepsTypes DEF Handle, Typed, Contract!Body
  <1>3. UNCHANGED <<late, phase, rid, timer, clock, status, result>>
        /\ wire' \in {"applied", "refused"}
    BY DEF Handle
  <1>4. Typed'
    BY <1>1, <1>2, <1>3 DEF Typed, Contract!Request, Contract!Body
  <1>5. CallTyped'
    BY <1>3 DEF ClientInv, TypeOK, CallTyped, Codes
  <1>6. TypeOK'
    BY <1>4, <1>5, TypesSplitNext
  <1> QED
    BY <1>1, <1>2, <1>3, <1>6 DEF ClientInv

LEMMA HandleLateKeeps ==
    ASSUME ClientInv, NEW r \in Rids, HandleLate(r)
    PROVE  ClientInv'
  <1>1. Typed /\ requests[r] \in Contract!Request
    BY TypesSplit DEF ClientInv, TypeOK, HandleLate
  <1>2. /\ remote' \in [Ids -> Contract!Body \cup {Null}]
        /\ applied' \subseteq Rids
        /\ requests' = requests
    BY <1>1, UpsertKeepsTypes DEF HandleLate, Typed, Contract!Body
  <1>3. UNCHANGED callVars /\ late[r] > 0 /\ late' = [late EXCEPT ![r] = @ - 1]
    BY DEF HandleLate
  <1>4. late' \in [Rids -> 0..MaxLate]
    BY <1>1, <1>3, HubLambdaClientAssumption DEF Typed
  <1>5. Typed'
    BY <1>1, <1>2, <1>4 DEF Typed, Contract!Request, Contract!Body
  <1>6. CallTyped'
    BY <1>3 DEF ClientInv, TypeOK, CallTyped, Codes, callVars
  <1>7. TypeOK'
    BY <1>5, <1>6, TypesSplitNext
  <1>8. \A q \in Rids : late'[q] > 0 => requests'[q] \in Contract!Request
    BY <1>1, <1>2, <1>3 DEF ClientInv, Typed
  <1> QED
    BY <1>2, <1>3, <1>7, <1>8 DEF ClientInv, callVars

LEMMA ClientInvNext ==
    ASSUME ClientInv, [Next]_vars
    PROVE  ClientInv'
  <1>1. CASE ErrorBody \/ OkBody \/ RefusalBody \/ BrokenBody \/ FetchRejects \/ Abort
    BY <1>1, ReturnKeeps
       DEF ErrorBody, OkBody, RefusalBody, BrokenBody, FetchRejects, Abort, Abandon, Codes
  <1>2. CASE UNCHANGED vars
    <2>1. Typed'
      BY <1>2, TypesSplit
         DEF vars, ClientInv, TypeOK, Typed, Contract!Request, Contract!Body
    <2>2. CallTyped'
      BY <1>2 DEF vars, callVars, ClientInv, TypeOK, CallTyped, Codes
    <2>3. TypeOK'
      BY <2>1, <2>2, TypesSplitNext
    <2> QED
      BY <1>2, <2>3 DEF vars, callVars, ClientInv
  <1> QED
    BY <1>1, <1>2, StartKeeps, HeadersKeep, TickKeeps, HandleKeeps, HandleLateKeeps DEF Next

\* Every reachable state is well typed.
THEOREM ClientTypes == Spec => []TypeOK
  <1>1. ClientInv => TypeOK
    BY DEF ClientInv
  <1> QED
    BY <1>1, ClientInvInit, ClientInvNext, PTL DEF Spec

\* A call never waits for the headers longer than the timeout.
THEOREM HeadersComeInTime == Spec => []HeadersInTime
  <1>1. ClientInv => HeadersInTime
    BY DEF ClientInv, HeadersInTime
  <1> QED
    BY <1>1, ClientInvInit, ClientInvNext, PTL DEF Spec

\* No timer outlives the wait for the headers.
THEOREM TimerEndsWithHeaders == Spec => []TimerOnlyWhileFetching
  <1>1. ClientInv => TimerOnlyWhileFetching
    BY DEF ClientInv, TimerOnlyWhileFetching
  <1> QED
    BY <1>1, ClientInvInit, ClientInvNext, PTL DEF Spec

-----------------------------------------------------------------------------
(* The client keeps the contract. *)

Call(st, r) == [c \in {Caller} |-> [st |-> st, request_id |-> r]]

Answered(answer) == [c \in {Caller} |-> answer]

\* What the caller sees, by cases.
LEMMA CallsSeen ==
    /\ phase = "idle" => calls = Call("none", Null)
    /\ phase # "idle" /\ wire = "applied" => calls = Call("acked", rid)
    /\ phase # "idle" /\ wire # "applied" => calls = Call("sent", rid)
  BY DEF calls, Call

LEMMA CallsSeenNext ==
    /\ phase' = "idle" => calls' = Call("none", Null)
    /\ phase' # "idle" /\ wire' = "applied" => calls' = Call("acked", rid')
    /\ phase' # "idle" /\ wire' # "applied" => calls' = Call("sent", rid')
  BY DEF calls, Call

\* Starting a call is issuing it.
LEMMA StartIssues ==
    ASSUME NEW r \in Rids, NEW request \in Contract!Request, Start(r, request)
    PROVE  Contract!Issue(Caller, r, request)
  <1>1. phase = "idle" /\ phase' = "fetch" /\ wire' = "pending" /\ rid' = r
        /\ result' = "none"
    BY DEF Start, Begin
  <1>2. calls = Call("none", Null) /\ calls' = Call("sent", r)
    BY <1>1, CallsSeen, CallsSeenNext
  <1>3. Contract!Post(Caller, r)
    BY <1>2 DEF Contract!Post, Call
  <1>4. answers' = [answers EXCEPT ![Caller] = "none"]
    BY <1>1 DEF answers
  <1> QED
    BY <1>3, <1>4 DEF Start, Begin, Contract!Issue

\* Returning anything but success is reading ok = false.
LEMMA FailureSettles ==
    ASSUME phase # "idle", Abandon, Return("HTTP") \/ Return("LAMBDA_ERROR")
              \/ Return("UNEXPECTED_RESPONSE") \/ Return("UNKNOWN_ERROR")
              \/ Return("CONNECTION_ERROR") \/ Return("TIMEOUT")
    PROVE  Contract!Settle(Caller)
  <1>1. phase' = "idle" /\ result' \notin {"none", "ok"}
        /\ UNCHANGED <<requests, remote, applied>>
    BY DEF Return
  <1>2. calls' = [calls EXCEPT ![Caller] = Contract!NoCall]
    BY <1>1, CallsSeenNext DEF Call, calls, Contract!NoCall
  <1>3. answers' = [answers EXCEPT ![Caller] = "failed"]
    BY <1>1 DEF answers
  <1>4. calls[Caller].st # "none" /\ calls[Caller].request_id = rid
        /\ (wire = "pending" => calls[Caller].st = "sent")
    BY DEF calls
  <1>5. Contract!ReadFailure(Caller)
    BY <1>2, <1>4 DEF Contract!ReadFailure, Abandon
  <1> QED
    BY <1>1, <1>3, <1>5 DEF Contract!Settle

\* Returning success is reading ok = true of an applied request.
LEMMA OkSettles ==
    ASSUME OkBody
    PROVE  Contract!Settle(Caller)
  <1>1. phase # "idle" /\ wire = "applied" /\ phase' = "idle" /\ result' = "ok"
        /\ UNCHANGED <<requests, late, remote, applied>>
    BY DEF OkBody, Return
  <1>2. calls' = [calls EXCEPT ![Caller] = Contract!NoCall] /\ calls[Caller].st = "acked"
    BY <1>1, CallsSeen, CallsSeenNext DEF Call, Contract!NoCall
  <1>3. answers' = [answers EXCEPT ![Caller] = "ok"]
    BY <1>1 DEF answers
  <1> QED
    BY <1>1, <1>2, <1>3 DEF Contract!Settle, Contract!ReadOk

\* What Stage 1 does of its own accord.
LEMMA HandlingIsStage1 ==
    ASSUME Handle \/ \E r \in Rids : HandleLate(r)
    PROVE  \/ Contract!Stage1Step /\ UNCHANGED answers
           \/ UNCHANGED Contract!callVars
  <1>1. UNCHANGED answers
    BY DEF answers, Handle, HandleLate, callVars
  <1>2. CASE Handle
    <2>1. phase # "idle" /\ phase' # "idle" /\ rid' = rid /\ late' = late
          /\ calls = Call("sent", rid)
      BY <1>2, CallsSeen DEF Handle
    <2>2. CASE Contract!Upsert(rid) /\ wire' = "applied"
      <3>1. calls' = Call("acked", rid)
        BY <2>1, <2>2, CallsSeenNext
      <3>2. Contract!Apply(Caller)
        BY <2>1, <2>2, <3>1 DEF Contract!Apply, Call
      <3> QED
        BY <1>1, <3>2 DEF Contract!Stage1Step
    <2>3. CASE UNCHANGED <<requests, remote, applied>> /\ wire' = "refused"
      <3>1. calls' = Call("sent", rid)
        BY <2>1, <2>3, CallsSeenNext
      <3> QED
        BY <1>1, <2>1, <2>3, <3>1 DEF Contract!callVars, Contract!stage1Vars
    <2> QED
      BY <1>2, <2>2, <2>3 DEF Handle
  <1>3. ASSUME NEW r \in Rids, HandleLate(r)
        PROVE  \/ Contract!Stage1Step /\ UNCHANGED answers
               \/ UNCHANGED Contract!callVars
    <2>1. UNCHANGED calls
      BY <1>3 DEF calls, HandleLate, callVars
    <2>2. Contract!ApplyLate(r) \/ Contract!LoseLate(r)
      BY <1>3, <2>1 DEF HandleLate, Contract!ApplyLate, Contract!LoseLate
    <2> QED
      BY <1>1, <2>2 DEF Contract!Stage1Step
  <1> QED
    BY <1>2, <1>3

LEMMA StepsRefine ==
    ASSUME [Next]_vars
    PROVE  [Contract!Next]_(Contract!callVars)
  <1>1. CASE \E r \in Rids, request \in Contract!Request : Start(r, request)
    BY <1>1, StartIssues DEF Contract!Next
  <1>2. CASE OkBody
    BY <1>2, OkSettles DEF Contract!Next
  <1>3. CASE ErrorBody \/ RefusalBody \/ BrokenBody \/ FetchRejects \/ Abort
    <2>1. phase # "idle" /\ Abandon
      BY <1>3 DEF ErrorBody, RefusalBody, BrokenBody, FetchRejects, Abort, Abandon
    <2>2. Contract!Settle(Caller)
      BY <1>3, <2>1, FailureSettles
         DEF ErrorBody, RefusalBody, BrokenBody, FetchRejects, Abort
    <2> QED
      BY <2>2 DEF Contract!Next
  <1>4. CASE (\E line \in {"2xx", "other"} : Headers(line)) \/ Tick \/ UNCHANGED vars
    <2>1. UNCHANGED <<requests, late, remote, applied, rid, wire, result>>
          /\ (phase' = "idle" <=> phase = "idle")
      BY <1>4 DEF Headers, Tick, vars, callVars
    <2>2. UNCHANGED <<calls, answers>>
      BY <2>1 DEF calls, answers
    <2> QED
      BY <2>1, <2>2 DEF Contract!callVars, Contract!stage1Vars
  <1>5. CASE Handle \/ \E r \in Rids : HandleLate(r)
    BY <1>5, HandlingIsStage1 DEF Contract!Next
  <1> QED
    BY <1>1, <1>2, <1>3, <1>4, <1>5 DEF Next

\* The client implements the contract that EntityService and OutboxService
\* count on, whatever comes first of the answer, the timer, the connection
\* and a request given up before: ok = true is only ever read of a request
\* that Stage 1 has applied.
THEOREM ClientKeepsContract == Spec => ContractHolds
  <1>1. Init => Contract!Init
    <2> SUFFICES ASSUME Init PROVE Contract!Init
      OBVIOUS
    <2>1. calls = [c \in {Caller} |-> Contract!NoCall]
      BY DEF Init, calls, Contract!NoCall
    <2>2. answers = [c \in {Caller} |-> "none"]
      BY DEF Init, answers
    <2> QED
      BY <2>1, <2>2 DEF Init, Contract!Init, Contract!Stage1Init
  <1>2. [Next]_vars => [Contract!Next]_(Contract!callVars)
    BY StepsRefine
  <1> QED
    BY <1>1, <1>2, PTL DEF Spec, ContractHolds, Contract!Spec

=============================================================================
