--------------------------- MODULE HubLambdaClient ---------------------------
(***************************************************************************)
(* HubLambdaClient.makeRequest (shared/hub-lambda-client): one caller, one *)
(* call after the other.  A call is a fetch with an abort timer; the timer *)
(* is cleared when the headers of the answer are there, and the body is    *)
(* read without one.  Time is counted in ticks from the start of a call.   *)
(* The Stage 1 side of the call (the variable wire) is external.           *)
(***************************************************************************)
EXTENDS Naturals

CONSTANTS
    Ids, Names, Rids, MaxLate, Null, Idempotent,
    Caller,       \* the one caller
    Timeout,      \* ADMIN_TIMEOUT_MS, in ticks
    MaxClock      \* no call is observed longer than this (bounds the run)

ASSUME HubLambdaClientAssumption ==
    /\ MaxLate \in Nat
    /\ Timeout \in Nat \ {0}
    /\ MaxClock \in Nat
    /\ MaxClock > Timeout

VARIABLES
    requests, late, remote, applied,   \* as in Stage1
    phase,    \* "idle", "fetch": headers awaited, "body": body awaited
    rid,      \* the request of the current call
    timer,    \* the abort timer is running
    clock,    \* ticks since the call began
    wire,     \* what Stage 1 made of the request: "pending", "applied", "refused"
    status,   \* status line of the answer: "none", "2xx", "other"
    result    \* the code of the last HubLambdaResponse, or "ok"

callVars == <<phase, rid, timer, clock, wire, status, result>>
vars == <<requests, late, remote, applied, callVars>>

Codes == {"none", "ok", "HTTP", "LAMBDA_ERROR", "UNEXPECTED_RESPONSE",
          "TIMEOUT", "CONNECTION_ERROR", "UNKNOWN_ERROR"}

\* The call as its caller sees it.
calls ==
    [c \in {Caller} |->
        IF phase = "idle" THEN [st |-> "none", request_id |-> Null]
        ELSE [st |-> IF wire = "applied" THEN "acked" ELSE "sent",
              request_id |-> rid]]

\* The answer as its caller reads it.
answers ==
    [c \in {Caller} |-> CASE result = "none" -> "none"
                          [] result = "ok"   -> "ok"
                          [] OTHER           -> "failed"]

Contract == INSTANCE LambdaCall WITH Callers <- {Caller}

TypeOK ==
    /\ Contract!TypeOK
    /\ phase \in {"idle", "fetch", "body"}
    /\ rid \in Rids \cup {Null}
    /\ timer \in BOOLEAN
    /\ clock \in 0..MaxClock
    /\ wire \in {"pending", "applied", "refused"}
    /\ status \in {"none", "2xx", "other"}
    /\ result \in Codes

Init ==
    /\ phase = "idle"
    /\ rid = Null
    /\ timer = FALSE
    /\ clock = 0
    /\ wire = "pending"
    /\ status = "none"
    /\ result = "none"
    /\ Contract!Stage1Init

-----------------------------------------------------------------------------

\* setTimeout and fetch().
Begin(r, request, timed) ==
    /\ phase = "idle"
    /\ requests[r] \in {Null, request}
    /\ requests' = [requests EXCEPT ![r] = request]
    /\ phase' = "fetch"
    /\ rid' = r
    /\ timer' = timed
    /\ clock' = 0
    /\ wire' = "pending"
    /\ status' = "none"
    /\ result' = "none"
    /\ UNCHANGED <<late, remote, applied>>

\* Mutant of Start: no timer.
StartUntimed(r, request) == Begin(r, request, FALSE)

Start(r, request) == Begin(r, request, TRUE)

\* makeRequest returns.
Return(code) ==
    /\ phase' = "idle"
    /\ rid' = Null
    /\ timer' = FALSE
    /\ clock' = 0
    /\ wire' = "pending"
    /\ status' = "none"
    /\ result' = code
    /\ UNCHANGED <<requests, remote, applied>>

\* A request that Stage 1 has not handled is abandoned on its way or dies with
\* the connection.
Abandon ==
    \/ UNCHANGED late
    \/ /\ wire = "pending"
       /\ late[rid] < MaxLate
       /\ late' = [late EXCEPT ![rid] = @ + 1]

\* Mutant of Headers: the timer goes on.
HeadersTimed(line) ==
    /\ phase = "fetch"
    /\ wire # "pending" \/ line = "other"
    /\ phase' = "body"
    /\ status' = line
    /\ UNCHANGED <<requests, late, remote, applied, rid, timer, clock, wire, result>>

\* The headers arrive in time; the timer is cleared.
Headers(line) ==
    /\ phase = "fetch"
    /\ wire # "pending" \/ line = "other"
    /\ phase' = "body"
    /\ timer' = FALSE
    /\ status' = line
    /\ UNCHANGED <<requests, late, remote, applied, rid, clock, wire, result>>

\* Mutants of ErrorBody and OkBody: a code of its own for every status; any
\* 2xx answer is a success.
ErrorBodyUncoded ==
    /\ phase = "body"
    /\ status = "other"
    /\ Abandon
    /\ Return(status)

OkBodyUnread ==
    /\ phase = "body"
    /\ status = "2xx"
    /\ UNCHANGED late
    /\ Return("ok")

\* response.ok is false: the body, whatever it is, only words the error.
ErrorBody ==
    /\ phase = "body"
    /\ status = "other"
    /\ Abandon
    /\ Return("HTTP")

\* data.ok === true; only Stage 1 says so, of a request it has applied.
OkBody ==
    /\ phase = "body"
    /\ status = "2xx"
    /\ wire = "applied"
    /\ UNCHANGED late
    /\ Return("ok")

\* data.ok === false with an error, or anything else in a 2xx answer.
RefusalBody ==
    /\ phase = "body"
    /\ status = "2xx"
    /\ UNCHANGED late
    /\ \/ wire = "refused" /\ Return("LAMBDA_ERROR")
       \/ Return("UNEXPECTED_RESPONSE")

\* The body breaks off or is no JSON: the catch block.
BrokenBody ==
    /\ phase = "body"
    /\ Abandon
    /\ Return("UNKNOWN_ERROR")

\* fetch() rejects before the headers.
FetchRejects ==
    /\ phase = "fetch"
    /\ Abandon
    /\ Return("CONNECTION_ERROR") \/ Return("UNKNOWN_ERROR")

\* The timer fires and fetch() rejects with AbortError.
Abort ==
    /\ phase = "fetch"
    /\ timer
    /\ clock = Timeout
    /\ Abandon
    /\ Return("TIMEOUT")

\* A timer that is due fires before more time passes.
Tick ==
    /\ phase # "idle"
    /\ clock < MaxClock
    /\ ~(timer /\ clock = Timeout)
    /\ clock' = clock + 1
    /\ UNCHANGED <<requests, late, remote, applied,
                   phase, rid, timer, wire, status, result>>

\* Stage 1 handles the request of the call in progress.
Handle ==
    /\ phase # "idle"
    /\ wire = "pending"
    /\ \/ Contract!Upsert(rid) /\ wire' = "applied"
       \/ UNCHANGED <<requests, remote, applied>> /\ wire' = "refused"
    /\ UNCHANGED <<late, phase, rid, timer, clock, status, result>>

HandleLate(r) ==
    /\ late[r] > 0
    /\ late' = [late EXCEPT ![r] = @ - 1]
    /\ Contract!Upsert(r) \/ UNCHANGED <<requests, remote, applied>>
    /\ UNCHANGED callVars

Next ==
    \/ \E r \in Rids, request \in Contract!Request : Start(r, request)
    \/ \E line \in {"2xx", "other"} : Headers(line)
    \/ ErrorBody \/ OkBody \/ RefusalBody \/ BrokenBody
    \/ FetchRejects \/ Abort \/ Tick
    \/ Handle
    \/ \E r \in Rids : HandleLate(r)

\* Time passes and a due timer fires; the network owes nothing.
Spec == Init /\ [][Next]_vars /\ WF_vars(Tick) /\ WF_vars(Abort)

-----------------------------------------------------------------------------

\* The client keeps the contract its callers are modelled with: ok = true
\* only for an applied request, no matter which of the answer, the timer, the
\* connection and the late request comes first.
ContractHolds == Contract!Spec

\* No timer outlives the wait for the headers, so none can abort later.
TimerOnlyWhileFetching == timer => phase = "fetch"

\* A call never waits for the headers longer than the timeout.
HeadersInTime == phase = "fetch" => clock <= Timeout

\* The wait for the headers ends, even if Stage 1 never answers.
HeadersOrFailure == phase = "fetch" ~> phase # "fetch"

=============================================================================
