----------------------------- MODULE LambdaCall -----------------------------
(***************************************************************************)
(* What the callers of HubLambdaClient count on, for any of its calls: it  *)
(* is issued once, ok = true is read only after Stage 1 has applied the    *)
(* request, ok = false may be read at any time and says nothing, and a     *)
(* request whose call was given up may be applied later, at most once.     *)
(* EntityService and OutboxService are built from these same steps.        *)
(***************************************************************************)
EXTENDS Stage1

VARIABLE
    answers       \* caller |-> what it read of its last call

Answer == {"none", "ok", "failed"}

callVars == <<stage1Vars, answers>>

TypeOK == Stage1TypeOK /\ answers \in [Callers -> Answer]

Init == Stage1Init /\ answers = [c \in Callers |-> "none"]

\* The payload of a new request, or that of an earlier one for a retry.
Issue(c, r, request) ==
    /\ requests[r] \in {Null, request}
    /\ requests' = [requests EXCEPT ![r] = request]
    /\ Post(c, r)
    /\ answers' = [answers EXCEPT ![c] = "none"]
    /\ UNCHANGED <<late, remote, applied>>

Settle(c) ==
    /\ \/ ReadOk(c) /\ answers' = [answers EXCEPT ![c] = "ok"]
       \/ ReadFailure(c) /\ answers' = [answers EXCEPT ![c] = "failed"]
    /\ UNCHANGED <<requests, remote, applied>>

Next ==
    \/ \E c \in Callers :
          \/ \E r \in Rids, request \in Request : Issue(c, r, request)
          \/ Settle(c)
    \/ Stage1Step /\ UNCHANGED answers

Spec == Init /\ [][Next]_callVars

=============================================================================
