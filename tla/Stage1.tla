------------------------------- MODULE Stage1 -------------------------------
(***************************************************************************)
(* The Stage 1 lambda and the network in front of it, as the back office   *)
(* sees them through HubLambdaClient.  The code of Stage 1 is not in this  *)
(* repository: what is stated here is what hub-lambda-client.ts relies on. *)
(* An upsert replaces the whole entity it names.  A call that its caller   *)
(* has given up (AbortController, lost connection, dead process) may still *)
(* reach Stage 1 afterwards.                                               *)
(***************************************************************************)
EXTENDS Naturals, FiniteSets

CONSTANTS
    Ids,          \* ObjectIds of the documents of one entity type
    Names,        \* values of the fields of its own that a type has
    Rids,         \* the request ids that may be generated (bounds the run)
    Callers,      \* whoever awaits a call: request handlers, outbox runs
    MaxLate,      \* abandoned calls per request on their way (bounds the run)
    Null,
    Idempotent    \* Stage 1 ignores a request_id it has already applied

ASSUME Stage1Assumption ==
    /\ IsFiniteSet(Callers)
    /\ MaxLate \in Nat
    /\ Idempotent \in BOOLEAN

VARIABLES
    requests,     \* request_id |-> the payload built under it, or Null
    calls,        \* caller |-> the call it awaits
    late,         \* request_id |-> abandoned calls still on their way
    remote,       \* id |-> what Stage 1 stores for it, or Null
    applied       \* the request ids Stage 1 has applied

stage1Vars == <<requests, calls, late, remote, applied>>

Body == [name: Names, enabled: BOOLEAN]
Request == [id: Ids, body: Body]
Call == [st: {"none", "sent", "acked"}, request_id: Rids \cup {Null}]
NoCall == [st |-> "none", request_id |-> Null]

Stage1TypeOK ==
    /\ requests \in [Rids -> Request \cup {Null}]
    /\ calls \in [Callers -> Call]
    /\ late \in [Rids -> 0..MaxLate]
    /\ remote \in [Ids -> Body \cup {Null}]
    /\ applied \subseteq Rids

Stage1Init ==
    /\ requests = [r \in Rids |-> Null]
    /\ calls = [c \in Callers |-> NoCall]
    /\ late = [r \in Rids |-> 0]
    /\ remote = [i \in Ids |-> Null]
    /\ applied = {}

-----------------------------------------------------------------------------
(* The caller's side: parts of the actions of the modules that call. *)

\* fetch() is issued for request r.
Post(c, r) ==
    /\ calls[c].st = "none"
    /\ calls' = [calls EXCEPT ![c] = [st |-> "sent", request_id |-> r]]

\* The caller reads ok = true, which only Stage 1 can have written.
ReadOk(c) ==
    /\ calls[c].st = "acked"
    /\ calls' = [calls EXCEPT ![c] = NoCall]
    /\ UNCHANGED late

\* The caller reads ok = false: a refusal, a timeout, a broken connection or
\* an unreadable answer.  A request not yet handled may survive its caller.
ReadFailure(c) ==
    /\ calls[c].st # "none"
    /\ calls' = [calls EXCEPT ![c] = NoCall]
    /\ \/ UNCHANGED late
       \/ /\ calls[c].st = "sent"
          /\ late[calls[c].request_id] < MaxLate
          /\ late' = [late EXCEPT ![calls[c].request_id] = @ + 1]

\* The process of all the callers dies; any of their requests may survive.
DropCalls ==
    /\ calls' = [c \in Callers |-> NoCall]
    /\ \E survivors \in SUBSET {c \in Callers : calls[c].st = "sent"} :
          LET surviving(r) == {c \in survivors : calls[c].request_id = r}
          IN  /\ \A r \in Rids : late[r] + Cardinality(surviving(r)) <= MaxLate
              /\ late' = [r \in Rids |-> late[r] + Cardinality(surviving(r))]

-----------------------------------------------------------------------------
(* Stage 1's side. *)

Upsert(r) ==
    /\ remote' = IF Idempotent /\ r \in applied
                 THEN remote
                 ELSE [remote EXCEPT ![requests[r].id] = requests[r].body]
    /\ applied' = applied \cup {r}
    /\ UNCHANGED requests

Apply(c) ==
    /\ calls[c].st = "sent"
    /\ Upsert(calls[c].request_id)
    /\ calls' = [calls EXCEPT ![c].st = "acked"]
    /\ UNCHANGED late

ApplyLate(r) ==
    /\ late[r] > 0
    /\ Upsert(r)
    /\ late' = [late EXCEPT ![r] = @ - 1]
    /\ UNCHANGED calls

LoseLate(r) ==
    /\ late[r] > 0
    /\ late' = [late EXCEPT ![r] = @ - 1]
    /\ UNCHANGED <<requests, calls, remote, applied>>

Stage1Step ==
    \/ \E c \in Callers : Apply(c)
    \/ \E r \in Rids : ApplyLate(r) \/ LoseLate(r)

=============================================================================
