CONSTANTS
    Ids = {i1}
    Names = {a, b}
    Rids = {r1, r2}
    MaxLate = 1
    Null = Null
    Idempotent = FALSE
    Caller = c1
    Timeout = 2
    MaxClock = 3
SPECIFICATION Spec
INVARIANTS TypeOK HeadersInTime TimerOnlyWhileFetching
PROPERTIES ContractHolds HeadersOrFailure
