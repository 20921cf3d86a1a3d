CONSTANTS
    Ids = {i1}
    Names = {a}
    Rids = {r1, r2}
    Runs = {p1}
    Callers = {p1}
    MaxLate = 1
    Null = Null
    Idempotent = TRUE
    Limit = 1
    MaxAttempts = 2
    Faults = {}
SPECIFICATION FairSpec
PROPERTY WaitingItemIsRetried
