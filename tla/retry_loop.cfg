CONSTANTS
    Ids = {i1}
    Names = {a}
    Rids = {r1, r2}
    Runs = {p1}
    Callers = {p1}
    MaxLate = 1
    Null = Null
    Idempotent = TRUE
    Limit = 2
    MaxAttempts = 2
    Faults = {"mongo", "config"}
SPECIFICATION FairSpec
PROPERTIES EventuallySettled RunEnds
