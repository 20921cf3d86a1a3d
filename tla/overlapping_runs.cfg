CONSTANTS
    Ids = {i1}
    Names = {a}
    Rids = {r1, r2}
    Runs = {p1, p2}
    Callers = {p1, p2}
    MaxLate = 1
    Null = Null
    Idempotent = FALSE
    Limit = 2
    MaxAttempts = 2
    Faults = {"crash", "mongo", "config"}
SPECIFICATION Spec
SYMMETRY Symmetric
INVARIANTS TypeOK SentWasApplied AttemptsWithinMax
PROPERTY SentIsFinal
