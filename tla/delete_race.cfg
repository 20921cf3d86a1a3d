CONSTANTS
    Ids = {i1}
    Names = {a, b}
    Rids = {r1, r2, r3}
    Handlers = {h1, h2}
    Callers = {h1, h2}
    MaxLate = 1
    Null = Null
    Idempotent = FALSE
    Versioned = FALSE
    Faults = {}
SPECIFICATION Spec
SYMMETRY Symmetric
INVARIANT DeletedIsDisabled
