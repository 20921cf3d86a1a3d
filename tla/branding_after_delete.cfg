CONSTANTS
    Ids = {i1, i2}
    Names = {a}
    Rids = {r1, r2, r3}
    Handlers = {h1}
    Callers = {h1}
    MaxLate = 1
    Null = Null
    Idempotent = TRUE
    Versioned = FALSE
    Faults = {}
    Keys = {k1}
    CheckSeesDeleted = FALSE
SPECIFICATION KeyedSpec
SYMMETRY Symmetric
PROPERTY DuplicateAnswersConflict
