CONSTANTS
    Ids = {i1, i2}
    Names = {a}
    Rids = {r1, r2, r3}
    Handlers = {h1, h2}
    Callers = {h1, h2}
    MaxLate = 0
    Null = Null
    Idempotent = TRUE
    Versioned = FALSE
    Faults = {"mongo", "crash", "config"}
    Keys = {k1}
    CheckSeesDeleted = FALSE
SPECIFICATION KeyedSpec
SYMMETRY Symmetric
INVARIANTS KeyedTypeOK RemoteKeysUnique
