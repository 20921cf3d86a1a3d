CONSTANTS
    Ids = {i1}
    Names = {a, b}
    Rids = {r1, r2, r3}
    Handlers = {h1, h2}
    Callers = {h1, h2}
    MaxLate = 1
    Null = Null
    Idempotent = FALSE
    Versioned = TRUE
    Faults = {"crash", "mongo", "config"}
SPECIFICATION Spec
SYMMETRY Symmetric
VIEW WithoutAnswers
INVARIANTS TypeOK OkMeansApplied FailureIsQueued RemoteKnowsOnlyStored VersionIdentifiesArray
PROPERTIES DeletedIsFinal SyncNeverFailsCrud
