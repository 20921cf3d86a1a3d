CONSTANTS
    Ids = {i1}
    Names = {a}
    Rids = {r1, r2}
    Handlers = {h1, h2}
    Runs = {p1}
    Callers = {h1, h2, p1}
    MaxLate = 1
    Null = Null
    Idempotent = TRUE
    Versioned = FALSE
    Limit = 2
    MaxAttempts = 2
    Faults = {"crash", "mongo"}
SPECIFICATION ProcessSpec
SYMMETRY Symmetric
VIEW WithoutAnswers
INVARIANTS ProcessTypeOK DivergenceHasACause RetryFollowsCall LastSyncAgreesWithOutbox SentIsNotResent
PROPERTIES AttemptsNeverDecrease DeliveryHolds
