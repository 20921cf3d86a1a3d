CONSTANTS
    Ids = {i1, i2}
    Malformed = bad
    Texts = {a}
    Empty = Empty
    MaxSyncs = 3
    MaxQueued = 1
    MaxAttempts = 1
    Null = Null
SPECIFICATION Spec
PROPERTY CreateRequiresReferences
