CONSTANTS
    Ids = {i1, i2}
    Malformed = bad
    Texts = {a, b}
    Empty = Empty
    MaxSyncs = 3
    MaxQueued = 1
    MaxAttempts = 1
    Null = Null
SPECIFICATION Spec
SYMMETRY Symmetric
VIEW WithoutAnswer
INVARIANTS TypeOK ReachesStage1 InnerStaysInside EndpointsKeepTheirType DeletedIsOff
PROPERTY KeysAreFinal
