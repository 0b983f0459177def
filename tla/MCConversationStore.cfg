\* Three workers with any use cases, and three messages.
CONSTANTS
    Workers = {w1, w2, w3}
    Ids = {1, 2, 3}
    Nothing = Nothing
    MaxNow = 1
SPECIFICATION Spec
INVARIANT ReadInAppendOrder
PROPERTY ClosedNeverReopens
