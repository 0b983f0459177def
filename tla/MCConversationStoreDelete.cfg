\* Two workers are enough: one archives what the other deletes.
CONSTANTS
    Workers = {w1, w2}
    Ids = {1, 2}
    Nothing = Nothing
    MaxNow = 1
SPECIFICATION Spec
PROPERTY DeletedStaysDeleted
