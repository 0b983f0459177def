\* Four commands: up, down to any revision, and up again, twice; two attempts at the
\* key, and one other row, which the application or anybody else writes.
CONSTANTS
    Attempts = {a1, a2}
    Nobody = Nobody
    ClaimTtl = 1
    ManualWrites = TRUE
    MaxRows = 1
    MaxNow = 2
    MaxCommands = 4
SPECIFICATION Spec
INVARIANTS
    RefusedOnlyByStain
    HeadRowsSound
PROPERTIES
    NoEarlyTakeover
    OutcomeByHolder
\* The clock and the commands are bounded.
CHECK_DEADLOCK FALSE
