\* Three attempts at one key, a claim that goes stale after two ticks, and time
\* for two takeovers in a row.
CONSTANTS
    Attempts = {a1, a2, a3}
    Keys = {k1}
    Nobody = Nobody
    ClaimTtl = 2
    MaxNow = 4
    KeyOf <- MCKeyOf
SPECIFICATION Spec
SYMMETRY Symmetry
INVARIANTS
    TypeOK
    AckedOutcomeStands
    ReportedOutcomeStands
    NoPhantomClaim
    LocksAreTransient
PROPERTY ClaimContract
\* Every attempt calls start() once, so the system comes to rest.
CHECK_DEADLOCK FALSE
