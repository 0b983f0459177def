\* Two attempts at the same key, and every fault; time for one takeover while
\* the first attempt is still at work.  An attempt claims once, so there is no
\* second takeover for a later clock to reach.
CONSTANTS
    KeyOf <- MCKeyOf
    Limits <- MCLimits
    Attempts = {t1, t2}
    Retries = {t1, t2}
    Keys = {k1}
    NoKey = NoKey
    Nobody = Nobody
    Entitled = {t1, t2}
    ClaimTtl = 1
    MaxSeconds = 1
    StepLimits = {2, 3}
    MaxToolCalls = 1
    Faults = {"database", "cancel", "crash"}
    MaxNow = 1
SPECIFICATION FairSpec
INVARIANTS
    AnswerIsAtomic
    StoredRunsWellFormed
    RunsSettle
    StartedTurnsSettleClaim
    PaidAnswerKept
PROPERTIES
    AnsweredOnce
    EndIsFinal
    ClaimContract
    TurnsEnd
\* Every attempt is made once, so the system comes to rest.
CHECK_DEADLOCK FALSE
