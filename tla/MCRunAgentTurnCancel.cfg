\* One attempt, whose task may be cancelled.
CONSTANTS
    KeyOf <- MCKeyOf
    Limits <- MCLimits
    Attempts = {t1}
    Retries = {t1}
    Keys = {k1}
    NoKey = NoKey
    Nobody = Nobody
    Entitled = {t1}
    ClaimTtl = 2
    MaxSeconds = 1
    StepLimits = {2, 3}
    MaxToolCalls = 1
    Faults = {"cancel"}
    MaxNow = 3
SPECIFICATION Spec
INVARIANT NoRunLeftRunning
\* Every attempt is made once, so the system comes to rest.
CHECK_DEADLOCK FALSE
