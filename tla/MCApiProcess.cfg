\* Two units of work and a probe share one connection.
CONSTANTS
    Tasks = {t1, t2}
    Requests = {r1}
    Capacity = 1
    MaxStatements = 2
    Environments <- MCEnvironments
SPECIFICATION ApiSpec
INVARIANT OriginalErrorKept
INVARIANT ErrorMeansNothingDone
INVARIANT NoConnectionLeaks
INVARIANT ReadyIsEarned
PROPERTY ProbesEnd
PROPERTY SettingsFaithful
\* The process stops.
CHECK_DEADLOCK FALSE
