\* A registration and a ban of one user.
CONSTANTS
    Workers = {w1, w2}
    Known = Known
    Accounts = {a1}
    OldAccount = a1
    Roles = {r1}
    Nobody = Nobody
SPECIFICATION Spec
PROPERTY BanStands
\* Every worker does one job.
CHECK_DEADLOCK FALSE
