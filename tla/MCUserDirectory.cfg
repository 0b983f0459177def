\* Three workers on one user with two roles and on one new account.
CONSTANTS
    Workers = {w1, w2, w3}
    Known = Known
    Accounts = {a1, a2}
    OldAccount = a1
    Roles = {r1, r2}
    Nobody = Nobody
SPECIFICATION FairSpec
INVARIANT NoOrphanUser
INVARIANT RolesPreserved
PROPERTY LaterSavesKeepBan
 
\* Every worker does one job.
CHECK_DEADLOCK FALSE
