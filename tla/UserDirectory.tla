--------------------------- MODULE UserDirectory ----------------------------
(***************************************************************************)
(* Users, their Telegram accounts and their roles under concurrent calls   *)
(* of RegisterOrUpdateTelegramUser, BanUser and UnbanUser, one action per  *)
(* statement that can wait or fail.                                        *)
(*                                                                         *)
(* PostgreSQL at read committed: a statement that meets an uncommitted row *)
(* waits for its transaction to end; a DELETE does not see rows that were  *)
(* inserted after it began.  SQLAlchemy's identity map holds rows weakly:  *)
(* the row a repository loaded is gone once it has become an entity, and   *)
(* save() reads it again; it writes an attribute only if it differs from   *)
(* what that second read found.  Names and permissions are left out.       *)
(***************************************************************************)
EXTENDS Naturals, FiniteSets

CONSTANTS
    Workers,     \* each executes one use case
    Known,       \* the user that exists to begin with
    Accounts,    \* telegram_user_id
    OldAccount,  \* the account of Known
    Roles,       \* the roles granted to Known
    Nobody

ASSUME NamesAssumption == /\ {Known, Nobody} \cap Workers = {} /\ Known # Nobody
                          /\ OldAccount \in Accounts

\* The user a worker creates has a fresh id: it is named after the worker.
Users == Workers \union {Known}

Statuses == {"active", "banned", "disabled"}

VARIABLES
    status,       \* users: the status, or "absent"
    account,      \* telegram_identities: the user of each account, or Nobody
    roles,        \* user_roles
    rewrites,     \* how often the rows of user_roles were replaced
    statusLock,   \* per user, the transaction that has inserted or updated its row
    roleLock,     \* per user, the transaction that has deleted its user_roles
    accountLock,  \* per account, the transaction that has inserted its row
    pc,           \* where each worker is in its unit of work
    job,          \* the use case it executes
    target,       \* the account it registers
    user,         \* the user it has loaded or created
    entity,       \* that user, as loaded and changed in memory
    snapshot,     \* rewrites, as the DELETE of _sync_roles saw it
    overtaken     \* history: the workers whose user was banned after they loaded it

tables == <<status, account, roles, rewrites>>
locks == <<statusLock, roleLock, accountLock>>
locals == <<job, target, user, entity, snapshot>>
vars == <<tables, locks, pc, locals, overtaken>>

\* A transaction is open.
Open == {"attach", "save", "update", "sync", "delete", "insert", "commit"}

Init == /\ \E s \in {"active", "disabled"} :
               status = [u \in Users |-> IF u = Known THEN s ELSE "absent"]
        /\ account = [a \in Accounts |-> IF a = OldAccount THEN Known ELSE Nobody]
        /\ roles = [u \in Users |-> IF u = Known THEN Roles ELSE {}]
        /\ rewrites = [u \in Users |-> 0]
        /\ statusLock = [u \in Users |-> Nobody]
        /\ roleLock = [u \in Users |-> Nobody]
        /\ accountLock = [a \in Accounts |-> Nobody]
        /\ pc = [w \in Workers |-> "idle"]
        /\ job = [w \in Workers |-> "register"]
        /\ target = [w \in Workers |-> OldAccount]
        /\ user = [w \in Workers |-> Nobody]
        /\ entity = [w \in Workers |-> [status |-> "active", roles |-> {}]]
        /\ snapshot = [w \in Workers |-> 0]
        /\ overtaken = {}

-----------------------------------------------------------------------------
Goto(w, label) == pc' = [pc EXCEPT ![w] = label]

\* The transaction of w ends and its locks are released.
Without(w, lock) == [x \in DOMAIN lock |-> IF lock[x] = w THEN Nobody ELSE lock[x]]

Release(w) == /\ statusLock' = Without(w, statusLock)
              /\ roleLock' = Without(w, roleLock)
              /\ accountLock' = Without(w, accountLock)

\* Mutant of LoadedUser: the roles are not loaded.
LoadedUserOnly(u, s) == [status |-> s, roles |-> {}]

\* _to_domain, with the status the use case gives the entity.
LoadedUser(u, s) == [status |-> s, roles |-> roles[u]]

\* Mutant of FindAccount: the entity is built anew, with the default status.
FindAccountAnew(w, a) ==
    /\ pc[w] = "idle"
    /\ account[a] # Nobody
    /\ job' = [job EXCEPT ![w] = "register"]
    /\ target' = [target EXCEPT ![w] = a]
    /\ user' = [user EXCEPT ![w] = account[a]]
    /\ entity' = [entity EXCEPT ![w] = LoadedUser(account[a], "active")]
    /\ Goto(w, "save")
    /\ UNCHANGED <<tables, locks, snapshot, overtaken>>

\* get_by_telegram_identity finds the account: its user is to be refreshed.
FindAccount(w, a) ==
    /\ pc[w] = "idle"
    /\ account[a] # Nobody
    /\ job' = [job EXCEPT ![w] = "register"]
    /\ target' = [target EXCEPT ![w] = a]
    /\ user' = [user EXCEPT ![w] = account[a]]
    /\ entity' = [entity EXCEPT ![w] = LoadedUser(account[a], status[account[a]])]
    /\ Goto(w, "save")
    /\ UNCHANGED <<tables, locks, snapshot, overtaken>>

\* get_by_telegram_identity finds nothing: a new user is added and its row,
\* invisible to others, is inserted.
AddUser(w, a) ==
    /\ pc[w] = "idle"
    /\ account[a] = Nobody
    /\ job' = [job EXCEPT ![w] = "create"]
    /\ target' = [target EXCEPT ![w] = a]
    /\ user' = [user EXCEPT ![w] = w]
    /\ entity' = [entity EXCEPT ![w] = [status |-> "active", roles |-> {}]]
    /\ statusLock' = [statusLock EXCEPT ![w] = w]
    /\ Goto(w, "attach")
    /\ UNCHANGED <<tables, roleLock, accountLock, snapshot, overtaken>>

\* attach_telegram_identity inserts the account.
AttachIdentity(w) ==
    /\ pc[w] = "attach"
    /\ account[target[w]] = Nobody /\ accountLock[target[w]] = Nobody
    /\ accountLock' = [accountLock EXCEPT ![target[w]] = w]
    /\ Goto(w, "commit")
    /\ UNCHANGED <<tables, statusLock, roleLock, locals, overtaken>>

\* Mutant of AttachRefused: the error is swallowed and the user is kept.
AttachRefusedKept(w) ==
    /\ pc[w] = "attach"
    /\ account[target[w]] # Nobody
    /\ Goto(w, "commit")
    /\ UNCHANGED <<tables, locks, locals, overtaken>>

\* The account has been registered meanwhile: IntegrityError, rolled back.
AttachRefused(w) ==
    /\ pc[w] = "attach"
    /\ account[target[w]] # Nobody
    /\ Release(w)
    /\ Goto(w, "conflict")
    /\ UNCHANGED <<tables, locals, overtaken>>

\* ban() does not raise on a user of this status; nor does unban().
CanBan(s) == s # "banned"

CanUnban(s) == s = "banned"

\* BanUser and UnbanUser load the user and change the entity.
LoadUser(w, u, j) ==
    /\ pc[w] = "idle"
    /\ status[u] # "absent"
    /\ IF j = "ban" THEN CanBan(status[u]) ELSE CanUnban(status[u])
    /\ job' = [job EXCEPT ![w] = j]
    /\ user' = [user EXCEPT ![w] = u]
    /\ entity' = [entity EXCEPT ![w] =
                      LoadedUser(u, IF j = "ban" THEN "banned" ELSE "active")]
    /\ Goto(w, "save")
    /\ UNCHANGED <<tables, locks, target, snapshot, overtaken>>

\* NotFoundError, or the entity raises ConflictError.
RefuseUser(w, u, j) ==
    /\ pc[w] = "idle"
    /\ status[u] = "absent" \/ ~ (IF j = "ban" THEN CanBan(status[u]) ELSE CanUnban(status[u]))
    /\ Goto(w, "refused")
    /\ UNCHANGED <<tables, locks, locals, overtaken>>

\* save() reads the row a second time: if its status is not that of the entity,
\* an UPDATE is due.
Reread(w) ==
    /\ pc[w] = "save"
    /\ Goto(w, IF status[user[w]] = entity[w].status THEN "sync" ELSE "update")
    /\ UNCHANGED <<tables, locks, locals, overtaken>>

\* The UPDATE of users, flushed before the next statement.
UpdateStatus(w) ==
    /\ pc[w] = "update"
    /\ statusLock[user[w]] = Nobody
    /\ statusLock' = [statusLock EXCEPT ![user[w]] = w]
    /\ Goto(w, "sync")
    /\ UNCHANGED <<tables, roleLock, accountLock, locals, overtaken>>

-----------------------------------------------------------------------------
\* The DELETE of _sync_roles begins.
SyncRoles(w) ==
    /\ pc[w] = "sync"
    /\ snapshot' = [snapshot EXCEPT ![w] = rewrites[user[w]]]
    /\ Goto(w, "delete")
    /\ UNCHANGED <<tables, locks, job, target, user, entity, overtaken>>

\* The DELETE ends: it has removed the rows it saw, unless another transaction
\* has replaced them.
DeleteRoles(w) ==
    /\ pc[w] = "delete"
    /\ LET u == user[w]
       IN IF roles[u] = {}
          THEN roleLock' = roleLock
          ELSE /\ roleLock[u] = Nobody
               /\ IF snapshot[w] = rewrites[u] THEN roleLock' = [roleLock EXCEPT ![u] = w]
                                               ELSE roleLock' = roleLock
    /\ Goto(w, "insert")
    /\ UNCHANGED <<tables, statusLock, accountLock, locals, overtaken>>

\* No row that is stored is in the way of the INSERTs of _sync_roles.
RoomForRoles(w) == \/ roleLock[user[w]] = w
                   \/ entity[w].roles \cap roles[user[w]] = {}

\* The INSERTs of _sync_roles succeed.  The roles were loaded with the user, so
\* _get_or_create_role and _get_or_create_permission find all their rows.
InsertRoles(w) ==
    /\ pc[w] = "insert"
    /\ RoomForRoles(w)
    /\ Goto(w, "commit")
    /\ UNCHANGED <<tables, locks, locals, overtaken>>

\* IntegrityError on the primary key of user_roles, rolled back.
InsertRolesRefused(w) ==
    /\ pc[w] = "insert"
    /\ ~ RoomForRoles(w) /\ roleLock[user[w]] = Nobody
    /\ Release(w)
    /\ Goto(w, "conflict")
    /\ UNCHANGED <<tables, locals, overtaken>>

\* The unit of work commits what it has inserted, updated and replaced.
Commit(w) ==
    /\ pc[w] = "commit"
    /\ status' = [u \in Users |-> IF statusLock[u] = w THEN entity[w].status ELSE status[u]]
    /\ account' = [a \in Accounts |-> IF accountLock[a] = w THEN user[w] ELSE account[a]]
    /\ roles' = [u \in Users |-> IF roleLock[u] = w THEN entity[w].roles ELSE roles[u]]
    /\ rewrites' = [u \in Users |-> IF roleLock[u] = w THEN rewrites[u] + 1 ELSE rewrites[u]]
    /\ overtaken' = overtaken \union
                        {v \in Workers \ {w} :
                             /\ pc[v] \in Open /\ user[v] = user[w]
                             /\ status[user[w]] # "banned" /\ status'[user[w]] = "banned"}
    /\ Release(w)
    /\ Goto(w, "done")
    /\ UNCHANGED locals


\* A statement or the commit fails, and the unit of work is rolled back.
Abort(w) ==
    /\ pc[w] \in Open
    /\ Release(w)
    /\ Goto(w, "error")
    /\ UNCHANGED <<tables, locals, overtaken>>

Step(w) == \/ AttachIdentity(w) \/ AttachRefused(w) \/ Reread(w) \/ UpdateStatus(w)
           \/ SyncRoles(w) \/ DeleteRoles(w) \/ InsertRoles(w) \/ InsertRolesRefused(w)
           \/ Commit(w)

Next == \E w \in Workers :
            \/ \E a \in Accounts : FindAccount(w, a) \/ AddUser(w, a)
            \/ \E u \in Users, j \in {"ban", "unban"} : LoadUser(w, u, j) \/ RefuseUser(w, u, j)
            \/ Step(w) \/ Abort(w)

Spec == Init /\ [][Next]_vars

\* The server queues the statements that wait for a lock.
FairSpec == Spec /\ \A w \in Workers : SF_vars(Step(w))

-----------------------------------------------------------------------------
\* Every variable has its type.
TypeOK == /\ status \in [Users -> Statuses \union {"absent"}]
          /\ account \in [Accounts -> Users \union {Nobody}]
          /\ roles \in [Users -> SUBSET Roles]
          /\ rewrites \in [Users -> Nat]
          /\ statusLock \in [Users -> Workers \union {Nobody}]
          /\ roleLock \in [Users -> Workers \union {Nobody}]
          /\ accountLock \in [Accounts -> Workers \union {Nobody}]
          /\ pc \in [Workers -> Open \union {"idle", "done", "refused", "conflict", "error"}]
          /\ job \in [Workers -> {"register", "create", "ban", "unban"}]
          /\ target \in [Workers -> Accounts]
          /\ user \in [Workers -> Users \union {Nobody}]
          /\ entity \in [Workers -> [status : Statuses, roles : SUBSET Roles]]
          /\ snapshot \in [Workers -> Nat]
          /\ overtaken \subseteq Workers

\* A ban is lifted only by UnbanUser: a registration refreshes the details of
\* the account and leaves the status alone.
BanStands ==
    [][\A u \in Users : status[u] = "banned" /\ status'[u] # "banned" =>
           \E w \in Workers : job[w] = "unban" /\ user[w] = u /\ pc[w] = "commit"]_vars

\* What holds of it: a registration that loads the user after the ban was
\* committed does not lift it, whatever else is done to the user meanwhile;
\* only one that had loaded the user before can.
LaterSavesKeepBan ==
    [][\A u \in Users : status[u] = "banned" /\ status'[u] # "banned" =>
           \E w \in Workers : /\ user[w] = u /\ pc[w] = "commit"
                              /\ job[w] = "unban" \/ w \in overtaken]_vars

\* Every user has an account, and one account each: of two first messages of
\* an account that are handled at once, one leaves no trace.
NoOrphanUser ==
    \A u \in Users : status[u] # "absent" => Cardinality({a \in Accounts : account[a] = u}) = 1

\* Registering, banning and unbanning a user leave its roles alone, although
\* every save deletes them and inserts them again.
RolesPreserved == roles[Known] = Roles

=============================================================================
