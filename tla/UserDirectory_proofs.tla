------------------------ MODULE UserDirectory_proofs -------------------------
(***************************************************************************)
(* Proofs about users, accounts and roles, for every set of workers, of    *)
(* accounts and of roles.                                                  *)
(*                                                                         *)
(* What carries the argument is who may write what: the row of a user is   *)
(* created by its worker only, an account is written by the one            *)
(* transaction that holds its uncommitted row, and whoever replaces the    *)
(* roles of a user has loaded that very user.  A ban stands against those  *)
(* who have loaded the user after it.                                      *)
(***************************************************************************)
EXTENDS UserDirectory, FiniteSetTheorems, TLAPS

\* A worker's user appears when its transaction commits; a unit of work holds
\* the user it was asked for, with the status its use case gives it.
UsersInv ==
    /\ \A w \in Workers : status[w] # "absent" => pc[w] = "done"
    /\ \A w \in Workers : pc[w] \in Open =>
           /\ user[w] \in Users
           /\ job[w] = "create" => /\ user[w] = w
                                   /\ pc[w] \in {"attach", "commit"}
           /\ job[w] # "create" => status[user[w]] # "absent" /\ pc[w] # "attach"
           /\ job[w] = "ban" => entity[w].status = "banned"

\* Accounts belong to users that exist, and each of these has one.
AccountsInv ==
    /\ \A a \in Accounts : account[a] # Nobody => status[account[a]] # "absent"
    /\ \A u \in Users : status[u] # "absent" =>
           \E a \in Accounts : {b \in Accounts : account[b] = u} = {a}

\* An uncommitted account is that of the registration about to commit, and is
\* free until then; uncommitted rows of users and roles are those of the user
\* being saved.
LocksInv ==
    /\ \A w \in Workers, u \in Users : statusLock[u] = w => user[w] = u /\ pc[w] \in Open
    /\ \A w \in Workers : pc[w] \in Open /\ job[w] = "create" => statusLock[w] = w
    /\ \A w \in Workers, a \in Accounts : accountLock[a] = w =>
           account[a] = Nobody /\ target[w] = a /\ pc[w] = "commit" /\ job[w] = "create"
    /\ \A w \in Workers : pc[w] = "commit" /\ job[w] = "create" => accountLock[target[w]] = w
    /\ \A w \in Workers, u \in Users : roleLock[u] = w =>
           user[w] = u /\ pc[w] \in {"insert", "commit"}

\* Roles are what they were, in the table and in every entity.
RolesInv ==
    /\ roles = [u \in Users |-> IF u = Known THEN Roles ELSE {}]
    /\ \A w \in Workers : pc[w] \in Open => entity[w].roles = roles[user[w]]

\* A registration that a ban has not overtaken knows that its user is banned.
BanInv ==
    \A w \in Workers : pc[w] \in Open /\ job[w] = "register" /\ w \notin overtaken =>
        (status[user[w]] = "banned" => entity[w].status = "banned")

\* The inductive invariant.
IInv == TypeOK /\ UsersInv /\ AccountsInv /\ LocksInv /\ RolesInv /\ BanInv

-----------------------------------------------------------------------------
\* The names of users, of workers and of nobody are told apart.
LEMMA Names == /\ Workers \subseteq Users /\ Known \in Users /\ Nobody \notin Users
               /\ Known \notin Workers /\ Nobody \notin Workers
BY NamesAssumption DEF Users

LEMMA InitEstablishesIInv == Init => IInv
<1> SUFFICES ASSUME Init PROVE IInv OBVIOUS
<1>1. PICK s \in {"active", "disabled"} :
          status = [u \in Users |-> IF u = Known THEN s ELSE "absent"]
  BY DEF Init
<1>2. TypeOK BY <1>1, Names, NamesAssumption DEF Init, TypeOK, Statuses
<1>3. UsersInv BY <1>1, Names DEF Init, UsersInv, Open
<1>4. AccountsInv
  <2>1. \A u \in Users : status[u] # "absent" => u = Known BY <1>1
  <2>2. {b \in Accounts : account[b] = Known} = {OldAccount}
    BY NamesAssumption DEF Init
  <2>3. \A a \in Accounts : account[a] # Nobody => account[a] = Known BY DEF Init
  <2>4. status[Known] # "absent" BY <1>1, Names
  <2> QED BY <2>1, <2>2, <2>3, <2>4, NamesAssumption DEF AccountsInv
<1>5. LocksInv BY Names DEF Init, LocksInv, Open
<1>6. RolesInv BY DEF Init, RolesInv, Open
<1>7. BanInv BY DEF Init, BanInv, Open
<1> QED BY <1>2, <1>3, <1>4, <1>5, <1>6, <1>7 DEF IInv

\* A unit of work begins: it is the worker's only one.
LEMMA BeginPreservesIInv ==
    ASSUME IInv, NEW w \in Workers,
           \/ \E a \in Accounts : FindAccount(w, a) \/ AddUser(w, a)
           \/ \E u \in Users, j \in {"ban", "unban"} : LoadUser(w, u, j) \/ RefuseUser(w, u, j)
    PROVE  IInv'
<1>0. TypeOK /\ UsersInv /\ AccountsInv /\ LocksInv /\ RolesInv /\ BanInv BY DEF IInv
<1>1. ASSUME NEW a \in Accounts, FindAccount(w, a) PROVE IInv'
  <2>1. account[a] \in Users /\ status[account[a]] # "absent"
    BY <1>0, <1>1 DEF FindAccount, TypeOK, AccountsInv
  <2>2. TypeOK'
    BY <1>0, <1>1, <2>1 DEF TypeOK, FindAccount, LoadedUser, Goto, tables, locks, Open
  <2>3. UsersInv'
    BY <1>0, <1>1, <2>1 DEF TypeOK, UsersInv, FindAccount, Goto, tables, locks, Open
  <2>4. AccountsInv' BY <1>0, <1>1 DEF AccountsInv, FindAccount, tables
  <2>5. LocksInv'
    BY <1>0, <1>1 DEF TypeOK, LocksInv, FindAccount, Goto, tables, locks, Open
  <2>6. RolesInv'
    BY <1>0, <1>1, <2>1 DEF TypeOK, RolesInv, FindAccount, LoadedUser, Goto, tables, Open
  <2>7. BanInv'
    BY <1>0, <1>1, <2>1 DEF TypeOK, UsersInv, BanInv, FindAccount, LoadedUser, Goto, tables, locals, Open
  <2> QED BY <2>2, <2>3, <2>4, <2>5, <2>6, <2>7 DEF IInv
<1>2. ASSUME NEW a \in Accounts, AddUser(w, a) PROVE IInv'
  <2>1. TypeOK' BY <1>0, <1>2, Names DEF TypeOK, AddUser, Goto, tables, Statuses, Open
  <2>2. UsersInv'
    BY <1>0, <1>2, Names DEF TypeOK, UsersInv, AddUser, Goto, tables, locks, Open
  <2>3. AccountsInv' BY <1>0, <1>2 DEF AccountsInv, AddUser, tables
  <2>4. LocksInv'
    BY <1>0, <1>2, Names DEF TypeOK, LocksInv, AddUser, Goto, tables, Open
  <2>5. RolesInv'
    BY <1>0, <1>2, Names DEF TypeOK, RolesInv, AddUser, Goto, tables, Open
  <2>6. BanInv'
    BY <1>0, <1>2, Names DEF TypeOK, UsersInv, BanInv, AddUser, Goto, tables, locals, Open
  <2> QED BY <2>1, <2>2, <2>3, <2>4, <2>5, <2>6 DEF IInv
<1>3. ASSUME NEW u \in Users, NEW j \in {"ban", "unban"}, LoadUser(w, u, j) PROVE IInv'
  <2>1. TypeOK'
    BY <1>0, <1>3 DEF TypeOK, LoadUser, LoadedUser, Goto, tables, locks, Statuses, Open
  <2>2. UsersInv'
    BY <1>0, <1>3 DEF TypeOK, UsersInv, LoadUser, LoadedUser, Goto, tables, locks, Open
  <2>3. AccountsInv' BY <1>0, <1>3 DEF AccountsInv, LoadUser, tables
  <2>4. LocksInv'
    BY <1>0, <1>3 DEF TypeOK, LocksInv, LoadUser, Goto, tables, locks, Open
  <2>5. RolesInv'
    BY <1>0, <1>3 DEF TypeOK, RolesInv, LoadUser, LoadedUser, Goto, tables, Open
  <2>6. BanInv'
    BY <1>0, <1>3 DEF TypeOK, UsersInv, BanInv, LoadUser, LoadedUser, Goto, tables, locals, Open
  <2> QED BY <2>1, <2>2, <2>3, <2>4, <2>5, <2>6 DEF IInv
<1>4. ASSUME NEW u \in Users, NEW j \in {"ban", "unban"}, RefuseUser(w, u, j) PROVE IInv'
  <2>1. TypeOK' BY <1>0, <1>4 DEF TypeOK, RefuseUser, Goto, tables, locks, locals, Open
  <2>2. UsersInv'
    BY <1>0, <1>4 DEF TypeOK, UsersInv, RefuseUser, Goto, tables, locals, Open
  <2>3. AccountsInv' BY <1>0, <1>4 DEF AccountsInv, RefuseUser, tables
  <2>4. LocksInv'
    BY <1>0, <1>4 DEF TypeOK, LocksInv, RefuseUser, Goto, tables, locks, locals, Open
  <2>5. RolesInv'
    BY <1>0, <1>4 DEF TypeOK, RolesInv, RefuseUser, Goto, tables, locals, Open
  <2>6. BanInv'
    BY <1>0, <1>4 DEF TypeOK, UsersInv, BanInv, RefuseUser, Goto, tables, locals, Open
  <2> QED BY <2>1, <2>2, <2>3, <2>4, <2>5, <2>6 DEF IInv
<1> QED BY <1>1, <1>2, <1>3, <1>4

\* A statement succeeds; nothing it does can be seen yet.
LEMMA StatementPreservesIInv ==
    ASSUME IInv, NEW w \in Workers,
           \/ AttachIdentity(w) \/ Reread(w) \/ UpdateStatus(w) \/ SyncRoles(w)
           \/ DeleteRoles(w) \/ InsertRoles(w)
    PROVE  IInv'
<1>0. TypeOK /\ UsersInv /\ AccountsInv /\ LocksInv /\ RolesInv /\ BanInv BY DEF IInv
<1>1. CASE AttachIdentity(w)
  <2>1. TypeOK' BY <1>0, <1>1 DEF TypeOK, AttachIdentity, Goto, tables, locals, Open
  <2>2. UsersInv'
    BY <1>0, <1>1 DEF TypeOK, UsersInv, AttachIdentity, Goto, tables, locals, Open
  <2>3. AccountsInv' BY <1>0, <1>1 DEF AccountsInv, AttachIdentity, tables
  <2>4. LocksInv'
    BY <1>0, <1>1, Names
       DEF TypeOK, UsersInv, LocksInv, AttachIdentity, Goto, tables, locals, Open
  <2>5. RolesInv'
    BY <1>0, <1>1 DEF TypeOK, RolesInv, AttachIdentity, Goto, tables, locals, Open
  <2>6. BanInv'
    BY <1>0, <1>1 DEF TypeOK, UsersInv, BanInv, AttachIdentity, Goto, tables, locals, Open
  <2> QED BY <2>1, <2>2, <2>3, <2>4, <2>5, <2>6 DEF IInv
<1>2. CASE UpdateStatus(w)
  <2>0. user[w] \in Users BY <1>0, <1>2 DEF UsersInv, UpdateStatus, Open
  <2>1. TypeOK' BY <1>0, <1>2, <2>0 DEF TypeOK, UpdateStatus, Goto, tables, locals, Open
  <2>2. UsersInv'
    BY <1>0, <1>2 DEF TypeOK, UsersInv, UpdateStatus, Goto, tables, locals, Open
  <2>3. AccountsInv' BY <1>0, <1>2 DEF AccountsInv, UpdateStatus, tables
  <2>4. LocksInv'
    BY <1>0, <1>2, <2>0, Names
       DEF TypeOK, UsersInv, LocksInv, UpdateStatus, Goto, tables, locals, Open
  <2>5. RolesInv'
    BY <1>0, <1>2 DEF TypeOK, RolesInv, UpdateStatus, Goto, tables, locals, Open
  <2>6. BanInv'
    BY <1>0, <1>2 DEF TypeOK, UsersInv, BanInv, UpdateStatus, Goto, tables, locals, Open
  <2> QED BY <2>1, <2>2, <2>3, <2>4, <2>5, <2>6 DEF IInv
<1>3. CASE SyncRoles(w)
  <2>0. user[w] \in Users BY <1>0, <1>3 DEF UsersInv, SyncRoles, Open
  <2>1. TypeOK' BY <1>0, <1>3, <2>0 DEF TypeOK, SyncRoles, Goto, tables, locks, Open
  <2>2. UsersInv'
    BY <1>0, <1>3 DEF TypeOK, UsersInv, SyncRoles, Goto, tables, Open
  <2>3. AccountsInv' BY <1>0, <1>3 DEF AccountsInv, SyncRoles, tables
  <2>4. LocksInv'
    BY <1>0, <1>3 DEF TypeOK, LocksInv, SyncRoles, Goto, tables, locks, Open
  <2>5. RolesInv'
    BY <1>0, <1>3 DEF TypeOK, RolesInv, SyncRoles, Goto, tables, Open
  <2>6. BanInv'
    BY <1>0, <1>3 DEF TypeOK, UsersInv, BanInv, SyncRoles, Goto, tables, locals, Open
  <2> QED BY <2>1, <2>2, <2>3, <2>4, <2>5, <2>6 DEF IInv
<1>4. CASE DeleteRoles(w)
  <2>0. user[w] \in Users BY <1>0, <1>4 DEF UsersInv, DeleteRoles, Open
  <2>1. TypeOK' BY <1>0, <1>4, <2>0 DEF TypeOK, DeleteRoles, Goto, tables, locals, Open
  <2>2. UsersInv'
    BY <1>0, <1>4 DEF TypeOK, UsersInv, DeleteRoles, Goto, tables, locals, Open
  <2>3. AccountsInv' BY <1>0, <1>4 DEF AccountsInv, DeleteRoles, tables
  <2>4. LocksInv'
    BY <1>0, <1>4, <2>0 DEF TypeOK, LocksInv, UsersInv, DeleteRoles, Goto, tables, locals, Open
  <2>5. RolesInv'
    BY <1>0, <1>4 DEF TypeOK, RolesInv, DeleteRoles, Goto, tables, locals, Open
  <2>6. BanInv'
    BY <1>0, <1>4 DEF TypeOK, UsersInv, BanInv, DeleteRoles, Goto, tables, locals, Open
  <2> QED BY <2>1, <2>2, <2>3, <2>4, <2>5, <2>6 DEF IInv
<1>5. CASE InsertRoles(w)
  <2>1. TypeOK' BY <1>0, <1>5 DEF TypeOK, InsertRoles, Goto, tables, locks, locals, Open
  <2>2. UsersInv'
    BY <1>0, <1>5 DEF TypeOK, UsersInv, InsertRoles, Goto, tables, locals, Open
  <2>3. AccountsInv' BY <1>0, <1>5 DEF AccountsInv, InsertRoles, tables
  <2>4. LocksInv'
    BY <1>0, <1>5
       DEF TypeOK, UsersInv, LocksInv, InsertRoles, Goto, tables, locks, locals, Open
  <2>5. RolesInv'
    BY <1>0, <1>5 DEF TypeOK, RolesInv, InsertRoles, Goto, tables, locals, Open
  <2>6. BanInv'
    BY <1>0, <1>5 DEF TypeOK, UsersInv, BanInv, InsertRoles, Goto, tables, locals, Open
  <2> QED BY <2>1, <2>2, <2>3, <2>4, <2>5, <2>6 DEF IInv
<1>6. CASE Reread(w)
  <2>1. TypeOK' BY <1>0, <1>6 DEF TypeOK, Reread, Goto, tables, locks, locals, Open
  <2>2. UsersInv'
    BY <1>0, <1>6 DEF TypeOK, UsersInv, Reread, Goto, tables, locals, Open
  <2>3. AccountsInv' BY <1>0, <1>6 DEF AccountsInv, Reread, tables
  <2>4. LocksInv'
    BY <1>0, <1>6 DEF TypeOK, UsersInv, LocksInv, Reread, Goto, tables, locks, locals, Open
  <2>5. RolesInv'
    BY <1>0, <1>6 DEF TypeOK, RolesInv, Reread, Goto, tables, locals, Open
  <2>6. BanInv'
    BY <1>0, <1>6 DEF TypeOK, BanInv, Reread, Goto, tables, locals, Open
  <2> QED BY <2>1, <2>2, <2>3, <2>4, <2>5, <2>6 DEF IInv
<1> QED BY <1>1, <1>2, <1>3, <1>4, <1>5, <1>6

\* A transaction ends without a trace: refused by a constraint or rolled back.
LEMMA RollbackPreservesIInv ==
    ASSUME IInv, NEW w \in Workers, AttachRefused(w) \/ InsertRolesRefused(w) \/ Abort(w)
    PROVE  IInv'
<1>0. TypeOK /\ UsersInv /\ AccountsInv /\ LocksInv /\ RolesInv /\ BanInv BY DEF IInv
<1>1. PICK end \in {"conflict", "error"} : Goto(w, end)
  BY DEF AttachRefused, InsertRolesRefused, Abort
<1>2. /\ pc[w] \in Open /\ Release(w)
      /\ UNCHANGED <<status, account, roles, rewrites, job, target, user, entity, snapshot, overtaken>>
  BY DEF AttachRefused, InsertRolesRefused, Abort, Open, tables, locals
<1>3. TypeOK' BY <1>0, <1>1, <1>2, Names DEF TypeOK, Goto, Release, Without, Open
<1>4. UsersInv' BY <1>0, <1>1, <1>2 DEF TypeOK, UsersInv, Goto, Open
<1>5. AccountsInv' BY <1>0, <1>2 DEF AccountsInv
<1>6. LocksInv'
  <2>1. \A v \in Workers, a \in Accounts :
            accountLock'[a] = v <=> accountLock[a] = v /\ v # w
    BY <1>0, <1>2, Names DEF TypeOK, Release, Without
  <2>2. \A v \in Workers, u \in Users : roleLock'[u] = v <=> roleLock[u] = v /\ v # w
    BY <1>0, <1>2, Names DEF TypeOK, Release, Without
  <2>3. \A v \in Workers : v # w => pc'[v] = pc[v] BY <1>0, <1>1 DEF TypeOK, Goto
  <2>4. pc'[w] \notin Open BY <1>0, <1>1 DEF TypeOK, Goto, Open
  <2>5. target \in [Workers -> Accounts] BY <1>0 DEF TypeOK
  <2>6. \A v \in Workers, u \in Users : statusLock'[u] = v <=> statusLock[u] = v /\ v # w
    BY <1>0, <1>2, Names DEF TypeOK, Release, Without
  <2> QED BY <1>0, <1>2, <2>1, <2>2, <2>3, <2>4, <2>5, <2>6, Names DEF LocksInv, Open
<1>7. RolesInv' BY <1>0, <1>1, <1>2 DEF TypeOK, RolesInv, Goto, Open
<1>8. BanInv' BY <1>0, <1>1, <1>2 DEF TypeOK, BanInv, Goto, Open
<1> QED BY <1>3, <1>4, <1>5, <1>6, <1>7, <1>8 DEF IInv

\* The commit: what it writes, and why each table stays right.
LEMMA CommitPreservesIInv ==
    ASSUME IInv, NEW w \in Workers, Commit(w)
    PROVE  IInv'
<1>0. TypeOK /\ UsersInv /\ AccountsInv /\ LocksInv /\ RolesInv /\ BanInv BY DEF IInv
<1>1. /\ pc[w] = "commit" /\ Goto(w, "done") /\ Release(w)
      /\ UNCHANGED <<job, target, user, entity, snapshot>>
  BY DEF Commit, locals
<1>2. user[w] \in Users BY <1>0, <1>1 DEF UsersInv, Open
<1>3. /\ entity[w].status \in Statuses
      /\ \A u \in Users : statusLock[u] = w => u = user[w]
  BY <1>0, <1>1 DEF TypeOK, LocksInv
<1>4. status' = [u \in Users |-> IF statusLock[u] = w THEN entity[w].status ELSE status[u]]
  BY DEF Commit
<1>5. /\ \A v \in Workers : v # w => pc'[v] = pc[v]
      /\ pc'[w] = "done"
  BY <1>0, <1>1 DEF TypeOK, Goto
<1>6. \A u \in Users : status'[u] # "absent" <=> (status[u] # "absent" \/ u = user[w])
  <2>1. status[user[w]] = "absent" => statusLock[user[w]] = w
    BY <1>0, <1>1 DEF UsersInv, LocksInv, Open
  <2> QED BY <1>0, <1>2, <1>3, <1>4, <2>1 DEF TypeOK, Statuses
<1>7. /\ \A v \in Workers, a \in Accounts : accountLock'[a] = v <=> accountLock[a] = v /\ v # w
      /\ \A v \in Workers, u \in Users : roleLock'[u] = v <=> roleLock[u] = v /\ v # w
      /\ \A v \in Workers, u \in Users : statusLock'[u] = v <=> statusLock[u] = v /\ v # w
  BY <1>0, <1>1, Names DEF TypeOK, Release, Without
<1>8. roles' = roles
  <2>1. \A u \in Users : roleLock[u] = w => entity[w].roles = roles[u]
    BY <1>0, <1>1 DEF LocksInv, RolesInv, Open
  <2>2. roles' = [u \in Users |-> IF roleLock[u] = w THEN entity[w].roles ELSE roles[u]]
    BY DEF Commit
  <2>3. roles' = [u \in Users |-> roles[u]] BY <2>1, <2>2
  <2> QED BY <1>0, <2>3 DEF TypeOK
<1>9. account' = [a \in Accounts |-> IF accountLock[a] = w THEN user[w] ELSE account[a]]
  BY DEF Commit
<1>10. TypeOK'
  <2>1. pc' \in [Workers -> Open \union {"idle", "done", "refused", "conflict", "error"}]
    BY <1>0, <1>1 DEF TypeOK, Goto
  <2>2. status' \in [Users -> Statuses \union {"absent"}]
    BY <1>0, <1>3, <1>4 DEF TypeOK
  <2>3. account' \in [Accounts -> Users \union {Nobody}]
    BY <1>0, <1>2, <1>9 DEF TypeOK
  <2>4. rewrites' \in [Users -> Nat]
    BY <1>0 DEF TypeOK, Commit
  <2>5. /\ statusLock' \in [Users -> Workers \union {Nobody}]
        /\ roleLock' \in [Users -> Workers \union {Nobody}]
        /\ accountLock' \in [Accounts -> Workers \union {Nobody}]
    BY <1>0, <1>1 DEF TypeOK, Release, Without
  <2>6. overtaken' \subseteq Workers BY <1>0 DEF TypeOK, Commit
  <2> QED BY <1>0, <1>1, <1>8, <2>1, <2>2, <2>3, <2>4, <2>5, <2>6 DEF TypeOK
<1>11. UsersInv'
  <2>1. ASSUME NEW v \in Workers, status'[v] # "absent" PROVE pc'[v] = "done"
    <3>1. CASE status[v] # "absent"
      BY <1>0, <1>1, <1>5, <3>1 DEF UsersInv
    <3>2. CASE status[v] = "absent"
      <4>1. v = user[w] BY <1>6, <2>1, <3>2, Names
      <4>2. job[w] = "create" BY <1>0, <1>1, <3>2, <4>1 DEF UsersInv, Open
      <4>3. v = w BY <1>0, <1>1, <4>1, <4>2 DEF UsersInv, Open
      <4> QED BY <1>5, <4>3
    <3> QED BY <3>1, <3>2
  <2>2. \A v \in Workers : pc'[v] \in Open => v # w /\ pc[v] \in Open
    BY <1>5 DEF Open
  <2> QED BY <1>0, <1>1, <1>5, <1>6, <2>1, <2>2 DEF UsersInv
<1>12. AccountsInv'
  <2>1. CASE job[w] = "create"
    <3>1. /\ user[w] = w /\ status[w] = "absent"
      BY <1>0, <1>1, <2>1 DEF UsersInv, Open
    <3>2. \A a \in Accounts : accountLock[a] = w <=> a = target[w]
      BY <1>0, <1>1, <2>1 DEF LocksInv, TypeOK
    <3>3. target[w] \in Accounts /\ account[target[w]] = Nobody
      BY <1>0, <3>2 DEF TypeOK, LocksInv
    <3>4. \A a \in Accounts : account'[a] = IF a = target[w] THEN w ELSE account[a]
      BY <1>9, <3>1, <3>2
    <3>5. \A a \in Accounts : account[a] # w
      BY <1>0, <3>1, Names DEF AccountsInv
    <3>6. {b \in Accounts : account'[b] = w} = {target[w]}
      BY <3>3, <3>4, <3>5
    <3>7. ASSUME NEW u \in Users, u # w
          PROVE  {b \in Accounts : account'[b] = u} = {b \in Accounts : account[b] = u}
      BY <3>3, <3>4, <3>7, Names
    <3>8. \A a \in Accounts : account'[a] # Nobody => status'[account'[a]] # "absent"
      BY <1>0, <1>2, <1>6, <3>1, <3>4 DEF AccountsInv, TypeOK
    <3>9. ASSUME NEW u \in Users, status'[u] # "absent"
          PROVE  \E a \in Accounts : {b \in Accounts : account'[b] = u} = {a}
      <4>1. CASE u = w BY <3>3, <3>6, <4>1
      <4>2. CASE u # w
        <5>1. status[u] # "absent" BY <1>6, <3>1, <3>9, <4>2
        <5>2. PICK a \in Accounts : {b \in Accounts : account[b] = u} = {a}
          BY <1>0, <5>1 DEF AccountsInv
        <5> QED BY <3>7, <4>2, <5>2
      <4> QED BY <4>1, <4>2
    <3> QED BY <3>8, <3>9 DEF AccountsInv
  <2>2. CASE job[w] # "create"
    <3>1. \A a \in Accounts : accountLock[a] # w BY <1>0, <2>2 DEF LocksInv
    <3>2. account' = account BY <1>0, <1>9, <3>1 DEF TypeOK
    <3>3. status[user[w]] # "absent" BY <1>0, <1>1, <2>2 DEF UsersInv, Open
    <3>4. \A u \in Users : status'[u] # "absent" <=> status[u] # "absent"
      BY <1>6, <3>3
    <3>5. \A a \in Accounts : account[a] # Nobody => account[a] \in Users
      BY <1>0 DEF TypeOK
    <3> QED BY <1>0, <3>2, <3>4, <3>5 DEF AccountsInv
  <2> QED BY <2>1, <2>2
<1>13. LocksInv'
  <2>1. \A v \in Workers, a \in Accounts : accountLock'[a] = v => account'[a] = account[a]
    BY <1>7, <1>9
  <2>2. target \in [Workers -> Accounts] BY <1>0 DEF TypeOK
  <2>3. \A v \in Workers : pc'[v] \in Open => v # w BY <1>5 DEF Open
  <2> QED BY <1>0, <1>1, <1>5, <1>7, <2>1, <2>2, <2>3, Names DEF LocksInv
<1>14. RolesInv' BY <1>0, <1>1, <1>5, <1>8 DEF RolesInv, Open
<1>15. BanInv'
  <2> SUFFICES ASSUME NEW v \in Workers, pc'[v] \in Open, job'[v] = "register",
                      v \notin overtaken', status'[user'[v]] = "banned"
               PROVE  entity'[v].status = "banned"
    BY DEF BanInv
  <2>1. v # w /\ pc[v] \in Open /\ user'[v] = user[v] /\ entity'[v] = entity[v]
    BY <1>1, <1>5 DEF Open
  <2>2. user[v] \in Users BY <1>0, <2>1 DEF UsersInv
  <2>3. v \notin overtaken /\ (user[v] = user[w] => status[user[w]] = "banned")
    BY <2>1 DEF Commit
  <2>4. status[user[v]] = "banned"
    BY <1>3, <1>4, <2>1, <2>2, <2>3
  <2> QED BY <1>0, <1>1, <2>1, <2>3, <2>4 DEF BanInv
<1> QED BY <1>10, <1>11, <1>12, <1>13, <1>14, <1>15 DEF IInv

\* The invariant is inductive.
THEOREM IInvInductive == Spec => []IInv
<1>1. IInv /\ [Next]_vars => IInv'
  <2> SUFFICES ASSUME IInv, [Next]_vars PROVE IInv' OBVIOUS
  <2>1. CASE UNCHANGED vars
    <3> USE <2>1 DEF vars, tables, locks, locals, IInv
    <3>1. TypeOK' BY DEF TypeOK
    <3>2. UsersInv' /\ RolesInv' BY DEF UsersInv, RolesInv
    <3>3. AccountsInv' BY DEF AccountsInv
    <3>4. LocksInv' BY DEF LocksInv
    <3>5. BanInv' BY DEF BanInv
    <3> QED BY <3>1, <3>2, <3>3, <3>4, <3>5
  <2>2. CASE Next
    <3>1. PICK w \in Workers :
              \/ \E a \in Accounts : FindAccount(w, a) \/ AddUser(w, a)
              \/ \E u \in Users, j \in {"ban", "unban"} : LoadUser(w, u, j) \/ RefuseUser(w, u, j)
              \/ Step(w) \/ Abort(w)
      BY <2>2 DEF Next
    <3> QED
      BY <3>1, BeginPreservesIInv, StatementPreservesIInv, RollbackPreservesIInv,
         CommitPreservesIInv
         DEF Step
  <2> QED BY <2>1, <2>2
<1> QED BY <1>1, InitEstablishesIInv, PTL DEF Spec

\* Two first messages of one account, handled at once, leave one user with that
\* account: the unique constraint makes the other transaction leave no trace.
THEOREM NoOrphans == Spec => []NoOrphanUser
<1>1. IInv => NoOrphanUser
  <2> SUFFICES ASSUME IInv, NEW u \in Users, status[u] # "absent"
               PROVE  Cardinality({a \in Accounts : account[a] = u}) = 1
    BY DEF NoOrphanUser
  <2>1. PICK a \in Accounts : {b \in Accounts : account[b] = u} = {a}
    BY DEF IInv, AccountsInv
  <2> QED BY <2>1, FS_Singleton
<1> QED BY <1>1, IInvInductive, PTL

\* _sync_roles deletes and inserts the roles on every save, and never loses one.
THEOREM RolesKept == Spec => []RolesPreserved
<1>1. IInv => RolesPreserved BY Names DEF IInv, RolesInv, RolesPreserved
<1> QED BY <1>1, IInvInductive, PTL

\* A registration that has loaded its user after a ban does not lift it: what it
\* writes, if anything, is what it has loaded.
THEOREM BanHolds == Spec => LaterSavesKeepBan
<1> DEFINE Lifted == \A u \in Users : status[u] = "banned" /\ status'[u] # "banned" =>
                         \E w \in Workers : /\ user[w] = u /\ pc[w] = "commit"
                                            /\ job[w] = "unban" \/ w \in overtaken
<1>1. IInv /\ [Next]_vars => [Lifted]_vars
  <2> SUFFICES ASSUME IInv, Next, NEW u \in Users, status[u] = "banned", status'[u] # "banned"
               PROVE  \E w \in Workers : /\ user[w] = u /\ pc[w] = "commit"
                                         /\ job[w] = "unban" \/ w \in overtaken
    OBVIOUS
  <2>1. TypeOK /\ UsersInv /\ LocksInv /\ BanInv BY DEF IInv
  <2>2. PICK w \in Workers : Commit(w)
    BY DEF Next, Step, FindAccount, AddUser, LoadUser, RefuseUser, AttachIdentity,
           AttachRefused, Reread, UpdateStatus, SyncRoles, DeleteRoles, InsertRoles,
           InsertRolesRefused, Abort, tables
  <2>3. pc[w] = "commit" /\ pc[w] \in Open BY <2>2 DEF Commit, Open
  <2>4. statusLock[u] = w /\ entity[w].status # "banned" BY <2>2 DEF Commit
  <2>5. user[w] = u BY <2>1, <2>4 DEF LocksInv
  <2>6. job[w] # "ban" BY <2>1, <2>3, <2>4 DEF UsersInv
  <2>7. job[w] # "create" BY <2>1, <2>3, <2>5 DEF UsersInv
  <2>8. job[w] = "register" => w \in overtaken
    BY <2>1, <2>3, <2>4, <2>5 DEF BanInv
  <2>9. job[w] \in {"register", "create", "ban", "unban"} BY <2>1 DEF TypeOK
  <2> QED BY <2>3, <2>5, <2>6, <2>7, <2>8, <2>9
<1> QED BY <1>1, IInvInductive, PTL DEF Spec, LaterSavesKeepBan
=============================================================================
