----------------------- MODULE IdempotencyRepository -----------------------
(***************************************************************************)
(* SqlAlchemyIdempotencyRepository, one action per SQL statement, together *)
(* with the unit of work that runs it (open, commit, roll back).           *)
(*                                                                         *)
(* The database is PostgreSQL at its default isolation level, read         *)
(* committed: a SELECT sees the committed row; an INSERT or UPDATE takes   *)
(* the row lock, is visible to others only once committed, waits while     *)
(* another transaction holds the lock, and evaluates its WHERE clause on   *)
(* the row it finds when it gets the lock.                                 *)
(*                                                                         *)
(* A transaction may be rolled back at any point, the acknowledgement of a *)
(* commit may be lost although the commit took effect, and a process may   *)
(* die at any point.                                                       *)
(***************************************************************************)
EXTENDS IdempotencyRecord

CONSTANTS
    Keys,
    KeyOf,      \* the key each attempt presents
    MaxNow      \* bound on the clock

ASSUME KeyOfAssumption == KeyOf \in [Attempts -> Keys]

ASSUME MaxNowAssumption == MaxNow \in Nat

VARIABLES
    rows,    \* the committed row of every key
    now,     \* utc_now()
    lock,    \* per key, the attempt whose open transaction has written the row
    dirty,   \* per key, the row as that transaction has written it
    pc,      \* where each attempt is
    row,     \* the ORM row each attempt holds in its session
    stamp    \* the claimed_at each attempt is about to write

vars == <<rows, now, lock, dirty, pc, row, stamp>>

\* Inside the transaction of start().
InStart == {"select", "new", "insert", "reselect", "existing", "reclaim",
            "commit_claim", "commit_read"}

\* An attempt that was handed the claim and may settle it.
Holding == {"owner", "lost"}

PCs == {"idle", "told", "commit_settle", "contended", "not_found", "error",
        "crashed"} \union InStart \union Holding \union SettledStates

\* Every variable has its type.
TypeOK == /\ rows \in [Keys -> Row]
          /\ now \in Nat
          /\ lock \in [Keys -> Attempts \union {Nobody}]
          /\ dirty \in [Keys -> Row]
          /\ pc \in [Attempts -> PCs]
          /\ row \in [Attempts -> Row]
          /\ stamp \in [Attempts -> Nat]

Init == /\ rows = [k \in Keys |-> NoRow]
        /\ now = 0
        /\ lock = [k \in Keys |-> Nobody]
        /\ dirty = [k \in Keys |-> NoRow]
        /\ pc = [a \in Attempts |-> "idle"]
        /\ row = [a \in Attempts |-> NoRow]
        /\ stamp = [a \in Attempts |-> 0]

-----------------------------------------------------------------------------
Goto(a, label) == pc' = [pc EXCEPT ![a] = label]

Reads(a) == row' = [row EXCEPT ![a] = rows[KeyOf[a]]]

\* The statement of a writes r: it holds the row lock until its transaction ends.
Writes(a, r) == /\ lock[KeyOf[a]] = Nobody
                /\ lock' = [lock EXCEPT ![KeyOf[a]] = a]
                /\ dirty' = [dirty EXCEPT ![KeyOf[a]] = r]

Release(a) == lock' = [k \in Keys |-> IF lock[k] = a THEN Nobody ELSE lock[k]]

\* The transaction of a takes effect.
Publish(a) == /\ rows' = [rows EXCEPT ![KeyOf[a]] = dirty[KeyOf[a]]]
              /\ Release(a)

database == <<rows, lock, dirty>>

-----------------------------------------------------------------------------
\* start() is called: its unit of work opens a session.
Begin(a) ==
    /\ pc[a] = "idle"
    /\ Goto(a, "select")
    /\ UNCHANGED <<database, now, row, stamp>>

\* _get_row at the head of start().
SelectExisting(a) ==
    /\ pc[a] = "select"
    /\ Reads(a)
    /\ Goto(a, IF rows[KeyOf[a]] = NoRow THEN "new" ELSE "existing")
    /\ UNCHANGED <<database, now, stamp>>

\* The row object of a new claim is built, with claimed_at = utc_now().
BuildClaim(a) ==
    /\ pc[a] = "new"
    /\ stamp' = [stamp EXCEPT ![a] = now]
    /\ Goto(a, "insert")
    /\ UNCHANGED <<database, now, row>>

\* The INSERT inside the savepoint succeeds.
InsertClaim(a) ==
    /\ pc[a] = "insert"
    /\ rows[KeyOf[a]] = NoRow
    /\ Writes(a, Claimed(a, stamp[a]))
    /\ row' = [row EXCEPT ![a] = Claimed(a, stamp[a])]
    /\ Goto(a, "commit_claim")
    /\ UNCHANGED <<rows, now, stamp>>

\* IntegrityError: another caller created the key first.
InsertRefused(a) ==
    /\ pc[a] = "insert"
    /\ rows[KeyOf[a]] # NoRow
    /\ Goto(a, "reselect")
    /\ UNCHANGED <<database, now, row, stamp>>

\* The second _get_row, after the savepoint was rolled back.
SelectRaced(a) ==
    /\ pc[a] = "reselect"
    /\ Reads(a)
    /\ Goto(a, IF rows[KeyOf[a]] = NoRow THEN "contended" ELSE "existing")
    /\ UNCHANGED <<database, now, stamp>>

\* _claim_existing on a settled row, or on a claim that is not yet stale.
ReportExisting(a) ==
    /\ pc[a] = "existing"
    /\ IsSettled(row[a]) \/ ~ Expired(row[a], now)
    /\ Goto(a, "commit_read")
    /\ UNCHANGED <<database, now, row, stamp>>

\* _claim_existing on a stale claim: the new claimed_at is read from the clock.
DecideReclaim(a) ==
    /\ pc[a] = "existing"
    /\ row[a].state = "started"
    /\ Expired(row[a], now)
    /\ stamp' = [stamp EXCEPT ![a] = now]
    /\ Goto(a, "reclaim")
    /\ UNCHANGED <<database, now, row>>

\* The compare-and-swap matches; the row object is refreshed from the database.
Reclaim(a) ==
    /\ pc[a] = "reclaim"
    /\ OwnedBy(rows[KeyOf[a]], row[a].token)
    /\ LET r == Reclaimed(rows[KeyOf[a]], a, stamp[a])
       IN /\ Writes(a, r)
          /\ row' = [row EXCEPT ![a] = r]
    /\ Goto(a, "commit_claim")
    /\ UNCHANGED <<rows, now, stamp>>

\* The compare-and-swap matches nothing; the row object stays as it was read.
ReclaimLost(a) ==
    /\ pc[a] = "reclaim"
    /\ ~ OwnedBy(rows[KeyOf[a]], row[a].token)
    /\ Goto(a, "commit_read")
    /\ UNCHANGED <<database, now, row, stamp>>

\* Mutant of CommitClaim: the record returned does not say that it is owned.
CommitClaimNotOwned(a) ==
    /\ pc[a] = "commit_claim"
    /\ Publish(a)
    /\ Goto(a, "told")
    /\ UNCHANGED <<dirty, now, row, stamp>>

\* The unit of work commits and start() hands out the claim.
CommitClaim(a) ==
    /\ pc[a] = "commit_claim"
    /\ Publish(a)
    /\ Goto(a, "owner")
    /\ UNCHANGED <<dirty, now, row, stamp>>

\* The unit of work commits and start() reports the row it read.
CommitRead(a) ==
    /\ pc[a] = "commit_read"
    /\ Goto(a, "told")
    /\ UNCHANGED <<database, now, row, stamp>>

-----------------------------------------------------------------------------
\* Mutant of Settle: the UPDATE selects the row by its key alone.
SettleUnfenced(a, s) ==
    /\ pc[a] \in Holding
    /\ Writes(a, Settled(rows[KeyOf[a]], s, a))
    /\ Goto(a, "commit_settle")
    /\ UNCHANGED <<rows, now, row, stamp>>

\* complete() or fail(): the UPDATE of _settle matches the claim.  An attempt
\* whose settlement was refused or whose commit failed may try again.
Settle(a, s) ==
    /\ pc[a] \in Holding
    /\ OwnedBy(rows[KeyOf[a]], a)
    /\ Writes(a, Settled(rows[KeyOf[a]], s, a))
    /\ Goto(a, "commit_settle")
    /\ UNCHANGED <<rows, now, row, stamp>>

\* The UPDATE of _settle matches nothing; the row is read to tell why.
SettleRefused(a) ==
    /\ pc[a] \in Holding
    /\ ~ OwnedBy(rows[KeyOf[a]], a)
    /\ Goto(a, IF rows[KeyOf[a]] = NoRow THEN "not_found" ELSE "lost")
    /\ UNCHANGED <<database, now, row, stamp>>

\* The unit of work commits the outcome and the caller is told so.
CommitSettle(a) ==
    /\ pc[a] = "commit_settle"
    /\ Publish(a)
    /\ Goto(a, dirty[KeyOf[a]].state)
    /\ UNCHANGED <<dirty, now, row, stamp>>

-----------------------------------------------------------------------------
\* Where an attempt is when its unit of work raised: start() hands out
\* nothing; a settlement leaves the token in the caller's hands.
Raised(a) == IF pc[a] = "commit_settle" THEN "owner" ELSE "error"

\* Mutant of Rollback: the session is left open, with its row lock.
RollbackKeepsLock(a) ==
    /\ pc[a] \in InStart \union {"commit_settle"}
    /\ Goto(a, Raised(a))
    /\ UNCHANGED <<database, now, row, stamp>>

\* A statement or the commit fails, and __aexit__ rolls back.
Rollback(a) ==
    /\ pc[a] \in InStart \union {"commit_settle"}
    /\ Release(a)
    /\ Goto(a, Raised(a))
    /\ UNCHANGED <<rows, dirty, now, row, stamp>>

\* The commit takes effect but its acknowledgement is lost.
CommitUnacknowledged(a) ==
    /\ pc[a] \in {"commit_claim", "commit_settle"}
    /\ Publish(a)
    /\ Goto(a, Raised(a))
    /\ UNCHANGED <<dirty, now, row, stamp>>

\* The process of a dies, or its task is cancelled; the server rolls back.
Crash(a) ==
    /\ pc[a] \in InStart \union Holding \union {"commit_settle"}
    /\ Release(a)
    /\ Goto(a, "crashed")
    /\ UNCHANGED <<rows, dirty, now, row, stamp>>

Tick == /\ now < MaxNow
        /\ now' = now + 1
        /\ UNCHANGED <<database, pc, row, stamp>>

-----------------------------------------------------------------------------
\* The statements of start() and the commits: what an attempt does by itself.
Step(a) == \/ SelectExisting(a) \/ BuildClaim(a)
           \/ InsertClaim(a) \/ InsertRefused(a) \/ SelectRaced(a)
           \/ ReportExisting(a) \/ DecideReclaim(a)
           \/ Reclaim(a) \/ ReclaimLost(a)
           \/ CommitClaim(a) \/ CommitRead(a) \/ CommitSettle(a)

Next == \/ \E a \in Attempts :
               \/ Begin(a) \/ Step(a)
               \/ (\E s \in SettledStates : Settle(a, s)) \/ SettleRefused(a)
               \/ Rollback(a) \/ CommitUnacknowledged(a) \/ Crash(a)
        \/ Tick

Spec == Init /\ [][Next]_vars

-----------------------------------------------------------------------------
\* The committed rows follow the contract of the port: one claim at a time, a
\* takeover only after a full TTL, one settlement, by the owner of the claim.
Claims == INSTANCE IdempotencyClaim

ClaimContract == Claims!Spec

\* An attempt whose complete() or fail() returned finds its own outcome in the
\* row, whatever other attempts, expiries and takeovers happened since.
AckedOutcomeStands ==
    \A a \in Attempts : pc[a] \in SettledStates =>
        /\ rows[KeyOf[a]].state = pc[a]
        /\ rows[KeyOf[a]].token = a
        /\ rows[KeyOf[a]].result = a

\* A caller that start() told of an outcome (a COMPLETED result to return, a
\* FAILED key to refuse) was told the outcome the key keeps for ever.
ReportedOutcomeStands ==
    \A a \in Attempts : pc[a] = "told" /\ IsSettled(row[a]) => rows[KeyOf[a]] = row[a]

\* A row is STARTED only under the token of an attempt that can still settle
\* it or that is gone (it died, or start() raised after its commit took
\* effect): no attempt that was refused the key, has settled it, or was told
\* idempotency_claim_lost is named, so what a lost owner does later is void.
NoPhantomClaim ==
    \A a \in Attempts : OwnedBy(rows[KeyOf[a]], a) =>
        pc[a] \in {"owner", "commit_settle", "error", "crashed"}

\* The two "cannot happen" branches are dead: after an IntegrityError the row
\* is there to be read, and an attempt that settles always finds a record.
RowNeverVanishes ==
    \A a \in Attempts : /\ pc[a] \in {"reselect"} \union Holding => rows[KeyOf[a]] # NoRow
                        /\ pc[a] \notin {"contended", "not_found"}

\* Whoever holds the row lock of a key waits for nobody: its transaction is
\* about to end, so no caller waits for one that nobody will end.
LocksAreTransient ==
    \A k \in Keys : lock[k] # Nobody => KeyOf[lock[k]] = k /\
                                        pc[lock[k]] \in {"commit_claim", "commit_settle"}
=============================================================================
