-------------------- MODULE IdempotencyRepository_proofs --------------------
(***************************************************************************)
(* Proofs about IdempotencyRepository, for any set of attempts and keys,   *)
(* any assignment of keys to attempts, any TTL and any clock bound.        *)
(*                                                                         *)
(* The safety invariants are not inductive by themselves.  What makes them *)
(* hold is that a token enters the table at most once (an attempt that may *)
(* have published a claim never returns to start()), that the row lock     *)
(* serialises the writers of a key, and that therefore a row somebody read *)
(* is still the row of the key while its token owns the key.  IInv says so.*)
(***************************************************************************)
EXTENDS IdempotencyRepository, TLAPS

\* The places of an attempt that may have published a claim: none of them
\* leads back to start(), so a token enters the table at most once.
PostClaim == {"owner", "lost", "commit_settle", "error", "crashed"} \union SettledStates

\* The places of an attempt whose open transaction has written the row.
Writing == {"commit_claim", "commit_settle"}

\* A row is absent as a whole, a claim has a token and no result, and no
\* claim carries a timestamp from the future.
RowOf(k) ==
    /\ rows[k].state = "absent" <=> rows[k] = NoRow
    /\ rows[k].state = "started" => rows[k].token \in Attempts /\ rows[k].result = Nobody
    /\ rows[k].claimedAt <= now

\* The row lock is held by an attempt whose transaction has written the row.
LockOf(a) ==
    \A k \in Keys : lock[k] = a <=> (KeyOf[a] = k /\ pc[a] \in Writing)

\* The token in a row belongs to an attempt at that key which has claimed it.
TokenOf(a) ==
    \A k \in Keys : rows[k].token = a => KeyOf[a] = k /\ pc[a] \in PostClaim

\* What an open transaction has written, in terms of the row it will replace.
ClaimOf(a) ==
    pc[a] = "commit_claim" =>
        /\ dirty[KeyOf[a]] = Claimed(a, stamp[a])
        /\ rows[KeyOf[a]].state \in {"absent", "started"}
        /\ rows[KeyOf[a]].state = "started" => Expired(rows[KeyOf[a]], stamp[a])

SettlementOf(a) ==
    pc[a] = "commit_settle" =>
        /\ OwnedBy(rows[KeyOf[a]], a)
        /\ \E s \in SettledStates : dirty[KeyOf[a]] = Settled(rows[KeyOf[a]], s, a)

\* A row that was read names an attempt that cannot claim again, so it is
\* still the committed row while the token it names owns the key, and for ever
\* if it is settled.
SnapshotOf(a) ==
    pc[a] \in {"existing", "reclaim", "commit_read", "told"} =>
        /\ row[a].state # "absent"
        /\ IsSettled(row[a]) => rows[KeyOf[a]] = row[a]
        /\ row[a].state = "started" =>
               /\ row[a].token \in Attempts
               /\ pc[row[a].token] \in PostClaim
               /\ OwnedBy(rows[KeyOf[a]], row[a].token) => rows[KeyOf[a]] = row[a]

\* A reclaim was decided on a claim that was stale.
StaleOf(a) ==
    /\ stamp[a] <= now
    /\ pc[a] = "reclaim" => row[a].state = "started" /\ Expired(row[a], stamp[a])

\* AckedOutcomeStands, NoPhantomClaim and RowNeverVanishes, of one attempt.
OutcomeOf(a) ==
    /\ pc[a] \in SettledStates => /\ rows[KeyOf[a]].state = pc[a]
                                  /\ rows[KeyOf[a]].token = a
                                  /\ rows[KeyOf[a]].result = a
    /\ pc[a] = "lost" => ~ OwnedBy(rows[KeyOf[a]], a)
    /\ OwnedBy(rows[KeyOf[a]], a) => pc[a] \in {"owner", "commit_settle", "error", "crashed"}
    /\ pc[a] \in {"reselect"} \union Holding => rows[KeyOf[a]].state # "absent"
    /\ pc[a] \notin {"contended", "not_found"}

Local(a) == /\ LockOf(a)
            /\ TokenOf(a)
            /\ ClaimOf(a)
            /\ SettlementOf(a)
            /\ SnapshotOf(a)
            /\ StaleOf(a)
            /\ OutcomeOf(a)

IInv == /\ TypeOK
        /\ \A k \in Keys : RowOf(k)
        /\ \A a \in Attempts : Local(a)

USE KeyOfAssumption, NobodyAssumption, ClaimTtlAssumption, MaxNowAssumption

-----------------------------------------------------------------------------
\* The rows that the statements write are rows.
LEMMA WrittenRows ==
  ASSUME NEW r \in Row, NEW a \in Attempts
  PROVE  /\ \A t \in Nat : Claimed(a, t) \in Row /\ Reclaimed(r, a, t) \in Row
         /\ \A s \in SettledStates : Settled(r, s, a) \in Row
  BY DEF Claimed, Reclaimed, Settled, Row, States

\* The initial states satisfy the type invariant.
LEMMA InitType == Init => TypeOK
  BY DEF Init, TypeOK, NoRow, Row, States, PCs

\* Every step preserves the types of the variables.  (That a committed
\* settlement names an outcome needs SettlementOf.)
LEMMA NextType == ASSUME IInv, [Next]_vars PROVE TypeOK'
<1> USE DEF TypeOK
<1> TypeOK
  BY DEF IInv
<1>1. ASSUME NEW a \in Attempts, Begin(a) \/ Step(a) PROVE TypeOK'
  <2> KeyOf[a] \in Keys
    OBVIOUS
  <2>0. CASE Begin(a)
    BY <2>0 DEF Begin, Goto, database, PCs, InStart
  <2>1. CASE SelectExisting(a)
    BY <2>1 DEF SelectExisting, Reads, Goto, database, PCs, InStart
  <2>2. CASE BuildClaim(a)
    BY <2>2 DEF BuildClaim, Goto, database, PCs, InStart
  <2>3. CASE InsertClaim(a)
    <3>1. Claimed(a, stamp[a]) \in Row
      BY WrittenRows
    <3> QED BY <2>3, <3>1 DEF InsertClaim, Writes, Goto, PCs, InStart
  <2>4. CASE InsertRefused(a)
    BY <2>4 DEF InsertRefused, Goto, database, PCs, InStart
  <2>5. CASE SelectRaced(a)
    BY <2>5 DEF SelectRaced, Reads, Goto, database, PCs, InStart
  <2>6. CASE ReportExisting(a)
    BY <2>6 DEF ReportExisting, Goto, database, PCs, InStart
  <2>7. CASE DecideReclaim(a)
    BY <2>7 DEF DecideReclaim, Goto, database, PCs, InStart
  <2>8. CASE Reclaim(a)
    <3>1. Reclaimed(rows[KeyOf[a]], a, stamp[a]) \in Row
      BY WrittenRows
    <3> QED BY <2>8, <3>1 DEF Reclaim, Writes, Goto, PCs, InStart
  <2>9. CASE ReclaimLost(a)
    BY <2>9 DEF ReclaimLost, Goto, database, PCs, InStart
  <2>10. CASE CommitClaim(a)
    BY <2>10 DEF CommitClaim, Publish, Release, Goto, PCs, Holding
  <2>11. CASE CommitRead(a)
    BY <2>11 DEF CommitRead, Goto, database, PCs
  <2>12. CASE CommitSettle(a)
    <3>1. SettlementOf(a) /\ pc[a] = "commit_settle"
      BY <2>12 DEF IInv, Local, CommitSettle
    <3>2. dirty[KeyOf[a]].state \in SettledStates
      BY <3>1 DEF SettlementOf, Settled, Row
    <3> QED BY <2>12, <3>2 DEF CommitSettle, Publish, Release, Goto, PCs
  <2> QED BY <1>1, <2>0, <2>1, <2>2, <2>3, <2>4, <2>5, <2>6, <2>7, <2>8,
             <2>9, <2>10, <2>11, <2>12 DEF Step
<1>2. ASSUME NEW a \in Attempts, NEW s \in SettledStates, Settle(a, s) PROVE TypeOK'
  <2>1. Settled(rows[KeyOf[a]], s, a) \in Row
    BY WrittenRows
  <2> QED BY <1>2, <2>1 DEF Settle, Writes, Goto, PCs
<1>3. ASSUME NEW a \in Attempts, SettleRefused(a) PROVE TypeOK'
  BY <1>3 DEF SettleRefused, Goto, database, PCs, Holding
<1>4. ASSUME NEW a \in Attempts, Rollback(a) \/ CommitUnacknowledged(a) \/ Crash(a)
      PROVE TypeOK'
  <2>1. Raised(a) \in PCs
    BY DEF Raised, PCs, Holding
  <2>2. CASE Rollback(a)
    BY <2>1, <2>2 DEF Rollback, Release, Goto
  <2>3. CASE CommitUnacknowledged(a)
    BY <2>1, <2>3 DEF CommitUnacknowledged, Publish, Release, Goto
  <2>4. CASE Crash(a)
    BY <2>4 DEF Crash, Release, Goto, PCs
  <2> QED BY <1>4, <2>2, <2>3, <2>4
<1>5. CASE Tick
  BY <1>5 DEF Tick, database
<1>6. CASE UNCHANGED vars
  BY <1>6 DEF vars
<1> QED BY <1>1, <1>2, <1>3, <1>4, <1>5, <1>6 DEF Next

-----------------------------------------------------------------------------
\* A step that leaves the database alone and moves one attempt on, outside its
\* writing places and never from a claim back into start().
LEMMA QuietStep ==
  ASSUME IInv, TypeOK', NEW a \in Attempts, NEW label,
         Goto(a, label), UNCHANGED <<rows, lock, dirty, now>>,
         pc[a] \notin Writing, label \notin Writing \union SettledStates,
         pc[a] \in PostClaim => label \in PostClaim,
         \A b \in Attempts \ {a} : row'[b] = row[b] /\ stamp'[b] = stamp[b],
         SnapshotOf(a)', StaleOf(a)', OutcomeOf(a)'
  PROVE  IInv'
<1> USE DEF TypeOK
<1> TypeOK
  BY DEF IInv
<1>1. \A k \in Keys : RowOf(k)'
  BY DEF IInv, RowOf
<1>2. pc'[a] = label /\ \A b \in Attempts \ {a} : pc'[b] = pc[b]
  BY DEF Goto
<1>3. \A b \in Attempts : pc[b] \in PostClaim => pc'[b] \in PostClaim
  BY <1>2
<1>4. ASSUME NEW b \in Attempts PROVE LockOf(b)' /\ TokenOf(b)'
  <2>1. LockOf(b) /\ TokenOf(b)
    BY DEF IInv, Local
  <2>2. LockOf(b)'
    BY <2>1, <1>2 DEF LockOf
  <2>3. TokenOf(b)'
    BY <2>1, <1>3 DEF TokenOf
  <2> QED BY <2>2, <2>3
<1>5. ASSUME NEW b \in Attempts PROVE ClaimOf(b)' /\ SettlementOf(b)'
  <2>1. CASE b = a
    BY <2>1, <1>2 DEF ClaimOf, SettlementOf, Writing
  <2>2. CASE b # a
    <3>1. ClaimOf(b) /\ SettlementOf(b)
      BY DEF IInv, Local
    <3>2. ClaimOf(b)'
      BY <3>1, <2>2, <1>2 DEF ClaimOf, Expired
    <3>3. SettlementOf(b)'
      BY <3>1, <2>2, <1>2 DEF SettlementOf, OwnedBy
    <3> QED BY <3>2, <3>3
  <2> QED BY <2>1, <2>2
<1>6. ASSUME NEW b \in Attempts, b # a PROVE SnapshotOf(b)' /\ StaleOf(b)' /\ OutcomeOf(b)'
  <2>1. SnapshotOf(b) /\ StaleOf(b) /\ OutcomeOf(b)
    BY DEF IInv, Local
  <2>2. pc'[b] = pc[b] /\ row'[b] = row[b] /\ stamp'[b] = stamp[b]
    BY <1>2, <1>6
  <2>3. SnapshotOf(b)'
    BY <2>1, <2>2, <1>3 DEF SnapshotOf, OwnedBy, IsSettled
  <2>4. StaleOf(b)'
    BY <2>1, <2>2 DEF StaleOf, Expired
  <2>5. OutcomeOf(b)'
    BY <2>1, <2>2 DEF OutcomeOf, OwnedBy
  <2> QED BY <2>3, <2>4, <2>5
<1> QED BY <1>1, <1>4, <1>5, <1>6 DEF IInv, Local

\* A statement writes the row: its transaction holds the lock from here on.
LEMMA WriteStep ==
  ASSUME IInv, TypeOK', NEW a \in Attempts, NEW label \in Writing, NEW r,
         Goto(a, label), Writes(a, r), UNCHANGED <<rows, now, stamp>>,
         \A b \in Attempts \ {a} : row'[b] = row[b],
         pc[a] \in PostClaim => label = "commit_settle",
         ClaimOf(a)', SettlementOf(a)', OutcomeOf(a)'
  PROVE  IInv'
<1> USE DEF TypeOK
<1> TypeOK /\ KeyOf[a] \in Keys
  BY DEF IInv
<1>1. \A k \in Keys : RowOf(k)'
  BY DEF IInv, RowOf
<1>2. pc'[a] = label /\ \A b \in Attempts \ {a} : pc'[b] = pc[b]
  BY DEF Goto
<1>3. \A b \in Attempts : pc[b] \in PostClaim => pc'[b] \in PostClaim
  BY <1>2 DEF PostClaim
<1>4. \A b \in Attempts : KeyOf[b] = KeyOf[a] => pc[b] \notin Writing
  BY DEF Writes, IInv, Local, LockOf
<1>5. ASSUME NEW b \in Attempts PROVE LockOf(b)' /\ TokenOf(b)'
  <2>1. LockOf(b) /\ TokenOf(b)
    BY DEF IInv, Local
  <2>2. LockOf(b)'
    BY <2>1, <1>2, <1>4 DEF LockOf, Writes
  <2>3. TokenOf(b)'
    BY <2>1, <1>3 DEF TokenOf
  <2> QED BY <2>2, <2>3
<1>6. ASSUME NEW b \in Attempts, b # a PROVE Local(b)'
  <2>1. Local(b)
    BY DEF IInv
  <2>2. pc'[b] = pc[b] /\ row'[b] = row[b] /\ stamp'[b] = stamp[b]
    BY <1>2, <1>6
  <2>3. pc[b] \in Writing => dirty'[KeyOf[b]] = dirty[KeyOf[b]]
    BY <1>4 DEF Writes
  <2>4. ClaimOf(b)'
    BY <2>1, <2>2, <2>3 DEF Local, ClaimOf, Expired, Writing
  <2>5. SettlementOf(b)'
    BY <2>1, <2>2, <2>3 DEF Local, SettlementOf, OwnedBy, Writing
  <2>6. SnapshotOf(b)'
    BY <2>1, <2>2, <1>3 DEF Local, SnapshotOf, OwnedBy, IsSettled
  <2>7. StaleOf(b)'
    BY <2>1, <2>2 DEF Local, StaleOf, Expired
  <2>8. OutcomeOf(b)'
    BY <2>1, <2>2 DEF Local, OutcomeOf, OwnedBy
  <2> QED BY <1>5, <2>4, <2>5, <2>6, <2>7, <2>8 DEF Local
<1>7. SnapshotOf(a)' /\ StaleOf(a)'
  <2>1. StaleOf(a)
    BY DEF IInv, Local
  <2> QED BY <2>1, <1>2 DEF SnapshotOf, StaleOf, Writing
<1> QED BY <1>1, <1>5, <1>6, <1>7 DEF IInv, Local

\* A transaction ends without effect.
LEMMA ReleaseStep ==
  ASSUME IInv, TypeOK', NEW a \in Attempts, NEW label \in {"owner", "error", "crashed"},
         Goto(a, label), Release(a), UNCHANGED <<rows, dirty, now, row, stamp>>,
         label = "owner" => pc[a] = "commit_settle"
  PROVE  IInv'
<1> USE DEF TypeOK
<1> TypeOK /\ KeyOf[a] \in Keys
  BY DEF IInv
<1>1. \A k \in Keys : RowOf(k)'
  BY DEF IInv, RowOf
<1>2. pc'[a] = label /\ \A b \in Attempts \ {a} : pc'[b] = pc[b]
  BY DEF Goto
<1>3. \A b \in Attempts : pc[b] \in PostClaim => pc'[b] \in PostClaim
  BY <1>2 DEF PostClaim
<1>4. ASSUME NEW b \in Attempts PROVE LockOf(b)' /\ TokenOf(b)'
  <2>1. LockOf(b) /\ TokenOf(b)
    BY DEF IInv, Local
  <2>2. LockOf(b)'
    BY <2>1, <1>2 DEF LockOf, Release, Writing
  <2>3. TokenOf(b)'
    BY <2>1, <1>3 DEF TokenOf
  <2> QED BY <2>2, <2>3
<1>5. ASSUME NEW b \in Attempts, b # a PROVE Local(b)'
  <2>1. Local(b)
    BY DEF IInv
  <2>2. pc'[b] = pc[b]
    BY <1>2, <1>5
  <2>3. ClaimOf(b)'
    BY <2>1, <2>2 DEF Local, ClaimOf, Expired
  <2>4. SettlementOf(b)'
    BY <2>1, <2>2 DEF Local, SettlementOf, OwnedBy
  <2>5. SnapshotOf(b)'
    BY <2>1, <2>2, <1>3 DEF Local, SnapshotOf, OwnedBy, IsSettled
  <2>6. StaleOf(b)'
    BY <2>1, <2>2 DEF Local, StaleOf, Expired
  <2>7. OutcomeOf(b)'
    BY <2>1, <2>2 DEF Local, OutcomeOf, OwnedBy
  <2> QED BY <1>4, <2>3, <2>4, <2>5, <2>6, <2>7 DEF Local
<1>6. ClaimOf(a)' /\ SettlementOf(a)' /\ SnapshotOf(a)' /\ StaleOf(a)'
  <2>1. StaleOf(a)
    BY DEF IInv, Local
  <2> QED BY <2>1, <1>2 DEF ClaimOf, SettlementOf, SnapshotOf, StaleOf
<1>7. OutcomeOf(a)'
  <2>1. OutcomeOf(a) /\ SettlementOf(a)
    BY DEF IInv, Local
  <2> QED BY <2>1, <1>2 DEF OutcomeOf, SettlementOf, OwnedBy, Holding, SettledStates
<1> QED BY <1>1, <1>4, <1>5, <1>6, <1>7 DEF IInv, Local

\* A transaction that wrote the row takes effect.  The row it replaces is not
\* settled, so nobody's outcome is lost; the row it publishes is either a claim
\* under a token the table has never held, or settles the claim it replaces.
LEMMA PublishStep ==
  ASSUME IInv, TypeOK', NEW a \in Attempts,
         NEW label \in {"owner", "error"} \union SettledStates,
         Goto(a, label), Publish(a), UNCHANGED <<dirty, now, row, stamp>>,
         pc[a] \in Writing,
         label \in SettledStates =>
             pc[a] = "commit_settle" /\ label = dirty[KeyOf[a]].state
  PROVE  IInv'
<1> USE DEF TypeOK
<1> DEFINE K == KeyOf[a]
           old == rows[K]
           new == rows'[K]
<1> TypeOK /\ K \in Keys
  BY DEF IInv
<1>1. new = dirty[K] /\ \A k \in Keys \ {K} : rows'[k] = rows[k]
  BY DEF Publish
<1>2. pc'[a] = label /\ \A b \in Attempts \ {a} : pc'[b] = pc[b]
  BY DEF Goto
<1>3. /\ ClaimOf(a) /\ SettlementOf(a) /\ TokenOf(a) /\ StaleOf(a) /\ OutcomeOf(a)
      /\ RowOf(K)
  BY DEF IInv, Local
<1>4. /\ new.state \in {"started"} \union SettledStates
      /\ new.token = a
      /\ new.state = "started" => new.result = Nobody
      /\ new.state \in SettledStates => new.result = a
      /\ new.claimedAt <= now
      /\ old.state \in {"absent", "started"}
      /\ pc[a] = "commit_settle" => new.state \in SettledStates
  <2>1. CASE pc[a] = "commit_claim"
    BY <2>1, <1>1, <1>3 DEF ClaimOf, Claimed, StaleOf, SettledStates
  <2>2. CASE pc[a] = "commit_settle"
    <3>1. PICK s \in SettledStates : dirty[K] = Settled(old, s, a)
      BY <2>2, <1>3 DEF SettlementOf
    <3>2. OwnedBy(old, a) /\ old \in Row
      BY <2>2, <1>3 DEF SettlementOf
    <3>3. /\ dirty[K].state = s /\ dirty[K].token = a /\ dirty[K].result = a
          /\ dirty[K].claimedAt = old.claimedAt
      BY <3>1, <3>2 DEF Settled, OwnedBy, Row
    <3> QED BY <3>2, <3>3, <2>2, <1>1, <1>3 DEF OwnedBy, RowOf, SettledStates
  <2> QED BY <2>1, <2>2 DEF Writing
<1>5. new.state = "started" => pc[a] = "commit_claim"
  BY <1>4 DEF Writing, SettledStates
<1>6. pc[a] = "commit_claim" => new.state = "started"
  BY <1>1, <1>3 DEF ClaimOf, Claimed
<1>7. \A k \in Keys : RowOf(k)'
  <2>1. RowOf(K)'
    BY <1>4 DEF RowOf, NoRow, SettledStates
  <2>2. ASSUME NEW k \in Keys, k # K PROVE RowOf(k)'
    BY <2>2, <1>1 DEF IInv, RowOf
  <2> QED BY <2>1, <2>2
<1>8. \A b \in Attempts : pc[b] \in PostClaim => pc'[b] \in PostClaim
  BY <1>2 DEF PostClaim
<1>9. ASSUME NEW b \in Attempts PROVE LockOf(b)' /\ TokenOf(b)'
  <2>1. LockOf(b) /\ TokenOf(b)
    BY DEF IInv, Local
  <2>2. LockOf(b)'
    BY <2>1, <1>2 DEF LockOf, Publish, Release, Writing, SettledStates
  <2>3. TokenOf(b)'
    BY <2>1, <1>1, <1>2, <1>4, <1>8 DEF TokenOf, PostClaim
  <2> QED BY <2>2, <2>3
<1>10. ASSUME NEW b \in Attempts, b # a PROVE Local(b)'
  <2>1. Local(b)
    BY DEF IInv
  <2>2. pc'[b] = pc[b]
    BY <1>2, <1>10
  <2>3. CASE KeyOf[b] # K
    <3>1. rows'[KeyOf[b]] = rows[KeyOf[b]]
      BY <2>3, <1>1
    <3>2. ClaimOf(b)' /\ StaleOf(b)'
      BY <2>1, <2>2, <3>1 DEF Local, ClaimOf, StaleOf, Expired
    <3>3. SettlementOf(b)'
      BY <2>1, <2>2, <3>1 DEF Local, SettlementOf, OwnedBy
    <3>4. SnapshotOf(b)'
      BY <2>1, <2>2, <3>1, <1>8 DEF Local, SnapshotOf, OwnedBy, IsSettled
    <3>5. OutcomeOf(b)'
      BY <2>1, <2>2, <3>1 DEF Local, OutcomeOf, OwnedBy
    <3> QED BY <1>9, <3>2, <3>3, <3>4, <3>5 DEF Local
  <2>4. CASE KeyOf[b] = K
    <3>1. pc[b] \notin Writing
      <4>1. lock[K] = a /\ LockOf(b)
        BY DEF IInv, Local, LockOf
      <4> QED BY <4>1, <2>4, <1>10 DEF LockOf
    <3>2. ClaimOf(b)' /\ SettlementOf(b)'
      BY <3>1, <2>2 DEF ClaimOf, SettlementOf, Writing
    <3>3. StaleOf(b)'
      BY <2>1, <2>2 DEF Local, StaleOf, Expired
    <3>4. SnapshotOf(b)'
      <4> SUFFICES ASSUME pc[b] \in {"existing", "reclaim", "commit_read", "told"}
                   PROVE  /\ row[b].state # "absent"
                          /\ ~ IsSettled(row[b])
                          /\ row[b].state = "started" =>
                                 /\ row[b].token \in Attempts
                                 /\ pc'[row[b].token] \in PostClaim
                                 /\ ~ OwnedBy(new, row[b].token)
        BY <2>2, <2>4 DEF SnapshotOf, IsSettled
      <4>1. /\ row[b].state # "absent"
            /\ IsSettled(row[b]) => old = row[b]
            /\ row[b].state = "started" => /\ row[b].token \in Attempts
                                           /\ pc[row[b].token] \in PostClaim
        BY <2>1, <2>4 DEF Local, SnapshotOf
      <4>2. ~ IsSettled(row[b])
        BY <4>1, <1>4 DEF IsSettled, SettledStates
      <4>3. row[b].state = "started" => ~ OwnedBy(new, row[b].token)
        BY <4>1, <1>4, <1>5 DEF OwnedBy, PostClaim, SettledStates
      <4> QED BY <4>1, <4>2, <4>3, <1>8
    <3>5. OutcomeOf(b)'
      <4>1. OutcomeOf(b)
        BY <2>1 DEF Local
      <4>2. pc[b] \notin SettledStates
        BY <4>1, <2>4, <1>4 DEF OutcomeOf, SettledStates
      <4>3. ~ OwnedBy(new, b)
        BY <1>4, <1>10 DEF OwnedBy
      <4> QED BY <4>1, <4>2, <4>3, <1>4, <2>2, <2>4 DEF OutcomeOf, SettledStates
    <3> QED BY <1>9, <3>2, <3>3, <3>4, <3>5 DEF Local
  <2> QED BY <2>3, <2>4
<1>11. ClaimOf(a)' /\ SettlementOf(a)' /\ SnapshotOf(a)' /\ StaleOf(a)'
  BY <1>2, <1>3 DEF ClaimOf, SettlementOf, SnapshotOf, StaleOf, SettledStates
<1>12. OutcomeOf(a)'
  BY <1>1, <1>2, <1>4, <1>5, <1>6 DEF OutcomeOf, OwnedBy, SettledStates, Holding, Writing
<1> QED BY <1>7, <1>9, <1>10, <1>11, <1>12 DEF IInv, Local

-----------------------------------------------------------------------------
\* The statements of start() that write nothing.
LEMMA ReadingSteps ==
  ASSUME IInv, TypeOK', NEW a \in Attempts,
         \/ Begin(a) \/ SelectExisting(a) \/ BuildClaim(a) \/ InsertRefused(a)
         \/ SelectRaced(a) \/ ReportExisting(a) \/ DecideReclaim(a)
         \/ ReclaimLost(a) \/ CommitRead(a)
  PROVE  IInv'
<1> USE DEF TypeOK
<1> DEFINE K == KeyOf[a]
           Quiet(from, label) ==
               /\ pc[a] = from /\ Goto(a, label) /\ UNCHANGED <<rows, lock, dirty, now>>
               /\ \A b \in Attempts \ {a} : row'[b] = row[b] /\ stamp'[b] = stamp[b]
<1> TypeOK /\ K \in Keys
  BY DEF IInv
<1>1. RowOf(K) /\ TokenOf(a) /\ SnapshotOf(a) /\ StaleOf(a) /\ OutcomeOf(a)
  BY DEF IInv, Local
<1>2. ASSUME NEW from \in (InStart \ Writing) \union {"idle"},
             NEW label \in (InStart \ Writing) \union {"told"},
             Quiet(from, label), SnapshotOf(a)', StaleOf(a)',
             label = "reselect" => rows[K].state # "absent"
      PROVE  IInv'
  <2>1. pc'[a] = label
    BY <1>2 DEF Goto
  <2>2. ~ OwnedBy(rows[K], a)
    BY <1>1, <1>2 DEF OutcomeOf, OwnedBy, InStart, Writing
  <2>3. OutcomeOf(a)'
    BY <2>1, <2>2, <1>2 DEF OutcomeOf, OwnedBy, InStart, Holding, SettledStates
  <2>4. from \notin PostClaim \union Writing /\ label \notin Writing \union SettledStates
    BY DEF InStart, Writing, PostClaim, SettledStates
  <2> HIDE DEF TypeOK
  <2> QED BY <1>2, <2>3, <2>4, QuietStep
<1>3. CASE Begin(a)
  <2>1. Quiet("idle", "select")
    BY <1>3 DEF Begin, database
  <2>2. SnapshotOf(a)' /\ StaleOf(a)'
    BY <1>1, <1>3 DEF Begin, Goto, database, SnapshotOf, StaleOf
  <2> QED BY <1>2, <2>1, <2>2 DEF InStart, Writing
<1>4. ASSUME NEW from \in {"select", "reselect"}, NEW label \in {"new", "existing"},
             pc[a] = from, Goto(a, label), Reads(a), UNCHANGED <<database, now, stamp>>,
             label = "existing" => rows[K].state # "absent"
      PROVE  IInv'
  <2>1. Quiet(from, label)
    BY <1>4 DEF Reads, database
  <2>2. row'[a] = rows[K] /\ pc'[a] = label
    BY <1>4 DEF Reads, Goto
  <2>3. StaleOf(a)'
    BY <1>1, <1>4, <2>2 DEF StaleOf
  <2>4. rows[K].state = "started" => /\ rows[K].token \in Attempts
                                     /\ pc'[rows[K].token] \in PostClaim
    <3>1. rows[K].state = "started" => /\ rows[K].token \in Attempts
                                       /\ pc[rows[K].token] \in PostClaim
      BY <1>1 DEF RowOf, IInv, Local, TokenOf
    <3> QED BY <3>1, <1>4 DEF Goto, PostClaim, SettledStates
  <2>5. SnapshotOf(a)'
    BY <2>2, <2>4, <1>4 DEF SnapshotOf, database, OwnedBy, IsSettled
  <2> QED BY <1>2, <2>1, <2>3, <2>5 DEF InStart, Writing
<1>5. CASE SelectExisting(a)
  <2>1. CASE rows[K] = NoRow
    BY <2>1, <1>4, <1>5 DEF SelectExisting
  <2>2. CASE rows[K] # NoRow
    BY <2>2, <1>1, <1>4, <1>5 DEF SelectExisting, RowOf
  <2> QED BY <2>1, <2>2
<1>6. CASE SelectRaced(a)
  <2>1. rows[K].state # "absent" /\ rows[K] # NoRow
    BY <1>1, <1>6 DEF SelectRaced, OutcomeOf, RowOf
  <2> QED BY <2>1, <1>4, <1>6 DEF SelectRaced
<1>7. CASE BuildClaim(a)
  <2>1. Quiet("new", "insert")
    BY <1>7 DEF BuildClaim, database
  <2>2. SnapshotOf(a)' /\ StaleOf(a)'
    BY <1>7 DEF BuildClaim, Goto, database, SnapshotOf, StaleOf
  <2> QED BY <1>2, <2>1, <2>2 DEF InStart, Writing
<1>8. CASE InsertRefused(a)
  <2>1. Quiet("insert", "reselect") /\ rows[K].state # "absent"
    BY <1>8, <1>1 DEF InsertRefused, database, RowOf
  <2>2. SnapshotOf(a)' /\ StaleOf(a)'
    BY <1>1, <1>8 DEF InsertRefused, Goto, database, SnapshotOf, StaleOf
  <2> QED BY <1>2, <2>1, <2>2 DEF InStart, Writing
<1>9. ASSUME NEW from \in {"existing", "reclaim", "commit_read"},
             NEW label \in {"reclaim", "commit_read", "told"},
             pc[a] = from, Goto(a, label), UNCHANGED <<database, now, row>>
      PROVE  SnapshotOf(a)'
  <2>1. row[a].state = "started" => pc'[row[a].token] \in PostClaim
    BY <1>1, <1>9 DEF SnapshotOf, Goto, PostClaim, SettledStates
  <2> QED BY <2>1, <1>1, <1>9 DEF SnapshotOf, database, IsSettled, OwnedBy
<1>10. CASE ReportExisting(a)
  <2>1. Quiet("existing", "commit_read")
    BY <1>10 DEF ReportExisting, database
  <2>2. SnapshotOf(a)' /\ StaleOf(a)'
    BY <1>1, <1>9, <1>10 DEF ReportExisting, Goto, StaleOf
  <2> QED BY <1>2, <2>1, <2>2 DEF InStart, Writing
<1>11. CASE DecideReclaim(a)
  <2>1. Quiet("existing", "reclaim")
    BY <1>11 DEF DecideReclaim, database
  <2>2. SnapshotOf(a)'
    BY <1>9, <1>11 DEF DecideReclaim
  <2>3. StaleOf(a)'
    BY <1>11 DEF DecideReclaim, StaleOf, Expired
  <2> QED BY <1>2, <2>1, <2>2, <2>3 DEF InStart, Writing
<1>12. CASE ReclaimLost(a)
  <2>1. Quiet("reclaim", "commit_read")
    BY <1>12 DEF ReclaimLost, database
  <2>2. SnapshotOf(a)' /\ StaleOf(a)'
    BY <1>1, <1>9, <1>12 DEF ReclaimLost, Goto, StaleOf
  <2> QED BY <1>2, <2>1, <2>2 DEF InStart, Writing
<1>13. CASE CommitRead(a)
  <2>1. Quiet("commit_read", "told")
    BY <1>13 DEF CommitRead, database
  <2>2. SnapshotOf(a)' /\ StaleOf(a)'
    BY <1>1, <1>9, <1>13 DEF CommitRead, Goto, StaleOf
  <2> QED BY <1>2, <2>1, <2>2 DEF InStart, Writing
<1> QED BY <1>3, <1>5, <1>6, <1>7, <1>8, <1>10, <1>11, <1>12, <1>13

\* The three statements that write the row.
LEMMA WritingSteps ==
  ASSUME IInv, TypeOK', NEW a \in Attempts,
         \/ InsertClaim(a) \/ Reclaim(a)
         \/ \E s \in SettledStates : Settle(a, s)
  PROVE  IInv'
<1> USE DEF TypeOK
<1> DEFINE K == KeyOf[a]
<1> TypeOK /\ K \in Keys
  BY DEF IInv
<1>1. RowOf(K) /\ TokenOf(a) /\ SnapshotOf(a) /\ StaleOf(a) /\ OutcomeOf(a)
  BY DEF IInv, Local
<1>2. ASSUME NEW from \in {"insert", "reclaim"}, pc[a] = from, Goto(a, "commit_claim"),
             Writes(a, Claimed(a, stamp[a])), UNCHANGED <<rows, now, stamp>>,
             \A b \in Attempts \ {a} : row'[b] = row[b],
             rows[K].state \in {"absent", "started"},
             rows[K].state = "started" => Expired(rows[K], stamp[a])
      PROVE  IInv'
  <2>1. pc'[a] = "commit_claim" /\ dirty'[K] = Claimed(a, stamp[a])
    BY <1>2 DEF Goto, Writes
  <2>2. ClaimOf(a)' /\ SettlementOf(a)'
    BY <1>2, <2>1 DEF ClaimOf, SettlementOf, Claimed, Expired
  <2>3. OutcomeOf(a)'
    BY <1>1, <1>2, <2>1 DEF OutcomeOf, OwnedBy, Holding, SettledStates
  <2>4. pc[a] \notin PostClaim /\ "commit_claim" \in Writing
    BY <1>2 DEF PostClaim, Writing, SettledStates
  <2> HIDE DEF TypeOK
  <2> QED BY <1>2, <2>2, <2>3, <2>4, WriteStep
<1>3. CASE InsertClaim(a)
  <2>1. rows[K].state = "absent"
    BY <1>3, <1>1 DEF InsertClaim, RowOf
  <2> QED BY <2>1, <1>2, <1>3 DEF InsertClaim
<1>4. CASE Reclaim(a)
  <2>1. rows[K] = row[a] /\ rows[K].state = "started" /\ Expired(row[a], stamp[a])
    BY <1>1, <1>4 DEF Reclaim, SnapshotOf, StaleOf, OwnedBy
  <2>2. Reclaimed(rows[K], a, stamp[a]) = Claimed(a, stamp[a])
    BY <1>1, <2>1 DEF RowOf, Reclaimed, Claimed
  <2> QED BY <2>1, <2>2, <1>2, <1>4 DEF Reclaim
<1>5. ASSUME NEW s \in SettledStates, Settle(a, s) PROVE IInv'
  <2>1. /\ pc'[a] = "commit_settle"
        /\ dirty'[K] = Settled(rows[K], s, a)
        /\ OwnedBy(rows[K], a)
    BY <1>5 DEF Settle, Goto, Writes
  <2>2. ClaimOf(a)' /\ SettlementOf(a)'
    BY <1>5, <2>1 DEF Settle, ClaimOf, SettlementOf, OwnedBy, Settled
  <2>3. OutcomeOf(a)'
    BY <1>5, <2>1 DEF Settle, OutcomeOf, OwnedBy, Holding, SettledStates
  <2>4. "commit_settle" \in Writing
    BY DEF Writing
  <2>5. /\ Goto(a, "commit_settle")
        /\ Writes(a, Settled(rows[K], s, a))
        /\ UNCHANGED <<rows, now, stamp>>
        /\ \A b \in Attempts \ {a} : row'[b] = row[b]
    BY <1>5 DEF Settle
  <2> HIDE DEF TypeOK
  <2> QED BY <2>2, <2>3, <2>4, <2>5, WriteStep
<1> QED BY <1>3, <1>4, <1>5

\* The ways a transaction ends, and a settlement that is refused.
LEMMA EndingSteps ==
  ASSUME IInv, TypeOK', NEW a \in Attempts,
         \/ CommitClaim(a) \/ CommitSettle(a) \/ CommitUnacknowledged(a)
         \/ Rollback(a) \/ Crash(a) \/ SettleRefused(a)
  PROVE  IInv'
<1>1. RowOf(KeyOf[a]) /\ SettlementOf(a) /\ StaleOf(a) /\ OutcomeOf(a) /\ TypeOK
  BY DEF IInv, Local
<1>2. CASE CommitClaim(a)
  BY <1>2, PublishStep DEF CommitClaim, Writing, SettledStates
<1>3. CASE CommitSettle(a)
  <2>1. pc[a] = "commit_settle"
    BY <1>3 DEF CommitSettle
  <2>2. PICK s \in SettledStates : dirty[KeyOf[a]] = Settled(rows[KeyOf[a]], s, a)
    BY <1>1, <2>1 DEF SettlementOf
  <2>3. dirty[KeyOf[a]].state \in SettledStates
    BY <2>2 DEF Settled
  <2> QED BY <2>1, <2>3, <1>3, PublishStep DEF CommitSettle, Writing
<1>4. CASE CommitUnacknowledged(a)
  <2>1. pc[a] \in Writing /\ Raised(a) \in {"owner", "error"}
    BY <1>4 DEF CommitUnacknowledged, Writing, Raised
  <2> QED BY <2>1, <1>4, PublishStep DEF CommitUnacknowledged, SettledStates
<1>5. CASE Rollback(a)
  BY <1>5, ReleaseStep DEF Rollback, Raised
<1>6. CASE Crash(a)
  BY <1>6, ReleaseStep DEF Crash
<1>7. CASE SettleRefused(a)
  <2>1. rows[KeyOf[a]].state # "absent" /\ rows[KeyOf[a]] # NoRow
    BY <1>1, <1>7 DEF SettleRefused, OutcomeOf, RowOf
  <2>2. Goto(a, "lost") /\ UNCHANGED <<rows, lock, dirty, now, row, stamp>>
    BY <2>1, <1>7 DEF SettleRefused, database
  <2>3. pc'[a] = "lost"
    BY <2>2, <1>1 DEF Goto, TypeOK
  <2>4. OutcomeOf(a)' /\ StaleOf(a)' /\ SnapshotOf(a)'
    BY <1>1, <1>7, <2>1, <2>2, <2>3
       DEF SettleRefused, OutcomeOf, StaleOf, SnapshotOf, OwnedBy, SettledStates
  <2>5. pc[a] \notin Writing /\ "lost" \notin Writing \union SettledStates /\ "lost" \in PostClaim
    BY <1>7 DEF SettleRefused, Holding, Writing, SettledStates, PostClaim
  <2> QED BY <2>2, <2>4, <2>5, QuietStep
<1> QED BY <1>2, <1>3, <1>4, <1>5, <1>6, <1>7

\* Time only moves forward, so what was stale stays stale.
LEMMA TickStep == ASSUME IInv, TypeOK', Tick PROVE IInv'
<1> USE DEF TypeOK
<1> TypeOK
  BY DEF IInv
<1>1. now <= now' /\ UNCHANGED <<rows, lock, dirty, pc, row, stamp>>
  BY DEF Tick, database
<1>2. ASSUME NEW k \in Keys PROVE RowOf(k)'
  <2>1. RowOf(k) /\ rows[k].claimedAt \in Nat
    BY DEF IInv, Row
  <2> QED BY <1>1, <2>1 DEF RowOf
<1>3. ASSUME NEW a \in Attempts PROVE Local(a)'
  <2>1. Local(a)
    BY DEF IInv
  <2>2. LockOf(a)' /\ TokenOf(a)'
    BY <1>1, <2>1 DEF Local, LockOf, TokenOf
  <2>3. ClaimOf(a)' /\ SettlementOf(a)'
    BY <1>1, <2>1 DEF Local, ClaimOf, SettlementOf, OwnedBy, Expired
  <2>4. SnapshotOf(a)' /\ OutcomeOf(a)'
    BY <1>1, <2>1 DEF Local, SnapshotOf, OutcomeOf, OwnedBy, IsSettled
  <2>5. StaleOf(a)'
    BY <1>1, <2>1 DEF Local, StaleOf, Expired
  <2> QED BY <2>2, <2>3, <2>4, <2>5 DEF Local
<1> QED BY <1>2, <1>3 DEF IInv

-----------------------------------------------------------------------------
\* Nothing is claimed, read or locked to begin with.
LEMMA InitInv == Init => IInv
<1> SUFFICES ASSUME Init PROVE IInv
  OBVIOUS
<1>1. \A k \in Keys : RowOf(k)
  BY DEF Init, RowOf, NoRow
<1>2. ASSUME NEW a \in Attempts PROVE Local(a)
  <2>1. LockOf(a) /\ TokenOf(a)
    BY DEF Init, LockOf, TokenOf, NoRow, Writing
  <2>2. ClaimOf(a) /\ SettlementOf(a) /\ SnapshotOf(a) /\ StaleOf(a)
    BY DEF Init, ClaimOf, SettlementOf, SnapshotOf, StaleOf
  <2>3. OutcomeOf(a)
    BY DEF Init, OutcomeOf, OwnedBy, NoRow, SettledStates, Holding
  <2> QED BY <2>1, <2>2, <2>3 DEF Local
<1> QED BY <1>1, <1>2, InitType DEF IInv

\* IInv is inductive.
LEMMA NextInv == IInv /\ [Next]_vars => IInv'
<1> SUFFICES ASSUME IInv, [Next]_vars PROVE IInv'
  OBVIOUS
<1>1. TypeOK'
  BY NextType
<1>2. ASSUME NEW a \in Attempts, Begin(a) \/ Step(a) PROVE IInv'
  BY <1>1, <1>2, ReadingSteps, WritingSteps, EndingSteps DEF Step
<1>3. ASSUME NEW a \in Attempts,
             \/ \E s \in SettledStates : Settle(a, s)
             \/ SettleRefused(a) \/ Rollback(a) \/ CommitUnacknowledged(a) \/ Crash(a)
      PROVE  IInv'
  BY <1>1, <1>3, WritingSteps, EndingSteps
<1>4. CASE Tick
  BY <1>1, <1>4, TickStep
<1>5. CASE UNCHANGED vars
  <2>1. UNCHANGED <<rows, now, lock, dirty, pc, row, stamp>>
    BY <1>5 DEF vars
  <2>2. \A k \in Keys : RowOf(k)'
    BY <2>1 DEF IInv, RowOf
  <2>3. ASSUME NEW a \in Attempts PROVE Local(a)'
    BY <2>1 DEF IInv, Local, LockOf, TokenOf, ClaimOf, SettlementOf, SnapshotOf, StaleOf,
                OutcomeOf, OwnedBy, Expired, IsSettled
  <2> QED BY <1>1, <2>2, <2>3 DEF IInv
<1> QED BY <1>2, <1>3, <1>4, <1>5 DEF Next

\* The inductive invariant holds in every reachable state.
THEOREM Invariance == Spec => []IInv
  BY InitInv, NextInv, PTL DEF Spec

\* Every variable keeps its type.
THEOREM TypeCorrect == Spec => []TypeOK
<1>1. IInv => TypeOK
  BY DEF IInv
<1> QED BY <1>1, Invariance, PTL

\* A settlement that was acknowledged to its caller is never overwritten,
\* whatever claims expire and whoever takes them over.
THEOREM AckedOutcome == Spec => []AckedOutcomeStands
<1>1. IInv => AckedOutcomeStands
  BY DEF IInv, Local, OutcomeOf, AckedOutcomeStands
<1> QED BY <1>1, Invariance, PTL

\* The outcome that start() reports to a later caller is the final one.
THEOREM ReportedOutcome == Spec => []ReportedOutcomeStands
<1>1. IInv => ReportedOutcomeStands
  BY DEF IInv, Local, SnapshotOf, ReportedOutcomeStands
<1> QED BY <1>1, Invariance, PTL

\* A lost claim stays lost, and a STARTED row never names an attempt that has
\* returned without the claim.
THEOREM ClaimsAreLive == Spec => []NoPhantomClaim
<1>1. IInv => NoPhantomClaim
  BY DEF IInv, Local, OutcomeOf, NoPhantomClaim
<1> QED BY <1>1, Invariance, PTL

\* The row lock of a key is only held by a transaction that is about to end.
THEOREM TransientLocks == Spec => []LocksAreTransient
<1>1. IInv => LocksAreTransient
  <2> SUFFICES ASSUME IInv, NEW k \in Keys, lock[k] # Nobody
               PROVE  KeyOf[lock[k]] = k /\ pc[lock[k]] \in {"commit_claim", "commit_settle"}
    BY DEF LocksAreTransient
  <2>1. lock[k] \in Attempts
    BY DEF IInv, TypeOK
  <2>2. LockOf(lock[k])
    BY <2>1 DEF IInv, Local
  <2> QED BY <2>2 DEF LockOf, Writing
<1> QED BY <1>1, Invariance, PTL

\* idempotency_key_contended and idempotency_record_not_found are dead code.
THEOREM RowStays == Spec => []RowNeverVanishes
<1>1. IInv => RowNeverVanishes
  <2> SUFFICES ASSUME IInv, NEW a \in Attempts
               PROVE  /\ pc[a] \in {"reselect"} \union Holding => rows[KeyOf[a]] # NoRow
                      /\ pc[a] \notin {"contended", "not_found"}
    BY DEF RowNeverVanishes
  <2>1. OutcomeOf(a) /\ RowOf(KeyOf[a])
    BY DEF IInv, Local
  <2> QED BY <2>1 DEF OutcomeOf, RowOf
<1> QED BY <1>1, Invariance, PTL

-----------------------------------------------------------------------------
\* A commit is a step of the contract: it claims a free key, takes over a stale
\* claim, or settles the claim of the committing attempt.
LEMMA PublishRefines ==
  ASSUME IInv, NEW a \in Attempts, pc[a] \in Writing, Publish(a), now' = now
  PROVE  Claims!Next
<1> DEFINE K == KeyOf[a]
<1> TypeOK /\ K \in Keys
  BY DEF IInv
<1>1. RowOf(K) /\ TokenOf(a) /\ ClaimOf(a) /\ SettlementOf(a) /\ StaleOf(a)
  BY DEF IInv, Local
<1>2. rows' = [rows EXCEPT ![K] = dirty[K]]
  BY DEF Publish
<1>3. CASE pc[a] = "commit_claim"
  <2>1. dirty[K] = Claimed(a, stamp[a]) /\ stamp[a] \in 0 .. now
    BY <1>1, <1>3 DEF ClaimOf, StaleOf, TypeOK
  <2>2. CASE rows[K].state = "absent"
    <3>1. rows[K] = NoRow
      BY <2>2, <1>1 DEF RowOf
    <3>2. Claims!Claim(K, a)
      BY <3>1, <2>1, <1>2 DEF Claims!Claim, Claims!Set,
         Claims!NoRow, NoRow, Claims!Claimed, Claimed
    <3> QED BY <3>2 DEF Claims!Next
  <2>3. CASE rows[K].state = "started"
    <3>1. rows[K].token # a
      BY <1>1, <1>3 DEF TokenOf, PostClaim, SettledStates
    <3>2. rows[K].claimedAt \in Nat
      BY DEF TypeOK, Row
    <3>3. stamp[a] \in (rows[K].claimedAt + ClaimTtl) .. now
      BY <2>1, <2>3, <3>2, <1>1, <1>3 DEF ClaimOf, Expired
    <3>4. Claims!TakeOver(K, a)
      BY <3>1, <3>3, <2>1, <2>3, <1>2 DEF Claims!TakeOver, Claims!Set,
         Claims!Claimed, Claimed
    <3> QED BY <3>4 DEF Claims!Next
  <2> QED BY <2>2, <2>3, <1>1, <1>3 DEF ClaimOf
<1>4. CASE pc[a] = "commit_settle"
  <2>1. PICK s \in SettledStates : dirty[K] = Settled(rows[K], s, a)
    BY <1>1, <1>4 DEF SettlementOf
  <2>2. rows[K].state = "started" /\ rows[K].token = a
    BY <1>1, <1>4 DEF SettlementOf, OwnedBy
  <2>3. Claims!Settle(K, s)
    BY <2>1, <2>2, <1>2 DEF Claims!Settle, Claims!Set,
       Claims!Settled, Settled
  <2> QED BY <2>3 DEF Claims!Next, Claims!SettledStates, SettledStates
<1> QED BY <1>3, <1>4 DEF Writing

\* Every step of the repository is a step of the contract or changes neither
\* the committed rows nor the clock.
LEMMA NextRefines == IInv /\ [Next]_vars => [Claims!Next]_Claims!vars
<1> SUFFICES ASSUME IInv, [Next]_vars PROVE Claims!Next \/ UNCHANGED <<rows, now>>
  BY DEF Claims!vars
<1> TypeOK
  BY DEF IInv
<1>1. ASSUME NEW a \in Attempts, CommitClaim(a) \/ CommitSettle(a) \/ CommitUnacknowledged(a)
      PROVE  Claims!Next
  BY <1>1, PublishRefines DEF CommitClaim, CommitSettle, CommitUnacknowledged, Writing
<1>2. CASE Tick
  BY <1>2 DEF Tick, database, Claims!Next, Claims!Tick, TypeOK
<1>3. ASSUME NEW a \in Attempts, Begin(a) \/ Step(a)
      PROVE  Claims!Next \/ UNCHANGED <<rows, now>>
  BY <1>1, <1>3 DEF Begin, Step, SelectExisting, BuildClaim, InsertClaim, InsertRefused,
     SelectRaced, ReportExisting, DecideReclaim, Reclaim, ReclaimLost, CommitRead, database
<1>4. ASSUME NEW a \in Attempts,
             \/ \E s \in SettledStates : Settle(a, s)
             \/ SettleRefused(a) \/ Rollback(a) \/ CommitUnacknowledged(a) \/ Crash(a)
      PROVE  Claims!Next \/ UNCHANGED <<rows, now>>
  BY <1>1, <1>4 DEF Settle, SettleRefused, Rollback, Crash, database
<1>5. CASE UNCHANGED vars
  BY <1>5 DEF vars
<1> QED BY <1>2, <1>3, <1>4, <1>5 DEF Next

\* The repository, statement by statement and with rollbacks, lost
\* acknowledgements and crashes, implements the contract of the port.
THEOREM Refinement == Spec => ClaimContract
<1>1. Init => Claims!Init
  BY DEF Init, Claims!Init, Claims!NoRow, NoRow
<1> QED BY <1>1, Invariance, NextRefines, PTL DEF Spec, ClaimContract, Claims!Spec
=============================================================================
