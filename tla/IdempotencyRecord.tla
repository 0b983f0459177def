------------------------- MODULE IdempotencyRecord -------------------------
(***************************************************************************)
(* The durable row of one idempotency key (table idempotency_records) and  *)
(* the predicates its statements use in their WHERE clauses.               *)
(*                                                                         *)
(* A row carries the token of the claim that owns it.  Every call of       *)
(* start() stores at most one fresh uuid4 token, so a token is identified  *)
(* with the attempt that stored it; likewise a stored result is identified *)
(* with the attempt that wrote it.  Timestamps are natural numbers.        *)
(***************************************************************************)
EXTENDS Naturals

CONSTANTS
    Attempts,   \* callers of start(), each calling it once
    Nobody,     \* the value of an empty token, result or lock
    ClaimTtl    \* DEFAULT_CLAIM_TTL_SECONDS, in ticks of the clock

ASSUME NobodyAssumption == Nobody \notin Attempts

ASSUME ClaimTtlAssumption == ClaimTtl \in Nat \ {0}

\* IdempotencyState of a record that has an outcome.
SettledStates == {"completed", "failed"}

\* "absent" stands for a key that has no row.
States == {"absent", "started"} \union SettledStates

Row == [state     : States,
        token     : Attempts \union {Nobody},
        claimedAt : Nat,
        result    : Attempts \union {Nobody}]

NoRow == [state |-> "absent", token |-> Nobody, claimedAt |-> 0, result |-> Nobody]

-----------------------------------------------------------------------------
\* The row that start() inserts: STARTED, an empty result, a fresh token.
Claimed(a, t) ==
    [state |-> "started", token |-> a, claimedAt |-> t, result |-> Nobody]

\* The row after the UPDATE of _reclaim_if_expired: claimed_at and
\* claim_token change, state and result stay.
Reclaimed(r, a, t) ==
    [state |-> r.state, token |-> a, claimedAt |-> t, result |-> r.result]

\* Mutant of Settled: the outcome is stored but the row stays STARTED.
SettledResultOnly(r, s, a) ==
    [state |-> r.state, token |-> r.token, claimedAt |-> r.claimedAt, result |-> a]

\* The row after the UPDATE of _settle: state and result change, the token stays.
Settled(r, s, a) ==
    [state |-> s, token |-> r.token, claimedAt |-> r.claimedAt, result |-> a]

\* Mutant of Expired: a claim goes stale one tick early.
ExpiredEarly(r, t) == r.claimedAt + ClaimTtl <= t + 1

\* The staleness test of _reclaim_if_expired, in Python, on the row read.
Expired(r, t) == r.claimedAt + ClaimTtl <= t

\* Mutant of OwnedBy: the WHERE clause forgets the state.
OwnedByTokenOnly(r, token) == r.token = token

\* Mutant of OwnedBy: the WHERE clause forgets the token.
OwnedByStateOnly(r, token) == r.state = "started"

\* WHERE state = STARTED AND claim_token = token.
OwnedBy(r, token) == r.state = "started" /\ r.token = token

\* A row whose outcome is decided.
IsSettled(r) == r.state \in SettledStates
=============================================================================
