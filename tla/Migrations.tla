----------------------------- MODULE Migrations -----------------------------
(***************************************************************************)
(* The migration chain 0001 .. 0005, run over a database that is in use.   *)
(*                                                                         *)
(* A command of alembic takes the database to another revision.  env.py    *)
(* runs it in one transaction, so its revisions are applied together or,   *)
(* when a statement is refused, not at all.  Between commands the          *)
(* application writes its rows, as far as the columns it names exist; an   *)
(* earlier release, which knows no claim token, may take claims over while *)
(* the schema is the one of that release; and somebody may write any row   *)
(* the schema admits.                                                      *)
(*                                                                         *)
(* Migrations treat every row by itself: the database holds one            *)
(* idempotency record and a few other rows.                                *)
(***************************************************************************)
EXTENDS Schema, IdempotencyRecord, FiniteSets

CONSTANTS
    ManualWrites,   \* whether rows are written past the application
    MaxRows,        \* bound on the rows other than the idempotency record
    MaxNow,         \* bound on the clock
    MaxCommands     \* bound on the commands of the operator

ASSUME MigrationBounds ==
    ManualWrites \in BOOLEAN /\ MaxRows \in Nat /\ MaxNow \in Nat /\ MaxCommands \in Nat

VARIABLES
    revision,   \* alembic_version; 0 is base
    rows,       \* the rows of the tables of DataRow
    record,     \* the row of idempotency_records, or NoRow
    now,
    commands,   \* the commands that were given
    refused,    \* the last command was refused by the database
    callers,    \* the attempts that have called start() with success
    \* History:
    holder,     \* who made the claim in force: an attempt, or Nobody for another release
    heldSince,  \* and when
    stained     \* a row was written by hand, or lost its response to a downgrade

db == <<rows, record>>
history == <<holder, heldSince, stained>>
vars == <<revision, db, now, commands, refused, callers, history>>

Newest == 5

\* Every variable has its type, and no row has a column its revision lacks.
TypeOK == /\ revision \in 0 .. Newest
          /\ \A r \in rows : r \in DataRow /\ HasColumns(revision, r)
          /\ record \in Row
          /\ now \in 0 .. MaxNow
          /\ commands \in 0 .. MaxCommands
          /\ refused \in BOOLEAN
          /\ callers \subseteq Attempts
          /\ holder \in Attempts \union {Nobody}
          /\ heldSince \in 0 .. MaxNow
          /\ stained \in BOOLEAN

Init == /\ revision = 0 /\ rows = {} /\ record = NoRow
        /\ now = 0 /\ commands = 0 /\ refused = FALSE /\ callers = {}
        /\ holder = Nobody /\ heldSince = 0 /\ stained = FALSE

-----------------------------------------------------------------------------
\* What the revisions do to the rows: Up adds, Down removes.

\* Mutant of WithLimits: the columns are backfilled with zero.
WithLimitsZero(r) ==
    IF r \in RunRow THEN [r EXCEPT !.limits = "invalid", !.response = FALSE] ELSE r

\* 0002: the limits of existing runs are the defaults, their response is NULL.
WithLimits(r) ==
    IF r \in RunRow THEN [r EXCEPT !.limits = "positive", !.response = FALSE] ELSE r

WithoutLimits(r) ==
    IF r \in RunRow THEN [r EXCEPT !.limits = "absent", !.response = FALSE] ELSE r

\* Mutant of WithClaimTime: existing claims are given the earliest time there is.
WithClaimTimeZero(c) == [c EXCEPT !.claimedAt = 0]

\* 0003: existing claims count from the migration on.
WithClaimTime(c) == [c EXCEPT !.claimedAt = now]

WithoutClaimTime(c) == [c EXCEPT !.claimedAt = 0]

\* 0004: existing claims get the id of their row as their token, which no
\* attempt presents.
WithToken(c) == [c EXCEPT !.token = Nobody]

WithoutToken(c) == [c EXCEPT !.token = Nobody]

Database(someRows, someRecord) == [rows |-> someRows, record |-> someRecord]

\* Applying a function to the record of the key, if it has one.
IfAny(c, Column(_)) == IF c = NoRow THEN NoRow ELSE Column(c)

Up(i, d) ==
    CASE i = 2 -> Database({WithLimits(r) : r \in d.rows}, d.record)
      [] i = 3 -> Database(d.rows, IfAny(d.record, WithClaimTime))
      [] i = 4 -> Database(d.rows, IfAny(d.record, WithToken))
      [] OTHER -> d

\* Mutant of Accepts: the constraints are not checked against existing rows.
AcceptsUnchecked(i, d) == i = 1 => CreationSucceeds

\* No statement of the revision is refused: 0001 creates tables, 0005 adds
\* constraints that the rows must satisfy.
Accepts(i, d) == /\ i = 1 => CreationSucceeds
                 /\ i = 5 => \A r \in d.rows : PassesChecks(r)

Down(i, d) ==
    CASE i = 1 -> Database({}, NoRow)
      [] i = 2 -> Database({WithoutLimits(r) : r \in d.rows}, d.record)
      [] i = 3 -> Database(d.rows, IfAny(d.record, WithoutClaimTime))
      [] i = 4 -> Database(d.rows, IfAny(d.record, WithoutToken))
      [] OTHER -> d

-----------------------------------------------------------------------------
Commanded == commands < MaxCommands /\ commands' = commands + 1

\* The database after each of the revisions that a command runs, in its order.
UpgradePath(target) ==
    LET at[i \in revision .. target] ==
            IF i = revision THEN Database(rows, record) ELSE Up(i, at[i - 1])
    IN  at

DowngradePath(target) ==
    LET at[i \in target .. revision] ==
            IF i = revision THEN Database(rows, record) ELSE Down(i + 1, at[i + 1])
    IN  at

\* alembic upgrade <target>.
Upgrade(target) ==
    /\ Commanded
    /\ target > revision
    /\ LET at == UpgradePath(target)
           accepted == \A i \in revision + 1 .. target : Accepts(i, at[i - 1])
       IN  /\ refused' = ~ accepted
           /\ IF accepted
              THEN revision' = target /\ rows' = at[target].rows /\ record' = at[target].record
              ELSE UNCHANGED <<revision, db>>
    /\ UNCHANGED <<now, callers, history>>

\* alembic downgrade <target>.
Downgrade(target) ==
    /\ Commanded
    /\ target < revision
    /\ LET at == DowngradePath(target)
           accepted == target = 0 => DroppingSucceeds
       IN  /\ refused' = ~ accepted
           /\ IF accepted
              THEN revision' = target /\ rows' = at[target].rows /\ record' = at[target].record
              ELSE UNCHANGED <<revision, db>>
           /\ stained' = /\ rows' # {}
                         /\ \/ stained
                            \/ target < 2 /\ \E r \in rows : r \in RunRow /\ r.response
    /\ UNCHANGED <<now, callers, holder, heldSince>>

-----------------------------------------------------------------------------
\* The first revision with every column that the current models name.
Needs(r) == IF r \in RunRow THEN 2 ELSE 1

\* What the application inserts.
Sound(r) == /\ Loads(r)
            /\ r \in StepRow => r.indexed
            /\ r \in RunRow => /\ r.status = "running"
                               /\ ~ r.finished /\ ~ r.response /\ ~ r.reason

\* A row the application adds.
Insert(r) ==
    /\ Cardinality(rows) < MaxRows
    /\ revision >= Needs(r) /\ Sound(r)
    /\ rows' = rows \union {r}
    /\ UNCHANGED <<revision, record, now, commands, refused, callers, history>>

\* The application ends a run: finish() with a response, fail() with a reason.
EndRun(r, status) ==
    /\ r \in RunRow /\ r.status = "running" /\ revision >= Needs(r) /\ LoadsRun(r)
    /\ LET ended == [r EXCEPT !.status = status, !.finished = TRUE,
                              !.response = (status = "succeeded"), !.reason = (status = "failed")]
       IN  rows' = (rows \ {r}) \union {ended}
    /\ UNCHANGED <<revision, record, now, commands, refused, callers, history>>

\* Somebody writes a row past the application.
WriteByHand(r) ==
    /\ ManualWrites
    /\ revision > 0 /\ Admits(revision, r)
    /\ \/ Cardinality(rows) < MaxRows /\ rows' = rows \union {r}
       \/ \E old \in rows : old.table = r.table /\ rows' = (rows \ {old}) \union {r}
    /\ stained' = TRUE
    /\ UNCHANGED <<revision, record, now, commands, refused, callers, holder, heldSince>>

-----------------------------------------------------------------------------
\* The claim that is in force was made by this one, now.
Holds(a) == holder' = a /\ heldSince' = now

\* start() claims a free key or takes a stale claim over.  Its statements name
\* claim_token, so they fail before 0004.
Claim(t) ==
    /\ revision >= 4
    /\ t \notin callers /\ callers' = callers \union {t}
    /\ \/ record = NoRow /\ record' = Claimed(t, now)
       \/ record.state = "started" /\ Expired(record, now) /\ record' = Reclaimed(record, t, now)
    /\ Holds(t)
    /\ UNCHANGED <<revision, rows, now, commands, refused, stained>>

\* complete() or fail() with the token of the attempt.
Settle(t, state) ==
    /\ revision >= 4
    /\ OwnedBy(record, t)
    /\ record' = Settled(record, state, t)
    /\ UNCHANGED <<revision, rows, now, commands, refused, callers, history>>

\* The release that came with 0003 takes a stale claim over.
TakenOverUntokened ==
    /\ revision = 3
    /\ record.state = "started" /\ Expired(record, now)
    /\ record' = [record EXCEPT !.claimedAt = now]
    /\ Holds(Nobody)
    /\ UNCHANGED <<revision, rows, now, commands, refused, callers, stained>>

Tick == /\ now < MaxNow
        /\ now' = now + 1
        /\ UNCHANGED <<revision, db, commands, refused, callers, history>>

Next == \/ \E target \in 0 .. Newest : Upgrade(target) \/ Downgrade(target)
        \/ \E r \in DataRow : Insert(r) \/ WriteByHand(r)
        \/ \E r \in rows, status \in {"succeeded", "failed"} : EndRun(r, status)
        \/ \E t \in Attempts : Claim(t) \/ \E state \in SettledStates : Settle(t, state)
        \/ TakenOverUntokened
        \/ Tick

Spec == Init /\ [][Next]_vars

-----------------------------------------------------------------------------
\* However revisions and writes alternate, a command is refused only because of
\* a row that was written past the application or lost its response when the
\* database was taken below 0002: what the application itself has stored never
\* stands in the way of an upgrade or a downgrade.
RefusedOnlyByStain == refused => stained

\* A claim is not taken over before it has been held for the time to live,
\* whatever the migrations did to its columns meanwhile.
NoEarlyTakeover ==
    [][record.state = "started" /\ (holder' # holder \/ heldSince' # heldSince)
           => heldSince + ClaimTtl <= now]_vars

\* Only the attempt whose claim is in force decides its outcome: one whose claim
\* a release without tokens took over cannot, once tokens are back.
OutcomeByHolder ==
    [][record.state = "started" /\ record'.state \in SettledStates
           => record'.result = holder]_vars

\* What is at head was checked: a row in a database at head loads, unless it is a
\* blank message or a step of an unknown type, which no constraint refuses; a run
\* that has ended says how, and a step has a proper index; whoever wrote the row
\* and at which revision.
HeadRowsSound ==
    revision = Newest =>
        \A r \in rows :
            /\ \/ Loads(r)
               \/ r \in MessageRow /\ r.role = "member" /\ r.content = "blank"
               \/ r \in StepRow /\ r.type = "other"
            /\ r \in RunRow => EndRecorded(r)
            /\ r \in StepRow => r.indexed
=============================================================================
