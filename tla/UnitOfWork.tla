----------------------------- MODULE UnitOfWork -----------------------------
(***************************************************************************)
(* SqlAlchemyUnitOfWork: the transaction every use case runs in, the pool  *)
(* of connections the transactions share, and the translation of database  *)
(* errors into the error taxonomy of the domain.                           *)
(*                                                                         *)
(* What the body of the unit of work does is left out but for the number   *)
(* of statements it has executed and the exception it raises.              *)
(***************************************************************************)
EXTENDS Naturals, FiniteSets

CONSTANTS
    Tasks,          \* each runs one unit of work
    Capacity,       \* pool_size + max_overflow
    MaxStatements   \* bound on the statements of a body

ASSUME CapacityAssumption == Capacity \in Nat \ {0} /\ MaxStatements \in Nat

VARIABLES
    pc,         \* where each task is
    connected,  \* the sessions that hold a connection: of tasks, and of others
    pending,    \* statements executed in the transaction
    durable,    \* statements whose effect is committed
    failure,    \* the first exception, as it was raised
    error       \* the exception in flight, at the end the one the caller sees

vars == <<pc, connected, pending, durable, failure, error>>

\* translate_database_errors: the exceptions of SQLAlchemy and their codes.
\* PoolTimeout stands for sqlalchemy.exc.TimeoutError, which is a
\* SQLAlchemyError but not a DBAPIError.
Translation == [IntegrityError |-> "database_conflict",
                DBAPIError     |-> "database_unavailable",
                PoolTimeout    |-> "database_error"]

DatabaseErrors == DOMAIN Translation

Translated(e) == IF e \in DatabaseErrors THEN Translation[e] ELSE e

\* The codes that are raised with retryable=True.
Retryable == {"database_unavailable"}

Errors == DatabaseErrors \union {"none", "NexaBotError", "CancelledError",
             "database_conflict", "database_unavailable", "database_error"}

\* Every variable has its type.
TypeOK == /\ pc \in [Tasks -> {"idle", "body", "commit", "rollback", "close", "ended"}]
          /\ connected \cap Tasks \subseteq {t \in Tasks : pc[t] \notin {"idle", "ended"}}
          /\ pending \in [Tasks -> 0 .. MaxStatements]
          /\ durable \in [Tasks -> 0 .. MaxStatements]
          /\ failure \in [Tasks -> Errors]
          /\ error \in [Tasks -> Errors]

Init == /\ pc = [t \in Tasks |-> "idle"]
        /\ connected = {}
        /\ pending = [t \in Tasks |-> 0]
        /\ durable = [t \in Tasks |-> 0]
        /\ failure = [t \in Tasks |-> "none"]
        /\ error = [t \in Tasks |-> "none"]

-----------------------------------------------------------------------------
Goto(t, label) == pc' = [pc EXCEPT ![t] = label]

Fail(t, e) == failure' = [failure EXCEPT ![t] = e]

See(t, e) == error' = [error EXCEPT ![t] = e]

\* __aenter__ creates a session, which has no connection yet.
Enter(t) ==
    /\ pc[t] = "idle"
    /\ Goto(t, "body")
    /\ UNCHANGED <<connected, pending, durable, failure, error>>

\* The session has a connection, or the pool has one for it.
CanConnect(t) == t \in connected \/ Cardinality(connected) < Capacity

\* The body executes a statement; the first one takes a connection.
Statement(t) ==
    /\ pc[t] = "body"
    /\ pending[t] < MaxStatements
    /\ CanConnect(t)
    /\ connected' = connected \union {t}
    /\ pending' = [pending EXCEPT ![t] = @ + 1]
    /\ UNCHANGED <<pc, durable, failure, error>>

\* Mutant of Raise: __aexit__ commits without looking at the exception.
RaiseIgnored(t, e) == Fail(t, e) /\ See(t, e) /\ Goto(t, "commit")

\* An exception leaves the body: __aexit__ rolls back.
Raise(t, e) == Fail(t, e) /\ See(t, e) /\ Goto(t, "rollback")

\* The server refuses the statement, or the connection is lost.
StatementFails(t, e) ==
    /\ pc[t] = "body"
    /\ CanConnect(t)
    /\ connected' = connected \union {t}
    /\ Raise(t, e)
    /\ UNCHANGED <<pending, durable>>

\* No connection becomes free in time.
PoolTimesOut(t) ==
    /\ pc[t] = "body"
    /\ ~ CanConnect(t)
    /\ Raise(t, "PoolTimeout")
    /\ UNCHANGED <<connected, pending, durable>>

\* An entity, a repository or the use case raises.
BodyRaises(t) ==
    /\ pc[t] = "body"
    /\ Raise(t, "NexaBotError")
    /\ UNCHANGED <<connected, pending, durable>>

BodyEnds(t) ==
    /\ pc[t] = "body"
    /\ Goto(t, "commit")
    /\ UNCHANGED <<connected, pending, durable, failure, error>>

-----------------------------------------------------------------------------
Commit(t) ==
    /\ pc[t] = "commit"
    /\ durable' = [durable EXCEPT ![t] = pending[t]]
    /\ Goto(t, "close")
    /\ UNCHANGED <<connected, pending, failure, error>>

\* A deferred constraint fails, or the connection is lost; in the second case
\* the server may have committed.
CommitFails(t, e, done) ==
    /\ pc[t] = "commit" /\ t \in connected
    /\ done => e = "DBAPIError"
    /\ durable' = [durable EXCEPT ![t] = IF done THEN pending[t] ELSE 0]
    /\ Fail(t, e) /\ See(t, Translated(e))
    /\ Goto(t, "close")
    /\ UNCHANGED <<connected, pending>>

Rollback(t) ==
    /\ pc[t] = "rollback"
    /\ Goto(t, "close")
    /\ UNCHANGED <<connected, pending, durable, failure, error>>

\* Mutant of RollbackFails: the exception is not caught.
RollbackRaises(t) ==
    /\ pc[t] = "rollback" /\ t \in connected
    /\ See(t, "DBAPIError")
    /\ Goto(t, "close")
    /\ UNCHANGED <<connected, pending, durable, failure>>

\* _rollback_quietly: a rollback that fails is logged.
RollbackFails(t) ==
    /\ pc[t] = "rollback" /\ t \in connected
    /\ Goto(t, "close")
    /\ UNCHANGED <<connected, pending, durable, failure, error>>

\* The task is cancelled while it awaits the database.  A commit that is under
\* way may be done.  session.close() is not shielded: if it still has a connection
\* to give back, the pool discards that connection and the cancellation takes the
\* place of what the unit of work has raised.
Cancel(t) ==
    \/ /\ pc[t] = "body"
       /\ Raise(t, "CancelledError")
       /\ UNCHANGED <<connected, pending, durable>>
    \/ /\ pc[t] = "commit" /\ t \in connected
       /\ \/ durable' = [durable EXCEPT ![t] = pending[t]]
          \/ durable' = durable
       /\ Fail(t, "CancelledError") /\ See(t, "CancelledError")
       /\ Goto(t, "close")
       /\ UNCHANGED <<connected, pending>>
    \/ /\ pc[t] = "rollback" /\ t \in connected
       /\ See(t, "CancelledError")
       /\ Goto(t, "close")
       /\ UNCHANGED <<connected, pending, durable, failure>>
    \/ /\ pc[t] = "close" /\ t \in connected
       /\ connected' = connected \ {t}
       /\ See(t, "CancelledError")
       /\ Goto(t, "ended")
       /\ UNCHANGED <<pending, durable, failure>>

\* The end of __aexit__: the session gives its connection back and a database
\* exception of the body is translated.
Close(t) ==
    /\ pc[t] = "close"
    /\ connected' = connected \ {t}
    /\ See(t, Translated(error[t]))
    /\ Goto(t, "ended")
    /\ UNCHANGED <<pending, durable, failure>>

\* The database executes a statement or a commit.
Served(t) == Statement(t) \/ (t \in connected /\ Commit(t))

\* What happens with or without the database.
Unserved(t) ==
    \/ PoolTimesOut(t) \/ BodyRaises(t) \/ BodyEnds(t)
    \/ (t \notin connected /\ Commit(t))
    \/ Rollback(t) \/ RollbackFails(t) \/ Cancel(t) \/ Close(t)
    \/ \E e \in {"IntegrityError", "DBAPIError"} :
           \/ StatementFails(t, e)
           \/ \E done \in BOOLEAN : CommitFails(t, e, done)

-----------------------------------------------------------------------------
\* The caller sees the exception that made the unit of work fail, translated
\* if the database raised it, or that it was cancelled: also when the rollback
\* failed in its turn.
OriginalErrorKept ==
    \A t \in Tasks : pc[t] = "ended" => error[t] \in {Translated(failure[t]), "CancelledError"}

\* A unit of work that ends without an error is committed as a whole.  One
\* that ends with an error has left nothing, unless the error tells the caller
\* to retry or is a cancellation: these leave the outcome open.
ErrorMeansNothingDone ==
    \A t \in Tasks : pc[t] = "ended" =>
        \/ error[t] = "none" /\ durable[t] = pending[t]
        \/ error[t] # "none" /\ durable[t] = 0
        \/ error[t] \in Retryable \union {"CancelledError"}
=============================================================================
