------------------------- MODULE ApiProcess_proofs ---------------------------
(***************************************************************************)
(* Proofs about the API process: the pool, the units of work, the probes   *)
(* and the settings, for any number of tasks and of requests, any capacity *)
(* of the pool and any environment.                                        *)
(*                                                                         *)
(* Where a unit of work is says what it may have committed and which error *)
(* it carries; the leaves are the cases of __aexit__.                      *)
(***************************************************************************)
EXTENDS ApiProcess, FiniteSetTheorems, TLAPS

\* Connections are held by the sessions of units of work that have not ended
\* and of probes that are under way or closing, and there are enough of them.
PoolInv ==
    /\ connected \subseteq Tasks \union Requests
    /\ IsFiniteSet(connected)
    /\ NoConnectionLeaks

\* A unit of work has settled: the error the caller is about to see tells the
\* truth about what has been committed.
Honest(t, e) == \/ e = "none" /\ durable[t] = pending[t]
                \/ e # "none" /\ durable[t] = 0
                \/ e \in Retryable \union {"CancelledError"}

\* How far a unit of work is determines what has been committed and which
\* exceptions it has met.
WorkInv ==
    \A t \in Tasks :
        /\ pc[t] \in {"idle", "body", "commit"} =>
               failure[t] = "none" /\ error[t] = "none" /\ durable[t] = 0
        /\ pc[t] = "rollback" =>
               failure[t] # "none" /\ error[t] = failure[t] /\ durable[t] = 0
        /\ pc[t] = "close" =>
               /\ error[t] \in {failure[t], Translated(failure[t]), "CancelledError"}
               /\ Honest(t, Translated(error[t]))
        /\ pc[t] = "ended" =>
               /\ error[t] \in {Translated(failure[t]), "CancelledError"}
               /\ Honest(t, error[t])

\* A probe is found ok by the answer it got; only a probe that has ended has a
\* response.
ProbeInv ==
    /\ probe \in [Requests -> {"idle", "probing", "closing", "checked", "ended"}]
    /\ component \in [Requests -> {Nothing, "ok", "unavailable", "timeout"}]
    /\ response \in [Requests -> {0, 200, 503}]
    /\ \A r \in Requests : component[r] = "ok" => r \in answered
    /\ \A r \in Requests : response[r] # 0 => probe[r] = "ended"
    /\ \A r \in Requests : response[r] = 200 => component[r] = "ok"

\* Until the process has booted, its environment is one it may be given.
BootInv == phase = "off" => env \in Environments

\* The inductive invariant.
IInv == TypeOK /\ PoolInv /\ WorkInv /\ ProbeInv /\ BootInv

-----------------------------------------------------------------------------
\* A database exception is translated once; the others pass.
LEMMA TranslatedFacts ==
    /\ \A e : Translated(Translated(e)) = Translated(e)
    /\ \A e : Translated(e) = "none" <=> e = "none"
    /\ Translated("CancelledError") = "CancelledError"
    /\ Translated("NexaBotError") = "NexaBotError"
    /\ Translated("DBAPIError") \in Retryable
    /\ \A e \in Errors : Translated(e) \in Errors
<1>1. DatabaseErrors = {"IntegrityError", "DBAPIError", "PoolTimeout"}
  BY DEF DatabaseErrors, Translation
<1>2. /\ Translated("IntegrityError") = "database_conflict"
      /\ Translated("DBAPIError") = "database_unavailable"
      /\ Translated("PoolTimeout") = "database_error"
  BY <1>1 DEF Translated, Translation
<1>3. \A e : e \notin DatabaseErrors => Translated(e) = e BY DEF Translated
<1> QED BY <1>1, <1>2, <1>3 DEF Retryable, Errors

\* A session that may connect takes a connection that is free.
LEMMA Connecting ==
    ASSUME PoolInv, NEW x, CanConnect(x)
    PROVE  /\ IsFiniteSet(connected \union {x})
           /\ Cardinality(connected \union {x}) <= Capacity
<1>1. IsFiniteSet(connected) /\ Cardinality(connected) <= Capacity
  BY DEF PoolInv, NoConnectionLeaks
<1>2. Cardinality(connected) \in Nat BY <1>1, FS_CardinalityType
<1>3. CASE x \in connected
  <2>1. connected \union {x} = connected BY <1>3
  <2> QED BY <1>1, <2>1
<1>4. CASE x \notin connected
  <2>1. Cardinality(connected) < Capacity BY <1>4 DEF CanConnect
  <2>2. /\ IsFiniteSet(connected \union {x})
        /\ Cardinality(connected \union {x}) = Cardinality(connected) + 1
    BY <1>1, <1>4, FS_AddElement
  <2> QED BY <1>2, <2>1, <2>2, CapacityAssumption
<1> QED BY <1>3, <1>4

\* A session that closes leaves one more free, if it had one.
LEMMA Disconnecting ==
    ASSUME PoolInv, NEW x
    PROVE  /\ IsFiniteSet(connected \ {x})
           /\ Cardinality(connected \ {x}) <= Capacity
<1>1. IsFiniteSet(connected) /\ Cardinality(connected) <= Capacity
  BY DEF PoolInv, NoConnectionLeaks
<1>2. connected \ {x} \subseteq connected OBVIOUS
<1>3. IsFiniteSet(connected \ {x}) /\ Cardinality(connected \ {x}) <= Cardinality(connected)
  BY <1>1, <1>2, FS_Subset
<1>4. Cardinality(connected) \in Nat /\ Cardinality(connected \ {x}) \in Nat
  BY <1>1, <1>3, FS_CardinalityType
<1> QED BY <1>1, <1>3, <1>4, CapacityAssumption

-----------------------------------------------------------------------------
\* The pool, whatever a unit of work does.
LEMMA WorkKeepsPool ==
    ASSUME TypeOK, PoolInv, NEW t \in Tasks, UNCHANGED probes,
           Enter(t) \/ Served(t) \/ Unserved(t)
    PROVE  PoolInv'
<1> USE RequestsAssumption DEF probes, Goto
<1>0. t \notin Requests OBVIOUS
<1>1. CASE connected' = connected /\ (pc[t] \in {"idle", "ended"} => t \notin connected)
           /\ (pc' = pc \/ \E label \in {"body", "commit", "rollback", "close"} : Goto(t, label))
  <2>1. \A x \in connected \cap Tasks : pc'[x] \notin {"idle", "ended"}
    BY <1>1 DEF PoolInv, NoConnectionLeaks, TypeOK
  <2> QED BY <1>1, <2>1 DEF PoolInv, NoConnectionLeaks
<1>2. CASE connected' = connected \union {t} /\ CanConnect(t) /\ pc[t] = "body"
           /\ (pc' = pc \/ Goto(t, "rollback"))
  <2>1. \A x \in connected' \cap Tasks : pc'[x] \notin {"idle", "ended"}
    BY <1>2 DEF PoolInv, NoConnectionLeaks, TypeOK
  <2> QED BY <1>0, <1>2, <2>1, Connecting DEF PoolInv, NoConnectionLeaks
<1>3. CASE connected' = connected \ {t} /\ Goto(t, "ended")
  <2>1. \A x \in connected' \cap Tasks : pc'[x] \notin {"idle", "ended"}
    BY <1>3 DEF PoolInv, NoConnectionLeaks, TypeOK
  <2> QED BY <1>3, <2>1, Disconnecting DEF PoolInv, NoConnectionLeaks
<1>4. pc[t] \in {"idle", "ended"} => t \notin connected BY DEF TypeOK
<1>5. CASE Enter(t) BY <1>1, <1>4, <1>5 DEF Enter
<1>6. CASE Statement(t) BY <1>2, <1>6 DEF Statement
<1>7. CASE Commit(t) BY <1>1, <1>4, <1>7 DEF Commit
<1>8. CASE PoolTimesOut(t) \/ BodyRaises(t) \/ BodyEnds(t) \/ Rollback(t) \/ RollbackFails(t)
  BY <1>1, <1>4, <1>8 DEF PoolTimesOut, BodyRaises, BodyEnds, Rollback, RollbackFails, Raise
<1>9. CASE Cancel(t)
  <2>1. CASE pc[t] = "close" BY <1>3, <1>9, <2>1 DEF Cancel
  <2>2. CASE pc[t] # "close" BY <1>1, <1>4, <1>9, <2>2 DEF Cancel, Raise
  <2> QED BY <2>1, <2>2
<1>10. CASE Close(t) BY <1>3, <1>10 DEF Close
<1>11. ASSUME NEW e, StatementFails(t, e) PROVE PoolInv'
  BY <1>2, <1>11 DEF StatementFails, Raise
<1>12. ASSUME NEW e, NEW done, CommitFails(t, e, done) PROVE PoolInv'
  BY <1>1, <1>4, <1>12 DEF CommitFails
<1> QED BY <1>5, <1>6, <1>7, <1>8, <1>9, <1>10, <1>11, <1>12 DEF Served, Unserved

\* A unit of work changes its own entries only.
Own(t) == /\ pc' = [pc EXCEPT ![t] = pc'[t]]
          /\ pending' = [pending EXCEPT ![t] = pending'[t]]
          /\ durable' = [durable EXCEPT ![t] = durable'[t]]
          /\ failure' = [failure EXCEPT ![t] = failure'[t]]
          /\ error' = [error EXCEPT ![t] = error'[t]]

\* What a unit of work may do to them, given where it is.
Settles(t) ==
    /\ pc'[t] \in {"idle", "body", "commit"} => UNCHANGED <<durable[t], failure[t], error[t]>>
                                                /\ pc[t] \in {"idle", "body"}
    /\ pc'[t] = "rollback" => /\ pc[t] = "body" /\ durable'[t] = durable[t]
                              /\ failure'[t] # "none" /\ error'[t] = failure'[t]
    /\ pc'[t] = "close" =>
           /\ error'[t] \in {failure'[t], Translated(failure'[t]), "CancelledError"}
           /\ \/ error'[t] = "none" /\ durable'[t] = pending'[t]
              \/ error'[t] # "none" /\ durable'[t] = 0
              \/ Translated(error'[t]) \in Retryable \union {"CancelledError"}
    /\ pc'[t] = "ended" => /\ pc[t] = "close"
                           /\ error'[t] \in {Translated(error[t]), "CancelledError"}
                           /\ UNCHANGED <<durable[t], failure[t], pending[t]>>

\* Every step of a unit of work is of that form.
LEMMA WorkSettles ==
    ASSUME TypeOK, WorkInv, NEW t \in Tasks, Enter(t) \/ Served(t) \/ Unserved(t)
    PROVE  TypeOK' /\ Own(t) /\ Settles(t)
<1> USE DEF Goto, See, Fail, Raise
<1>0. /\ {"DBAPIError", "IntegrityError", "PoolTimeout", "NexaBotError", "CancelledError"}
            \subseteq Errors
      /\ MaxStatements \in Nat
  BY CapacityAssumption DEF Errors, DatabaseErrors, Translation
<1>1. CASE Enter(t)
  BY <1>1 DEF Enter, TypeOK, Own, Settles
<1>2. CASE Statement(t)
  BY <1>0, <1>2 DEF Statement, TypeOK, Own, Settles
<1>3. CASE Commit(t)
  BY <1>3 DEF Commit, TypeOK, WorkInv, Own, Settles
<1>4. CASE PoolTimesOut(t) \/ BodyRaises(t)
  BY <1>0, <1>4 DEF PoolTimesOut, BodyRaises, TypeOK, Own, Settles
<1>5. CASE BodyEnds(t)
  BY <1>5 DEF BodyEnds, TypeOK, Own, Settles
<1>6. CASE Rollback(t) \/ RollbackFails(t)
  BY <1>6 DEF Rollback, RollbackFails, TypeOK, WorkInv, Own, Settles
<1>7. CASE Cancel(t)
  <2>1. CASE pc[t] = "body"
    BY <1>0, <1>7, <2>1 DEF Cancel, TypeOK, Own, Settles
  <2>2. CASE pc[t] = "commit"
    BY <1>0, <1>7, <2>2, TranslatedFacts DEF Cancel, TypeOK, Own, Settles
  <2>3. CASE pc[t] = "rollback"
    BY <1>0, <1>7, <2>3, TranslatedFacts DEF Cancel, TypeOK, WorkInv, Own, Settles
  <2>4. CASE pc[t] = "close"
    BY <1>0, <1>7, <2>4 DEF Cancel, TypeOK, Own, Settles
  <2> QED BY <1>7, <2>1, <2>2, <2>3, <2>4 DEF Cancel
<1>8. CASE Close(t)
  <2>1. Translated(error[t]) \in Errors BY TranslatedFacts DEF TypeOK
  <2> QED BY <1>8, <2>1 DEF Close, TypeOK, Own, Settles
<1>9. ASSUME NEW e \in {"IntegrityError", "DBAPIError"}, StatementFails(t, e)
      PROVE  TypeOK' /\ Own(t) /\ Settles(t)
  BY <1>0, <1>9 DEF StatementFails, TypeOK, Own, Settles
<1>10. ASSUME NEW e \in {"IntegrityError", "DBAPIError"}, NEW done \in BOOLEAN,
              CommitFails(t, e, done)
       PROVE  TypeOK' /\ Own(t) /\ Settles(t)
  <2>1. Translated(e) \in Errors /\ Translated(e) # "none" BY <1>0, TranslatedFacts
  <2>2. Translated(Translated(e)) = Translated(e) BY TranslatedFacts
  <2>3. done => Translated(e) \in Retryable BY <1>10, TranslatedFacts DEF CommitFails
  <2> QED BY <1>0, <1>10, <2>1, <2>2, <2>3 DEF CommitFails, TypeOK, Own, Settles
<1> QED BY <1>1, <1>2, <1>3, <1>4, <1>5, <1>6, <1>7, <1>8, <1>9, <1>10 DEF Served, Unserved

\* So the account a unit of work gives of itself stays true.
LEMMA WorkKeepsWorkInv ==
    ASSUME TypeOK, WorkInv, NEW t \in Tasks, Own(t), Settles(t), TypeOK'
    PROVE  WorkInv'
<1> SUFFICES ASSUME NEW u \in Tasks
             PROVE /\ pc'[u] \in {"idle", "body", "commit"} =>
                          failure'[u] = "none" /\ error'[u] = "none" /\ durable'[u] = 0
                   /\ pc'[u] = "rollback" =>
                          failure'[u] # "none" /\ error'[u] = failure'[u] /\ durable'[u] = 0
                   /\ pc'[u] = "close" =>
                          /\ error'[u] \in {failure'[u], Translated(failure'[u]), "CancelledError"}
                          /\ Honest(u, Translated(error[u]))'
                   /\ pc'[u] = "ended" =>
                          /\ error'[u] \in {Translated(failure'[u]), "CancelledError"}
                          /\ Honest(u, error[u])'
  BY DEF WorkInv
<1>1. CASE u # t
  <2>1. UNCHANGED <<pc[u], pending[u], durable[u], failure[u], error[u]>>
    BY <1>1 DEF Own, TypeOK
  <2> QED BY <2>1 DEF WorkInv, Honest
<1>2. CASE u = t
  <2>1. CASE pc'[t] \in {"idle", "body", "commit"} BY <1>2, <2>1 DEF Settles, WorkInv
  <2>2. CASE pc'[t] = "rollback" BY <1>2, <2>2 DEF Settles, WorkInv
  <2>3. CASE pc'[t] = "close" BY <1>2, <2>3, TranslatedFacts DEF Settles, Honest
  <2>4. CASE pc'[t] = "ended"
    <3>1. /\ error'[t] \in {Translated(error[t]), "CancelledError"}
          /\ UNCHANGED <<durable[t], failure[t], pending[t]>>
          /\ error[t] \in {failure[t], Translated(failure[t]), "CancelledError"}
          /\ Honest(t, Translated(error[t]))
      BY <2>4 DEF Settles, WorkInv
    <3>2. error'[t] \in {Translated(failure[t]), "CancelledError"} BY <3>1, TranslatedFacts
    <3>3. Honest(t, error[t])' BY <3>1 DEF Honest
    <3> QED BY <1>2, <2>4, <3>1, <3>2, <3>3
  <2> QED BY <1>2, <2>1, <2>2, <2>3, <2>4 DEF TypeOK
<1> QED BY <1>1, <1>2

-----------------------------------------------------------------------------
\* What the probes change: the pool and themselves.
LEMMA ProbeKeepsIInv ==
    ASSUME IInv, NEW r \in Requests,
           BeginProbe(r) \/ Connect(r) \/ Answer(r) \/ Fails(r) \/ Proceed(r) \/ Released(r)
    PROVE  IInv'
<1>0. TypeOK /\ PoolInv /\ WorkInv /\ ProbeInv /\ BootInv BY DEF IInv
<1>1. r \notin Tasks BY RequestsAssumption
<1>2. UNCHANGED <<pc, pending, durable, failure, error, phase, env, up>>
  BY DEF BeginProbe, Connect, Answer, Fails, Proceed, CloseSession, TimesOut, Respond, Released,
         work, process
<1>3. connected' \cap Tasks = connected \cap Tasks
  BY <1>1 DEF BeginProbe, Connect, Answer, Fails, Proceed, CloseSession, TimesOut, Respond,
              Released, work
<1>4. TypeOK' BY <1>0, <1>2, <1>3 DEF TypeOK
<1>5. WorkInv' BY <1>0, <1>2 DEF WorkInv, Honest
<1>6. BootInv' BY <1>0, <1>2 DEF BootInv
<1>7. PoolInv' /\ ProbeInv'
  <2> USE <1>0, <1>2 DEF probes, work, process
  <2>1. CASE BeginProbe(r)
    BY <2>1 DEF BeginProbe, PoolInv, NoConnectionLeaks, ProbeInv
  <2>2. CASE Connect(r)
    <3>1. PoolInv' BY <1>1, <2>2, Connecting DEF Connect, PoolInv, NoConnectionLeaks, ProbeInv
    <3>2. ProbeInv' BY <2>2 DEF Connect, ProbeInv
    <3> QED BY <3>1, <3>2
  <2>3. CASE Answer(r)
    BY <2>3 DEF Answer, Find, PoolInv, NoConnectionLeaks, ProbeInv
  <2>4. CASE Fails(r)
    BY <2>4 DEF Fails, Find, PoolInv, NoConnectionLeaks, ProbeInv
  <2>5. CASE CloseSession(r)
    <3>1. PoolInv'
      BY <1>1, <2>5, Disconnecting DEF CloseSession, PoolInv, NoConnectionLeaks, ProbeInv
    <3>2. ProbeInv' BY <2>5 DEF CloseSession, ProbeInv
    <3> QED BY <3>1, <3>2
  <2>6. CASE TimesOut(r)
    <3>1. PoolInv' BY <2>6 DEF TimesOut, Find, PoolInv, NoConnectionLeaks, ProbeInv
    <3>2. ProbeInv' BY <2>6 DEF TimesOut, Find, ProbeInv
    <3> QED BY <3>1, <3>2
  <2>7. CASE Respond(r)
    <3>1. PoolInv' BY <2>7 DEF Respond, PoolInv, NoConnectionLeaks, ProbeInv
    <3>2. Report(r) = "ok" => component[r] = "ok"
      BY DEF Report, AggregateStatus
    <3>3. ProbeInv' BY <2>7, <3>2 DEF Respond, ProbeInv
    <3> QED BY <3>1, <3>3
  <2>8. CASE Released(r)
    <3>1. PoolInv'
      BY <1>1, <2>8, Disconnecting DEF Released, PoolInv, NoConnectionLeaks, ProbeInv
    <3>2. ProbeInv' BY <2>8 DEF Released, ProbeInv
    <3> QED BY <3>1, <3>2
  <2> QED BY <2>1, <2>2, <2>3, <2>4, <2>5, <2>6, <2>7, <2>8 DEF Proceed
<1> QED BY <1>4, <1>5, <1>6, <1>7 DEF IInv

\* A process that has read its environment is no longer off.
LEMMA StartedIsNotOff == \A e : Started(e) # "off"
BY DEF Started, Load

\* The invariant is inductive.
THEOREM IInvInductive == ApiSpec => []IInv
<1>1. ApiInit => IInv
  <2> SUFFICES ASSUME ApiInit PROVE IInv OBVIOUS
  <2> USE DEF ApiInit, Init
  <2>1. TypeOK BY CapacityAssumption DEF TypeOK, Errors
  <2>2. PoolInv BY FS_EmptySet, CapacityAssumption DEF PoolInv, NoConnectionLeaks
  <2>3. WorkInv BY DEF WorkInv
  <2>4. ProbeInv BY DEF ProbeInv, Nothing
  <2>5. BootInv BY DEF BootInv
  <2> QED BY <2>1, <2>2, <2>3, <2>4, <2>5 DEF IInv
<1>2. IInv /\ [ApiNext]_allvars => IInv'
  <2> SUFFICES ASSUME IInv, [ApiNext]_allvars PROVE IInv' OBVIOUS
  <2>0. TypeOK /\ PoolInv /\ WorkInv /\ ProbeInv /\ BootInv BY DEF IInv
  <2>1. CASE Boot \/ Drain \/ Stop \/ DatabaseTurns \/ UNCHANGED allvars
    <3>1. UNCHANGED <<work, probes>>
      BY <2>1 DEF Boot, Drain, Stop, DatabaseTurns, allvars
    <3>2. phase' = "off" => phase = "off" /\ env' = env
      BY <2>1, StartedIsNotOff
         DEF Boot, Drain, Stop, DatabaseTurns, allvars, process
    <3> USE <2>0, <3>1 DEF work, probes
    <3>3. TypeOK' BY DEF TypeOK
    <3>4. PoolInv' BY DEF PoolInv, NoConnectionLeaks
    <3>5. WorkInv' BY DEF WorkInv, Honest
    <3>6. ProbeInv' BY DEF ProbeInv
    <3>7. BootInv' BY <3>2 DEF BootInv
    <3> QED BY <3>3, <3>4, <3>5, <3>6, <3>7 DEF IInv
  <2>2. ASSUME NEW t \in Tasks, Work(t) PROVE IInv'
    <3>1. UNCHANGED <<probes, process>> /\ (Enter(t) \/ Served(t) \/ Unserved(t))
      BY <2>2 DEF Work
    <3>2. TypeOK' /\ Own(t) /\ Settles(t) BY <2>0, <3>1, WorkSettles
    <3>3. WorkInv' BY <2>0, <3>2, WorkKeepsWorkInv
    <3>4. PoolInv' BY <2>0, <3>1, WorkKeepsPool
    <3>5. ProbeInv' BY <2>0, <3>1 DEF ProbeInv, probes
    <3>6. BootInv' BY <2>0, <3>1 DEF BootInv, process
    <3> QED BY <3>2, <3>3, <3>4, <3>5, <3>6 DEF IInv
  <2> QED BY <2>1, <2>2, ProbeKeepsIInv DEF ApiNext
<1> QED BY <1>1, <1>2, PTL DEF ApiSpec

\* __aexit__ lets the caller see why the unit of work failed, translated once,
\* whatever happens to the rollback, or that it was cancelled.
THEOREM OriginalErrorIsKept == ApiSpec => []OriginalErrorKept
<1>1. IInv => OriginalErrorKept BY DEF IInv, WorkInv, OriginalErrorKept
<1> QED BY <1>1, IInvInductive, PTL

\* What a caller is told agrees with what has been committed.
THEOREM ErrorsAreHonest == ApiSpec => []ErrorMeansNothingDone
<1>1. IInv => ErrorMeansNothingDone BY DEF IInv, WorkInv, Honest, ErrorMeansNothingDone
<1> QED BY <1>1, IInvInductive, PTL

\* No connection is lost to a unit of work or a probe that has ended.
THEOREM NoLeaks == ApiSpec => []NoConnectionLeaks
<1>1. IInv => NoConnectionLeaks BY DEF IInv, PoolInv
<1> QED BY <1>1, IInvInductive, PTL

\* A 200 of /health/ready has been earned by an answer of the database.
THEOREM ReadinessIsEarned == ApiSpec => []ReadyIsEarned
<1>1. IInv => ReadyIsEarned BY DEF IInv, ProbeInv, ReadyIsEarned
<1> QED BY <1>1, IInvInductive, PTL

-----------------------------------------------------------------------------
\* What load() has checked when it returns.
LEMMA LoadedMeans ==
    ASSUME NEW e, Load(e) = "loaded"
    PROVE  /\ Environment(e) # Refused /\ Telegram(e) # Refused /\ Api(e) # Refused
           /\ Workers(e) # Refused /\ Provider(e) # Refused
           /\ LogLevel(e.logLevel) # Refused /\ AsInt(e.port) # Refused
           /\ Environment(e) = "production" => Complete(e) /\ Provider(e) = "stub"
BY DEF Load

\* Boot serves only in an environment that is well formed and complete.
THEOREM SettingsAreFaithful == ApiSpec => SettingsFaithful
<1> DEFINE Faithful(e) ==
               /\ \A name \in DOMAIN e : e[name] # "junk"
               /\ e.enableApi # "false"
               /\ e.environment = "production" =>
                      /\ e.databaseUrl = "text" /\ Given(e.secretKey)
                      /\ e.enableTelegram = "true" => Given(e.botToken)
                      /\ e.enableWorkers = "true" => Given(e.redisUrl)
                      /\ e.provider # "openai"
<1>1. ASSUME NEW e \in Environments, Started(e) = "serving" PROVE Faithful(e)
  <2>0. DOMAIN e = Names /\ \A name \in Names : e[name] \in Raw(name)
    BY EnvironmentsAssumption
  <2>1. Load(e) = "loaded" /\ UrlParses(e) /\ Api(e) = "on"
    BY <1>1 DEF Started, Load
  <2> USE DEF Unset, Refused
  <2>2. e.environment # "junk" BY <2>1, LoadedMeans DEF Environment, AsEnum
  <2>3. e.enableTelegram # "junk" BY <2>1, LoadedMeans DEF Telegram, AsBool
  <2>4. e.enableApi # "junk" /\ e.enableApi # "false" BY <2>1 DEF Api, AsBool
  <2>5. e.enableWorkers # "junk" BY <2>1, LoadedMeans DEF Workers, AsBool
  <2>6. e.provider # "junk" BY <2>1, LoadedMeans DEF Provider, AsEnum
  <2>7. e.logLevel # "junk" BY <2>1, LoadedMeans DEF LogLevel
  <2>8. e.port # "junk" BY <2>1, LoadedMeans DEF AsInt
  <2>9. \A name \in {"databaseUrl", "secretKey", "botToken", "redisUrl", "openaiKey"} :
            e[name] \in Unset \union {"text"}
    BY <2>0 DEF Names, Raw
  <2>10. \A name \in DOMAIN e : e[name] # "junk"
    BY <2>0, <2>2, <2>3, <2>4, <2>5, <2>6, <2>7, <2>8, <2>9 DEF Names
  <2>11. ASSUME e.environment = "production"
         PROVE  /\ e.databaseUrl = "text" /\ Given(e.secretKey)
                /\ e.enableTelegram = "true" => Given(e.botToken)
                /\ e.enableWorkers = "true" => Given(e.redisUrl)
                /\ e.provider # "openai"
    <3>1. Environment(e) = "production" BY <2>11 DEF Environment, AsEnum
    <3>2. Complete(e) /\ Provider(e) = "stub" BY <2>1, <3>1, LoadedMeans
    <3>3. Given(e.databaseUrl) /\ Given(e.secretKey) BY <3>2 DEF Complete, Required
    <3>4. e.databaseUrl = "text" BY <2>1, <2>9, <3>3 DEF Given, UrlParses
    <3>5. e.enableTelegram = "true" => Given(e.botToken)
      <4>1. e.enableTelegram = "true" => Telegram(e) = "on" BY DEF Telegram, AsBool
      <4> QED BY <3>2, <4>1 DEF Complete, Required
    <3>6. e.enableWorkers = "true" => Given(e.redisUrl)
      <4>1. e.enableWorkers = "true" => Workers(e) = "on" BY DEF Workers, AsBool
      <4> QED BY <3>2, <4>1 DEF Complete, Required
    <3>7. e.provider # "openai" BY <3>2 DEF Provider, AsEnum
    <3> QED BY <3>3, <3>4, <3>5, <3>6, <3>7
  <2> QED BY <2>4, <2>10, <2>11
<1>2. IInv /\ [ApiNext]_allvars => [phase = "off" /\ phase' = "serving" => Faithful(env)]_allvars
  <2> SUFFICES ASSUME IInv, ApiNext, phase = "off", phase' = "serving" PROVE Faithful(env)
    OBVIOUS
  <2>1. Boot
    BY DEF ApiNext, Drain, Stop, DatabaseTurns, Work, BeginProbe, Connect, Answer, Fails,
           Proceed, CloseSession, TimesOut, Respond, Released, process
  <2>2. env \in Environments /\ Started(env) = "serving"
    BY <2>1 DEF Boot, IInv, BootInv
  <2> QED BY <1>1, <2>2
<1> QED BY <1>2, IInvInductive, PTL DEF ApiSpec, SettingsFaithful
=============================================================================
