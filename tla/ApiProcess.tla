----------------------------- MODULE ApiProcess -----------------------------
(***************************************************************************)
(* The API process: run_api and the container it wires, the readiness      *)
(* probe (/health/ready), and the pool of connections that the probes      *)
(* share with the units of work.                                           *)
(*                                                                         *)
(* A database that is down may fail what it is asked or leave it without   *)
(* an answer.  Time is left out: the timer of a probe fires some time      *)
(* after the probe has begun.                                              *)
(***************************************************************************)
EXTENDS UnitOfWork, Settings

CONSTANTS
    Requests,       \* requests of /health/ready
    Environments    \* the environments the process is started in

ASSUME RequestsAssumption == Requests \cap Tasks = {}

ASSUME EnvironmentsAssumption ==
    \A e \in Environments : DOMAIN e = Names /\ \A name \in Names : e[name] \in Raw(name)

VARIABLES
    phase,      \* of the process
    env,        \* the environment, until it has been read
    up,         \* the database answers
    probe,      \* where each request is
    component,  \* ok, or the detail of the error that the check has found
    response,   \* the status code of each response
    lingering,  \* requests whose session closes in the background
    answered    \* history: the database answered SELECT 1 within the request

work == <<pc, connected, pending, durable, failure, error>>
probes == <<probe, component, response, lingering, answered>>
process == <<phase, env, up>>
allvars == <<work, probes, process>>

Nothing == "nothing"

ApiInit ==
    /\ Init
    /\ phase = "off" /\ env \in Environments /\ up \in BOOLEAN
    /\ probe = [r \in Requests |-> "idle"]
    /\ component = [r \in Requests |-> Nothing]
    /\ response = [r \in Requests |-> 0]
    /\ lingering = {} /\ answered = {}

-----------------------------------------------------------------------------
\* create_engine parses the URL; without one, the default is used.
UrlParses(e) == e.databaseUrl \notin {"empty", "blank"}

\* What comes of run_api: Container.from_environment, then the feature flag.
Started(e) == IF Load(e) # "loaded"   THEN Load(e)
              ELSE IF ~ UrlParses(e)   THEN "bad_url"
              ELSE IF Api(e) # "on"    THEN "api_disabled"
              ELSE "serving"

\* The process reads its environment and serves or ends.
Boot ==
    /\ phase = "off"
    /\ phase' = Started(env)
    /\ env' = Nothing
    /\ UNCHANGED <<work, probes, up>>

\* uvicorn takes no more requests, and lets those in flight end.
Drain ==
    /\ phase = "serving"
    /\ phase' = "draining"
    /\ UNCHANGED <<work, probes, env, up>>

\* The end of the lifespan disposes of the engine, with the idle connections.
Stop ==
    /\ phase = "draining"
    /\ \A t \in Tasks : pc[t] \in {"idle", "ended"}
    /\ \A r \in Requests : probe[r] \in {"idle", "ended"}
    /\ phase' = "stopped"
    /\ UNCHANGED <<work, probes, env, up>>

DatabaseTurns ==
    /\ phase \in {"serving", "draining"}
    /\ up' = ~ up
    /\ UNCHANGED <<work, probes, phase, env>>

-----------------------------------------------------------------------------
\* A request of /health/ready: check() opens a session under a timeout.
BeginProbe(r) ==
    /\ phase = "serving" /\ probe[r] = "idle"
    /\ probe' = [probe EXCEPT ![r] = "probing"]
    /\ UNCHANGED <<work, component, response, lingering, answered, process>>

Find(r, health) == component' = [component EXCEPT ![r] = health]

\* The session gets a connection from the pool.
Connect(r) ==
    /\ probe[r] = "probing" /\ CanConnect(r)
    /\ r \notin connected
    /\ connected' = connected \union {r}
    /\ UNCHANGED <<pc, pending, durable, failure, error, probes, process>>

\* The database answers SELECT 1.
Answer(r) ==
    /\ probe[r] = "probing" /\ r \in connected /\ up
    /\ answered' = answered \union {r}
    /\ Find(r, "ok")
    /\ probe' = [probe EXCEPT ![r] = "closing"]
    /\ UNCHANGED <<work, response, lingering, process>>

\* Mutant of Fails: the exception is logged and the component passes.
FailsSilently(r) ==
    /\ probe[r] = "probing" /\ CanConnect(r)
    /\ Find(r, "ok")
    /\ probe' = [probe EXCEPT ![r] = "closing"]
    /\ UNCHANGED <<work, response, lingering, answered, process>>

\* The connection or the statement raises.  (The pool's own timeout is longer
\* than the one of the check.)
Fails(r) ==
    /\ probe[r] = "probing" /\ CanConnect(r)
    /\ Find(r, "unavailable")
    /\ probe' = [probe EXCEPT ![r] = "closing"]
    /\ UNCHANGED <<work, response, lingering, answered, process>>

\* The session is closed and gives its connection back.
CloseSession(r) ==
    /\ probe[r] = "closing"
    /\ connected' = connected \ {r}
    /\ probe' = [probe EXCEPT ![r] = "checked"]
    /\ UNCHANGED <<pc, pending, durable, failure, error, component, response, lingering,
                   answered, process>>

\* Mutant of TimesOut: the timeout covers the statement and not the wait for a
\* connection.
TimesOutConnected(r) ==
    /\ \/ /\ probe[r] = "probing" /\ r \in connected
          /\ probe' = [probe EXCEPT ![r] = "closing"]
          /\ lingering' = lingering
       \/ /\ probe[r] = "closing" /\ component[r] # "timeout"
          /\ probe' = [probe EXCEPT ![r] = "checked"]
          /\ lingering' = lingering \union ({r} \cap connected)
    /\ Find(r, "timeout")
    /\ UNCHANGED <<work, response, answered, process>>

\* Mutant of TimesOut: the check leaves while its session is open.
TimesOutOpen(r) ==
    /\ probe[r] \in {"probing", "closing"}
    /\ probe' = [probe EXCEPT ![r] = "checked"]
    /\ Find(r, "timeout")
    /\ UNCHANGED <<work, response, lingering, answered, process>>

\* asyncio.timeout fires: while the check waits for a connection or an answer,
\* the session closes next, its connection being invalid; while the session
\* closes, which is shielded, the check ends and the closing goes on.
TimesOut(r) ==
    /\ \/ /\ probe[r] = "probing"
          /\ probe' = [probe EXCEPT ![r] = "closing"]
          /\ lingering' = lingering
       \/ /\ probe[r] = "closing" /\ component[r] # "timeout"
          /\ probe' = [probe EXCEPT ![r] = "checked"]
          /\ lingering' = lingering \union ({r} \cap connected)
    /\ Find(r, "timeout")
    /\ UNCHANGED <<work, response, answered, process>>

\* The closing in the background ends.
Released(r) ==
    /\ r \in lingering
    /\ lingering' = lingering \ {r}
    /\ connected' = connected \ {r}
    /\ UNCHANGED <<pc, pending, durable, failure, error, probe, component, response,
                   answered, process>>

\* _aggregate_status.
AggregateStatus(components) ==
    IF \A name \in DOMAIN components : components[name] = "ok" THEN "ok" ELSE "degraded"

\* CompositeReadinessChecker.check gathers the health of its components.
Report(r) == AggregateStatus([application |-> "ok", database |-> component[r]])

\* ready() returns the report or raises.
Respond(r) ==
    /\ probe[r] = "checked"
    /\ response' = [response EXCEPT ![r] = IF Report(r) = "ok" THEN 200 ELSE 503]
    /\ probe' = [probe EXCEPT ![r] = "ended"]
    /\ UNCHANGED <<work, component, lingering, answered, process>>

-----------------------------------------------------------------------------
\* The units of work of the process.
Work(t) ==
    /\ \/ phase = "serving" /\ Enter(t)
       \/ phase \in {"serving", "draining"} /\ ((up /\ Served(t)) \/ Unserved(t))
    /\ UNCHANGED <<probes, process>>

\* What a probe does by itself: nothing makes the pool or the database answer.
Proceed(r) == CloseSession(r) \/ TimesOut(r) \/ Respond(r)

ApiNext ==
    \/ Boot \/ Drain \/ Stop \/ DatabaseTurns
    \/ \E t \in Tasks : Work(t)
    \/ \E r \in Requests : \/ BeginProbe(r) \/ Connect(r) \/ Answer(r) \/ Fails(r)
                           \/ Proceed(r) \/ Released(r)

\* The event loop runs the tasks of the probes, and timers fire.
ApiSpec == /\ ApiInit /\ [][ApiNext]_allvars
           /\ \A r \in Requests : WF_allvars(Proceed(r))

-----------------------------------------------------------------------------
\* /health/ready says ready only if the database answered within that very
\* request, and was not found in error afterwards.
ReadyIsEarned ==
    \A r \in Requests : response[r] = 200 => r \in answered /\ component[r] = "ok"

\* Every probe is answered, with 200 or 503, although the pool may be exhausted
\* and the database may be silent for ever.
ProbesEnd == \A r \in Requests : probe[r] = "probing" ~> response[r] \in {200, 503}

\* The pool is never overdrawn; a unit of work that has ended holds no
\* connection, nor does a probe, unless its session is still being closed.
NoConnectionLeaks ==
    /\ Cardinality(connected) <= Capacity
    /\ \A t \in connected \cap Tasks : pc[t] \notin {"idle", "ended"}
    /\ \A r \in connected \cap Requests : probe[r] \in {"probing", "closing"} \/ r \in lingering

\* A process that serves was told to, in so many words or by default: nothing it
\* was given was malformed, and in production nothing it needs was left out.
SettingsFaithful ==
    [][phase = "off" /\ phase' = "serving" =>
           /\ \A name \in DOMAIN env : env[name] # "junk"
           /\ env.enableApi # "false"
           /\ env.environment = "production" =>
                  /\ env.databaseUrl = "text" /\ Given(env.secretKey)
                  /\ env.enableTelegram = "true" => Given(env.botToken)
                  /\ env.enableWorkers = "true" => Given(env.redisUrl)
                  /\ env.provider # "openai"]_allvars
=============================================================================
