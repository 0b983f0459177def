------------------------------ MODULE Settings ------------------------------
(***************************************************************************)
(* Settings.load: what becomes of the environment variables of a process.  *)
(*                                                                         *)
(* A variable is absent, empty, blank (spaces only), malformed (junk), or  *)
(* has one of the values the program tells apart.  Variables that are only *)
(* copied (names, hosts, prefixes) are left out, and one variable stands   *)
(* for those that are read in the same way.                                *)
(***************************************************************************)
EXTENDS Naturals

\* A value that is not one of the recognised ones.
Refused == "refused"

Unset == {"absent", "empty", "blank"}

\* The variables, and what each may hold: any text will do for the last five,
\* so they are never malformed.
Names == {"environment", "enableTelegram", "enableApi", "enableWorkers", "provider",
          "logLevel", "port", "databaseUrl", "secretKey", "botToken", "redisUrl", "openaiKey"}

Raw(name) ==
    CASE name = "environment" -> Unset \union {"local", "production", "junk"}
      [] name \in {"enableTelegram", "enableApi", "enableWorkers"}
                              -> Unset \union {"true", "false", "junk"}
      [] name = "provider"    -> Unset \union {"stub", "openai", "junk"}
      [] name = "logLevel"    -> Unset \union {"debug", "junk"}
      [] name = "port"        -> Unset \union {"in_range", "too_large", "junk"}
      [] OTHER                -> Unset \union {"text"}

\* _as_enum.
AsEnum(raw, members, default) ==
    CASE raw \in Unset   -> default
      [] raw \in members -> raw
      [] OTHER           -> Refused

\* Mutant of AsBool: what is not recognised is off.
AsBoolLenient(raw, default) ==
    CASE raw \in Unset  -> default
      [] raw = "true"   -> "on"
      [] OTHER          -> "off"

\* _as_bool.
AsBool(raw, default) ==
    CASE raw \in Unset  -> default
      [] raw = "true"   -> "on"
      [] raw = "false"  -> "off"
      [] OTHER          -> Refused

\* _as_int, and the bounds of the Field: 1 .. 65535 for a port.
AsInt(raw) ==
    CASE raw \in Unset      -> "default"
      [] raw = "in_range"   -> "in_range"
      [] raw = "too_large"  -> "too_large"
      [] OTHER              -> Refused

\* normalize_log_level: unlike the others, an empty variable is no default.
LogLevel(raw) ==
    CASE raw = "absent" -> "INFO"
      [] raw = "debug"  -> "DEBUG"
      [] OTHER          -> Refused

Environment(env) == AsEnum(env.environment, {"local", "production"}, "local")
Telegram(env)    == AsBool(env.enableTelegram, "off")
Api(env)         == AsBool(env.enableApi, "on")
Workers(env)     == AsBool(env.enableWorkers, "off")
Provider(env)    == AsEnum(env.provider, {"stub", "openai"}, "stub")

\* `not source.get(key)`: blank is as good as any other text.
Given(raw) == raw \notin {"absent", "empty"}

\* The variables that production needs, given what is turned on.
Required(env) ==
    {"databaseUrl", "secretKey"}
    \union (IF Telegram(env) = "on" THEN {"botToken"} ELSE {})
    \union (IF Workers(env) = "on" THEN {"redisUrl"} ELSE {})
    \union (IF Provider(env) = "openai" THEN {"openaiKey"} ELSE {})

Complete(env) == \A key \in Required(env) : Given(env[key])

\* The checks of load(), in their order.  What is out of range is refused by
\* pydantic, with its ValidationError; the rest are ConfigurationErrors.
Load(env) ==
    IF Refused \in {Environment(env), Telegram(env), Api(env), Workers(env), Provider(env)}
    THEN "malformed"
    ELSE IF Environment(env) = "production" /\ ~ Complete(env)        THEN "incomplete"
    ELSE IF Environment(env) = "production" /\ Provider(env) # "stub" THEN "not_implemented"
    ELSE IF LogLevel(env.logLevel) = Refused \/ AsInt(env.port) = Refused
    THEN "malformed"
    ELSE IF AsInt(env.port) = "too_large"                             THEN "out_of_range"
    ELSE "loaded"
=============================================================================
