---------------------------- MODULE MCApiProcess ----------------------------
(***************************************************************************)
(* Environments that differ from a working local one in what is turned on  *)
(* and in at most two other variables.                                     *)
(***************************************************************************)
EXTENDS ApiProcess

\* A local and a production environment that lack nothing.
Sound(environment, flag) ==
    [name \in Names |-> CASE name = "environment" -> environment
                          [] name \in {"enableTelegram", "enableWorkers"} -> flag
                          [] name \in {"databaseUrl", "secretKey", "botToken", "redisUrl"} -> "text"
                          [] OTHER -> "absent"]

MCEnvironments ==
    UNION {{[[Sound(environment, flag) EXCEPT ![one] = a] EXCEPT ![two] = b] :
                a \in Raw(one), b \in Raw(two)} :
           environment \in {"local", "production"}, flag \in {"false", "true"},
           one \in Names, two \in Names}
=============================================================================
