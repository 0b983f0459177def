--------------------------- MODULE MCRunAgentTurn ---------------------------
(***************************************************************************)
(* Instances of RunAgentTurn: some attempts share one key, the others      *)
(* carry none.  At most one command asks for two steps, which leave no     *)
(* room for VALIDATION, the others for the three a turn takes.             *)
(***************************************************************************)
EXTENDS RunAgentTurn

CONSTANT Retries    \* the attempts that carry the key

MCKeyOf == [t \in Attempts |-> IF t \in Retries THEN CHOOSE k \in Keys : TRUE ELSE NoKey]

\* Which of the attempts it is makes no difference.
Hasty == CHOOSE t \in Attempts : TRUE

MCLimits == {[t \in Attempts |-> IF t \in short THEN 2 ELSE 3] : short \in SUBSET {Hasty}}
=============================================================================
