----------------------------- MODULE AnswerOnce -----------------------------
(***************************************************************************)
(* What a caller of RunAgentTurn is promised, with nothing of how it is    *)
(* done: no claims, no clock, no units of work, no settlement.             *)
(*                                                                         *)
(* An attempt stores at most one answer.  A key is open until one of its   *)
(* attempts answers it or gives it up, and stays as it is from then on.    *)
(* An attempt at a key is told the answer of the key; whether it is told   *)
(* anything is left open.                                                  *)
(***************************************************************************)
EXTENDS Naturals

CONSTANTS Attempts, Keys, NoKey, KeyOf, Nobody

VARIABLES
    messages,   \* the answers stored by each attempt
    answer,     \* the attempt that answered each key, or Nobody
    failed,     \* the keys that were given up
    reply       \* the attempt whose answer each attempt was told, or Nobody

vars == <<messages, answer, failed, reply>>

Init == /\ messages = [t \in Attempts |-> 0]
        /\ answer = [k \in Keys |-> Nobody]
        /\ failed = {}
        /\ reply = [t \in Attempts |-> Nobody]

Open(k) == answer[k] = Nobody /\ k \notin failed

\* The attempt stores its answer, and the caller is told or is not.
Answer(t, told) ==
    /\ messages[t] = 0
    /\ messages' = [messages EXCEPT ![t] = 1]
    /\ IF KeyOf[t] = NoKey
       THEN answer' = answer
       ELSE Open(KeyOf[t]) /\ answer' = [answer EXCEPT ![KeyOf[t]] = t]
    /\ reply' = IF told THEN [reply EXCEPT ![t] = t] ELSE reply
    /\ failed' = failed

\* The key is given up.
GiveUp(k) ==
    /\ Open(k)
    /\ failed' = failed \union {k}
    /\ UNCHANGED <<messages, answer, reply>>

\* The attempt is told the answer its key already has.
Replay(t) ==
    /\ KeyOf[t] # NoKey
    /\ answer[KeyOf[t]] # Nobody
    /\ reply' = [reply EXCEPT ![t] = answer[KeyOf[t]]]
    /\ UNCHANGED <<messages, answer, failed>>

Next == \/ \E t \in Attempts, told \in BOOLEAN : Answer(t, told)
        \/ \E k \in Keys : GiveUp(k)
        \/ \E t \in Attempts : Replay(t)

Spec == Init /\ [][Next]_vars
=============================================================================
