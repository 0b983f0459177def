-------------------------- MODULE IdempotencyClaim --------------------------
(***************************************************************************)
(* What the idempotency port promises (ports/repositories/idempotency.py), *)
(* with every transaction a single step.  A key without a row may be       *)
(* claimed; a claim may be taken over by another attempt, but only a full  *)
(* ClaimTtl after it was made; the current owner, and nobody else, may     *)
(* settle it; and a settled key never changes again.                       *)
(***************************************************************************)
EXTENDS IdempotencyRecord

CONSTANT Keys

VARIABLES
    rows,   \* the committed row of every key
    now     \* the clock

vars == <<rows, now>>

Init == /\ rows = [k \in Keys |-> NoRow]
        /\ now = 0

Set(k, r) == /\ rows' = [rows EXCEPT ![k] = r]
             /\ now' = now

\* The key is claimed by inserting its row.
Claim(k, a) == /\ rows[k] = NoRow
               /\ \E t \in 0 .. now : Set(k, Claimed(a, t))

\* A claim whose owner did not settle it for ClaimTtl passes to another attempt.
TakeOver(k, a) == /\ rows[k].state = "started"
                  /\ rows[k].token # a
                  /\ \E t \in (rows[k].claimedAt + ClaimTtl) .. now :
                         Set(k, Claimed(a, t))

\* The owner of the claim records its own outcome.
Settle(k, s) == /\ rows[k].state = "started"
                /\ Set(k, Settled(rows[k], s, rows[k].token))

Tick == /\ now' \in Nat
        /\ now' > now
        /\ rows' = rows

Next == \/ \E k \in Keys, a \in Attempts : Claim(k, a) \/ TakeOver(k, a)
        \/ \E k \in Keys, s \in SettledStates : Settle(k, s)
        \/ Tick

Spec == Init /\ [][Next]_vars
=============================================================================
