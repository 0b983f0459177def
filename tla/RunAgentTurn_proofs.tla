------------------------- MODULE RunAgentTurn_proofs -------------------------
(***************************************************************************)
(* Proofs about RunAgentTurn, for any number of attempts and keys, any     *)
(* limits, any set of faults and any clock bound.                          *)
(*                                                                         *)
(* AnswerIsAtomic is not inductive: it holds because an attempt reaches    *)
(* its final unit of work only with its run stored as RUNNING, because a   *)
(* token is in a row only if its attempt has claimed that key, and because *)
(* only an open claim is ever overwritten.                                 *)
(*                                                                         *)
(* A second invariant, TurnInv, follows the entity of an attempt and its   *)
(* rows through the turn, for what a call that is over has left behind.    *)
(***************************************************************************)
EXTENDS RunAgentTurn, FiniteSetTheorems, TLAPS

\* The parts of the state the argument is about.
Shape == /\ rows \in [Keys -> Row]
         /\ stored = [t \in Attempts |-> stored[t]]
         /\ run = [t \in Attempts |-> run[t]]
         /\ answers \in [Attempts -> Nat]
         /\ now \in Nat
         /\ pc \in [Attempts -> PCs]
         /\ result \in [Attempts -> Attempts \union {Nobody}]

\* A row is absent as a whole, its token belongs to an attempt that presents
\* its key and has claimed it, and a settled row carries its owner's result.
RowOf(k) ==
    /\ rows[k].state = "absent" => rows[k] = NoRow
    /\ rows[k].state = "started" => rows[k].token \in Attempts
    /\ rows[k].state \in SettledStates => /\ rows[k].result = rows[k].token
                                          /\ rows[k].token \in Attempts
    /\ \A t \in Attempts : rows[k].token = t =>
           KeyOf[t] = k /\ pc[t] \notin {"idle", "claim"}

\* How far an attempt has come decides what it has stored.
ProgressOf(t) ==
    /\ pc[t] = "claim" => Keyed(t)
    /\ pc[t] \in {"idle", "claim", "start", "start_commit"} => stored[t].status = "absent"
    /\ pc[t] = "start_commit" => run[t].status = "running"
    /\ pc[t] \in {"build", "calling", "finish", "finish_commit"} => stored[t].status = "running"
    /\ pc[t] = "finish_commit" => run[t].status = "succeeded"

\* AnswerIsAtomic of one attempt.
AnswerOf(t) ==
    /\ answers[t] = IF stored[t].status = "succeeded" THEN 1 ELSE 0
    /\ Keyed(t) => (answers[t] = 1 <=> rows[KeyOf[t]].state = "completed"
                                       /\ rows[KeyOf[t]].result = t)

\* The answer given to a caller is the one its key keeps.
ReplyOf(t) ==
    pc[t] = "returned" =>
        /\ result[t] \in Attempts
        /\ answers[result[t]] = 1
        /\ Keyed(t) => rows[KeyOf[t]].state = "completed" /\ rows[KeyOf[t]].result = result[t]

IInv == /\ Shape
        /\ \A k \in Keys : RowOf(k)
        /\ \A t \in Attempts : ProgressOf(t) /\ AnswerOf(t) /\ ReplyOf(t)

USE NobodyAssumption, KeyOfAssumption

-----------------------------------------------------------------------------
\* Nothing is stored, claimed or returned to begin with.
LEMMA InitInv == Init => IInv
<1> SUFFICES ASSUME Init PROVE IInv
  OBVIOUS
<1>1. Shape
  BY DEF Init, Shape, NoRow, Row, States, PCs
<1>2. \A k \in Keys : RowOf(k)
  BY DEF Init, RowOf, NoRow, SettledStates
<1>3. ASSUME NEW t \in Attempts PROVE ProgressOf(t) /\ AnswerOf(t) /\ ReplyOf(t)
  <2>1. ProgressOf(t) /\ ReplyOf(t)
    BY DEF Init, ProgressOf, ReplyOf, NoRun, Keyed
  <2>2. AnswerOf(t)
    BY DEF Init, AnswerOf, Keyed, NoRun, NoRow
  <2> QED BY <2>1, <2>2
<1> QED BY <1>1, <1>2, <1>3 DEF IInv

\* A step that changes neither the idempotency rows nor the stored runs nor the
\* stored answers, and moves one attempt on.
LEMMA QuietStep ==
  ASSUME IInv, NEW t \in Attempts, NEW label \in PCs,
         Goto(t, label), UNCHANGED <<rows, stored, answers, now>>,
         run' = [u \in Attempts |-> run'[u]],
         result' \in [Attempts -> Attempts \union {Nobody}],
         \A u \in Attempts \ {t} : run'[u] = run[u] /\ result'[u] = result[u],
         pc[t] \notin {"idle", "claim"} => label \notin {"idle", "claim"},
         ProgressOf(t)', ReplyOf(t)'
  PROVE  IInv'
<1> Shape
  BY DEF IInv
<1>1. Shape'
  BY DEF Shape, Goto
<1>2. pc'[t] = label /\ \A u \in Attempts \ {t} : pc'[u] = pc[u]
  BY DEF Goto, Shape
<1>3. ASSUME NEW k \in Keys PROVE RowOf(k)'
  <2>1. RowOf(k)
    BY DEF IInv
  <2> QED BY <2>1, <1>2 DEF RowOf
<1>4. ASSUME NEW u \in Attempts PROVE AnswerOf(u)'
  BY DEF IInv, AnswerOf, Keyed
<1>5. ASSUME NEW u \in Attempts, u # t PROVE ProgressOf(u)' /\ ReplyOf(u)'
  <2>1. ProgressOf(u) /\ ReplyOf(u)
    BY DEF IInv
  <2>2. pc'[u] = pc[u] /\ run'[u] = run[u] /\ result'[u] = result[u]
    BY <1>2, <1>5
  <2> QED BY <2>1, <2>2 DEF ProgressOf, ReplyOf, Keyed
<1> QED BY <1>1, <1>3, <1>4, <1>5 DEF IInv

\* A step that changes nothing the invariant speaks of.
LEMMA IdleStep ==
  ASSUME IInv, UNCHANGED <<rows, stored, answers, pc, run, result>>, now' \in Nat
  PROVE  IInv'
<1>1. Shape'
  BY DEF IInv, Shape
<1>2. \A k \in Keys : RowOf(k)'
  BY DEF IInv, RowOf
<1>3. \A u \in Attempts : ProgressOf(u)' /\ AnswerOf(u)' /\ ReplyOf(u)'
  BY DEF IInv, ProgressOf, AnswerOf, ReplyOf, Keyed
<1> QED BY <1>1, <1>2, <1>3 DEF IInv

\* A step that changes the row of the attempt's key, from an open or absent
\* claim to one that is not COMPLETED, and moves the attempt on.
LEMMA RowStep ==
  ASSUME IInv, NEW t \in Attempts, NEW label \in {"start", "error"}, NEW r \in Row,
         Keyed(t), Goto(t, label), SetRow(t, r),
         UNCHANGED <<stored, answers, run, result, now>>,
         rows[KeyOf[t]].state \in {"absent", "started"},
         r.state \in {"started", "failed"}, r.token = t, r.state = "failed" => r.result = t,
         label = "start" => stored[t].status = "absent"
  PROVE  IInv'
<1> DEFINE K == KeyOf[t]
<1> Shape /\ K \in Keys
  BY DEF IInv, Keyed
<1>1. rows'[K] = r /\ \A k \in Keys \ {K} : rows'[k] = rows[k]
  BY DEF SetRow, Shape
<1>2. Shape'
  BY DEF Shape, SetRow, Goto, PCs, Awaiting, Ended
<1>3. pc'[t] = label /\ \A u \in Attempts \ {t} : pc'[u] = pc[u]
  BY DEF Goto, Shape
<1>4. ASSUME NEW k \in Keys PROVE RowOf(k)'
  <2>1. RowOf(k)
    BY DEF IInv
  <2>2. CASE k = K
    BY <2>2, <1>1, <1>3 DEF RowOf, SettledStates
  <2>3. CASE k # K
    BY <2>1, <2>3, <1>1, <1>3 DEF RowOf
  <2> QED BY <2>2, <2>3
<1>5. ASSUME NEW u \in Attempts PROVE AnswerOf(u)'
  <2>1. AnswerOf(u)
    BY DEF IInv
  <2>2. CASE KeyOf[u] = K
    BY <2>1, <2>2, <1>1 DEF AnswerOf, Keyed
  <2>3. CASE KeyOf[u] # K /\ Keyed(u)
    <3>1. rows'[KeyOf[u]] = rows[KeyOf[u]]
      BY <2>3, <1>1 DEF Keyed
    <3> QED BY <3>1, <2>1 DEF AnswerOf, Keyed
  <2>4. CASE ~ Keyed(u)
    BY <2>1, <2>4 DEF AnswerOf, Keyed
  <2> QED BY <2>2, <2>3, <2>4
<1>6. ASSUME NEW u \in Attempts PROVE ReplyOf(u)'
  <2>1. ReplyOf(u)
    BY DEF IInv
  <2>2. CASE u = t
    BY <2>2, <1>3 DEF ReplyOf
  <2>3. CASE u # t /\ KeyOf[u] = K
    BY <2>1, <2>3, <1>3 DEF ReplyOf, Keyed
  <2>4. CASE u # t /\ KeyOf[u] # K
    <3>1. Keyed(u) => rows'[KeyOf[u]] = rows[KeyOf[u]]
      BY <2>4, <1>1 DEF Keyed
    <3> QED BY <3>1, <2>1, <2>4, <1>3 DEF ReplyOf, Keyed
  <2> QED BY <2>2, <2>3, <2>4
<1>7. ASSUME NEW u \in Attempts PROVE ProgressOf(u)'
  BY <1>3 DEF IInv, ProgressOf, Keyed
<1> QED BY <1>2, <1>4, <1>5, <1>6, <1>7 DEF IInv

\* A step that stores the attempt's run anew, neither from nor to SUCCEEDED.
LEMMA StoreStep ==
  ASSUME IInv, NEW t \in Attempts, NEW label \in {"build", "fail_claim", "error"}, NEW s,
         Goto(t, label), stored' = [stored EXCEPT ![t] = s],
         UNCHANGED <<rows, answers, run, result, now>>,
         stored[t].status # "succeeded", s.status # "succeeded",
         label = "build" => s.status = "running"
  PROVE  IInv'
<1> Shape
  BY DEF IInv
<1>1. stored'[t] = s /\ \A u \in Attempts \ {t} : stored'[u] = stored[u]
  BY DEF Shape
<1>2. Shape'
  BY DEF Shape, Goto, PCs, Awaiting, Ended
<1>3. pc'[t] = label /\ \A u \in Attempts \ {t} : pc'[u] = pc[u]
  BY DEF Goto, Shape
<1>4. ASSUME NEW k \in Keys PROVE RowOf(k)'
  <2>1. RowOf(k)
    BY DEF IInv
  <2> QED BY <2>1, <1>3 DEF RowOf
<1>5. ASSUME NEW u \in Attempts PROVE ProgressOf(u)' /\ AnswerOf(u)' /\ ReplyOf(u)'
  <2>1. ProgressOf(u) /\ AnswerOf(u) /\ ReplyOf(u)
    BY DEF IInv
  <2>2. ProgressOf(u)'
    BY <2>1, <1>1, <1>3 DEF ProgressOf, Keyed
  <2>3. AnswerOf(u)'
    BY <2>1, <1>1 DEF AnswerOf, Keyed
  <2>4. ReplyOf(u)'
    BY <2>1, <1>3 DEF ReplyOf, Keyed
  <2> QED BY <2>2, <2>3, <2>4
<1> QED BY <1>2, <1>4, <1>5 DEF IInv

\* The final unit of work commits: no other attempt at the key has an answer,
\* because the claim was still open.
LEMMA AnswerStep ==
  ASSUME IInv, NEW t \in Attempts, NEW outcome \in {"committed", "unacknowledged"},
         FinishCommit(t, outcome)
  PROVE  IInv'
<1> DEFINE K == KeyOf[t]
           label == IF outcome = "committed" THEN "returned" ELSE "fail_run"
<1> Shape
  BY DEF IInv
<1>1. /\ pc[t] = "finish_commit"
      /\ Keyed(t) => K \in Keys /\ rows[K].state = "started" /\ rows[K].token = t
      /\ answers' = [answers EXCEPT ![t] = @ + 1]
      /\ stored' = [stored EXCEPT ![t] = Saved(@, run[t])]
      /\ Keyed(t) => rows' = [rows EXCEPT ![K] = Settled(rows[K], "completed", t)]
      /\ ~ Keyed(t) => rows' = rows
      /\ pc' = [pc EXCEPT ![t] = label]
      /\ run' = run /\ now' = now
  BY DEF FinishCommit, Owns, OwnedBy, SetRow, Goto, Keyed
<1>2. result' = IF outcome = "committed" THEN [result EXCEPT ![t] = t] ELSE result
  BY DEF FinishCommit
<1>3. ProgressOf(t) /\ AnswerOf(t)
  BY DEF IInv
<1>4. answers'[t] = 1 /\ \A u \in Attempts \ {t} : answers'[u] = answers[u]
  BY <1>1, <1>3 DEF ProgressOf, AnswerOf, Shape, Keyed
<1>5. stored'[t].status = "succeeded" /\ \A u \in Attempts \ {t} : stored'[u] = stored[u]
  BY <1>1, <1>3 DEF ProgressOf, Saved, Shape, Keyed
<1>6. pc'[t] = label /\ \A u \in Attempts \ {t} : pc'[u] = pc[u]
  BY <1>1 DEF Shape
<1>7. ASSUME Keyed(t)
      PROVE  /\ rows'[K] \in Row /\ rows'[K].state = "completed"
             /\ rows'[K].token = t /\ rows'[K].result = t
             /\ \A k \in Keys \ {K} : rows'[k] = rows[k]
  <2>1. rows'[K] = Settled(rows[K], "completed", t)
    BY <1>1, <1>7 DEF Shape
  <2>2. Settled(rows[K], "completed", t) \in Row
    BY <1>1, <1>7 DEF Settled, Row, States, SettledStates, Shape
  <2>3. \A k \in Keys \ {K} : rows'[k] = rows[k]
    BY <1>1, <1>7 DEF Shape
  <2> QED BY <2>1, <2>2, <2>3, <1>1, <1>7 DEF Settled
<1>8. Shape'
  <2>1. rows' \in [Keys -> Row]
    BY <1>1, <1>7 DEF Shape
  <2>2. answers' \in [Attempts -> Nat]
    BY <1>1 DEF Shape
  <2>4. stored' = [u \in Attempts |-> stored'[u]]
    BY <1>1 DEF Shape
  <2>3. pc' \in [Attempts -> PCs] /\ result' \in [Attempts -> Attempts \union {Nobody}]
    BY <1>1, <1>2 DEF Shape, PCs, Ended, Awaiting
  <2> QED BY <2>1, <2>2, <2>3, <2>4, <1>1 DEF Shape
<1>9. ASSUME NEW k \in Keys PROVE RowOf(k)'
  <2>1. RowOf(k)
    BY DEF IInv
  <2>2. CASE Keyed(t) /\ k = K
    BY <2>2, <1>6, <1>7 DEF RowOf, SettledStates
  <2>3. CASE ~ (Keyed(t) /\ k = K)
    <3>1. rows'[k] = rows[k]
      BY <2>3, <1>1, <1>7
    <3> QED BY <3>1, <2>1, <1>6 DEF RowOf
  <2> QED BY <2>2, <2>3
<1>10. ASSUME NEW u \in Attempts, u # t PROVE ProgressOf(u)' /\ AnswerOf(u)' /\ ReplyOf(u)'
  <2>1. ProgressOf(u) /\ AnswerOf(u) /\ ReplyOf(u)
    BY DEF IInv
  <2>2. /\ pc'[u] = pc[u] /\ run'[u] = run[u] /\ stored'[u] = stored[u]
        /\ answers'[u] = answers[u] /\ result'[u] = result[u]
    BY <1>1, <1>2, <1>4, <1>5, <1>6, <1>10 DEF Shape
  <2>3. ProgressOf(u)'
    BY <2>1, <2>2 DEF ProgressOf, Keyed
  <2>4. CASE Keyed(t) /\ KeyOf[u] = K
    <3>1. rows[K].state = "started" /\ rows'[K].result = t
      BY <2>4, <1>1, <1>7
    <3>2. AnswerOf(u)'
      BY <3>1, <2>1, <2>2, <2>4, <1>10 DEF AnswerOf, Keyed
    <3>3. ReplyOf(u)'
      BY <3>1, <2>1, <2>2, <2>4 DEF ReplyOf, Keyed
    <3> QED BY <3>2, <3>3, <2>3
  <2>5. CASE ~ (Keyed(t) /\ KeyOf[u] = K)
    <3>1. Keyed(u) => rows'[KeyOf[u]] = rows[KeyOf[u]]
      BY <2>5, <1>1, <1>7 DEF Keyed
    <3>2. AnswerOf(u)'
      BY <3>1, <2>1, <2>2 DEF AnswerOf, Keyed
    <3>3. pc[u] = "returned" => answers'[result[u]] = 1
      BY <2>1, <1>4 DEF ReplyOf
    <3>4. ReplyOf(u)'
      BY <3>1, <3>3, <2>1, <2>2 DEF ReplyOf, Keyed
    <3> QED BY <3>2, <3>4, <2>3
  <2> QED BY <2>4, <2>5
<1>11. ProgressOf(t)' /\ AnswerOf(t)'
  <2>1. ProgressOf(t)'
    BY <1>6 DEF ProgressOf, Keyed
  <2>2. AnswerOf(t)'
    BY <1>4, <1>5, <1>7 DEF AnswerOf, Keyed
  <2> QED BY <2>1, <2>2
<1>12. ReplyOf(t)'
  BY <1>2, <1>4, <1>6, <1>7 DEF ReplyOf, Keyed, Shape
<1> QED BY <1>8, <1>9, <1>10, <1>11, <1>12 DEF IInv

-----------------------------------------------------------------------------
\* The actions up to the stored user message.
LEMMA OpeningSteps ==
  ASSUME IInv, NEW t \in Attempts, NEW outcome \in Outcomes,
         \/ Begin(t) \/ RefuseInput(t) \/ Claim(t, outcome) \/ Replay(t) \/ RefuseKey(t)
         \/ StartTurn(t) \/ RefuseStart(t) \/ StartCommit(t, outcome)
  PROVE  IInv'
<1> USE DEF Shape
<1> Shape /\ ProgressOf(t) /\ AnswerOf(t) /\ ReplyOf(t)
  BY DEF IInv
<1>1. ASSUME NEW label \in PCs \ {"start_commit", "build", "calling", "finish",
                                 "finish_commit", "returned", "idle"},
             Goto(t, label), UNCHANGED <<rows, stored, answers, now, run, result>>,
             label \in {"claim", "start"} => pc[t] = "idle",
             label = "claim" => Keyed(t)
      PROVE  IInv'
  <2>1. pc'[t] = label
    BY <1>1 DEF Goto
  <2>2. ProgressOf(t)' /\ ReplyOf(t)'
    BY <1>1, <2>1 DEF ProgressOf, ReplyOf, Keyed
  <2>3. run' = [u \in Attempts |-> run'[u]]
    BY <1>1
  <2> HIDE DEF Shape
  <2> QED BY <1>1, <2>2, <2>3, QuietStep DEF IInv, Shape
<1>2. CASE Begin(t)
  BY <1>1, <1>2 DEF Begin, database, locals, memory, PCs, Awaiting
<1>3. CASE RefuseInput(t)
  BY <1>1, <1>3 DEF RefuseInput, database, locals, memory, PCs, Ended
<1>4. CASE RefuseKey(t)
  BY <1>1, <1>4 DEF RefuseKey, database, locals, memory, PCs, Ended
<1>5. CASE RefuseStart(t)
  BY <1>1, <1>5 DEF RefuseStart, database, locals, memory, PCs, Ended
<1>6. CASE Claim(t, outcome)
  <2>1. pc[t] = "claim" /\ Keyed(t)
    BY <1>6 DEF Claim, ProgressOf
  <2>2. rows[KeyOf[t]].state \in {"absent", "started"}
    BY <1>6 DEF Claim, NoRow
  <2>3. CASE outcome = "rolled_back"
    BY <2>3, <1>1, <1>6 DEF Claim, locals, memory, PCs, Ended
  <2>4. CASE outcome # "rolled_back"
    <3> DEFINE label == IF outcome = "committed" THEN "start" ELSE "error"
    <3>1. Claimed(t, now) \in Row
      BY DEF Claimed, Row, States
    <3>2. Goto(t, label) /\ SetRow(t, Claimed(t, now)) /\ label \in {"start", "error"}
      BY <2>4, <1>6 DEF Claim
    <3>3. UNCHANGED <<stored, answers, run, result, now>> /\ stored[t].status = "absent"
      BY <1>6, <2>1 DEF Claim, locals, memory, ProgressOf
    <3>4. Claimed(t, now).state = "started" /\ Claimed(t, now).token = t
      BY DEF Claimed
    <3> HIDE DEF label, Shape
    <3> QED BY <2>1, <2>2, <3>1, <3>2, <3>3, <3>4, RowStep
  <2> QED BY <2>3, <2>4
<1>7. CASE Replay(t)
  <2> DEFINE r == rows[KeyOf[t]].result
  <2>1. pc[t] = "claim" /\ Keyed(t) /\ KeyOf[t] \in Keys /\ rows[KeyOf[t]].state = "completed"
    BY <1>7 DEF Replay, ProgressOf, Keyed
  <2>2. r \in Attempts /\ KeyOf[r] = KeyOf[t]
    BY <2>1 DEF IInv, RowOf, SettledStates
  <2>3. AnswerOf(r) /\ Keyed(r)
    BY <2>1, <2>2 DEF IInv, Keyed
  <2>4. answers[r] = 1
    BY <2>1, <2>2, <2>3 DEF AnswerOf
  <2>5. /\ pc'[t] = "returned" /\ result'[t] = r /\ Goto(t, "returned")
        /\ result' \in [Attempts -> Attempts \union {Nobody}]
        /\ UNCHANGED <<rows, stored, answers, now, run>>
        /\ \A u \in Attempts \ {t} : result'[u] = result[u]
    BY <1>7, <2>2 DEF Replay, Goto, database
  <2>6. ProgressOf(t)' /\ ReplyOf(t)'
    BY <2>1, <2>2, <2>4, <2>5 DEF ProgressOf, ReplyOf, Keyed
  <2>7. run' = [u \in Attempts |-> run'[u]] /\ "returned" \in PCs
    BY <2>5 DEF PCs, Ended
  <2> HIDE DEF Shape
  <2> QED BY <2>5, <2>6, <2>7, QuietStep
<1>8. CASE StartTurn(t)
  <2>1. /\ Goto(t, "start_commit") /\ pc'[t] = "start_commit" /\ pc[t] = "start"
        /\ run' = [run EXCEPT ![t] = Planned(@)]
        /\ UNCHANGED <<rows, stored, answers, now, result>>
    BY <1>8 DEF StartTurn, Goto, database
  <2>2. /\ run' = [u \in Attempts |-> run'[u]]
        /\ run'[t] = Planned(run[t])
        /\ \A u \in Attempts \ {t} : run'[u] = run[u]
    BY <2>1
  <2>3. Planned(run[t]).status = "running"
    BY DEF Planned, Recorded, Started
  <2>4. ProgressOf(t)' /\ ReplyOf(t)' /\ "start_commit" \in PCs
    BY <2>1, <2>2, <2>3 DEF ProgressOf, ReplyOf, Keyed, PCs, Awaiting
  <2>5. result' \in [Attempts -> Attempts \union {Nobody}]
    BY <2>1
  <2> HIDE DEF Shape
  <2> QED BY <2>1, <2>2, <2>4, <2>5, QuietStep
<1>9. CASE StartCommit(t, outcome)
  <2>1. CASE outcome = "rolled_back"
    BY <2>1, <1>1, <1>9 DEF StartCommit, locals, memory, PCs, Ended
  <2>2. CASE outcome # "rolled_back"
    <3> DEFINE label == IF outcome = "committed" THEN "build" ELSE "error"
    <3>1. /\ Goto(t, label) /\ label \in {"build", "fail_claim", "error"}
          /\ stored' = [stored EXCEPT ![t] = Added(run[t])]
          /\ UNCHANGED <<rows, answers, run, result, now>>
      BY <2>2, <1>9 DEF StartCommit, locals, memory
    <3>2. stored[t].status = "absent" /\ Added(run[t]).status = "running"
      BY <1>9 DEF StartCommit, ProgressOf, Added
    <3> HIDE DEF label, Shape
    <3> QED BY <3>1, <3>2, StoreStep
  <2> QED BY <2>1, <2>2
<1> QED BY <1>2, <1>3, <1>4, <1>5, <1>6, <1>7, <1>8, <1>9

\* The actions from the call of the model to the end of execute().
LEMMA ClosingSteps ==
  ASSUME IInv, NEW t \in Attempts, NEW outcome \in Outcomes,
         \/ CallModel(t) \/ RefuseCall(t) \/ ModelReplies(t) \/ ModelFails(t)
         \/ ModelTimesOut(t) \/ FinishRun(t) \/ RefuseFinish(t) \/ RefuseCommit(t)
         \/ FinishCommit(t, outcome) \/ FailRun(t, outcome) \/ FailClaim(t, outcome)
         \/ Cancel(t) \/ Crash(t)
  PROVE  IInv'
<1> USE DEF Shape
<1> Shape /\ ProgressOf(t) /\ AnswerOf(t) /\ ReplyOf(t)
  BY DEF IInv
<1>1. ASSUME NEW label \in PCs \ {"idle", "claim", "start", "start_commit", "finish_commit",
                                 "returned"},
             Goto(t, label), UNCHANGED <<rows, stored, answers, now, run, result>>,
             label \in {"build", "calling", "finish"} => pc[t] \in {"build", "calling"}
      PROVE  IInv'
  <2>1. pc'[t] = label
    BY <1>1 DEF Goto
  <2>2. ProgressOf(t)' /\ ReplyOf(t)'
    BY <1>1, <2>1 DEF ProgressOf, ReplyOf, Keyed
  <2>3. run' = [u \in Attempts |-> run'[u]]
    BY <1>1
  <2> HIDE DEF Shape
  <2> QED BY <1>1, <2>2, <2>3, QuietStep DEF IInv, Shape
<1>2. CASE CallModel(t)
  BY <1>1, <1>2 DEF CallModel, database, locals, memory, PCs, Awaiting
<1>3. CASE RefuseCall(t)
  BY <1>1, <1>3 DEF RefuseCall, database, locals, memory, PCs, Awaiting
<1>4. CASE ModelReplies(t)
  BY <1>1, <1>4 DEF ModelReplies, database, PCs
<1>5. CASE ModelFails(t) \/ ModelTimesOut(t)
  BY <1>1, <1>5 DEF ModelFails, ModelTimesOut, database, locals, memory, PCs, Awaiting
<1>6. CASE RefuseFinish(t)
  BY <1>1, <1>6 DEF RefuseFinish, database, locals, memory, PCs, Awaiting
<1>7. CASE RefuseCommit(t)
  BY <1>1, <1>7 DEF RefuseCommit, database, locals, memory, PCs, Awaiting
<1>8. CASE Cancel(t) \/ Crash(t)
  <2> DEFINE label == IF Cancel(t) THEN "cancelled" ELSE "gone"
  <2>1. /\ Goto(t, label) /\ UNCHANGED <<rows, stored, answers, now, result>>
        /\ run' = [run EXCEPT ![t] = NewRun(@.maxSteps)]
    <3>1. CASE Cancel(t)
      BY <3>1 DEF Cancel, Forget, database
    <3>2. CASE ~ Cancel(t)
      BY <3>2, <1>8 DEF Crash, Forget, database
    <3> QED BY <3>1, <3>2
  <2>2. label \in {"cancelled", "gone"} /\ label \in PCs
    BY DEF PCs, Ended
  <2> HIDE DEF label
  <2>3. /\ run' = [u \in Attempts |-> run'[u]] /\ pc'[t] = label
        /\ \A u \in Attempts \ {t} : run'[u] = run[u]
    BY <2>1 DEF Goto
  <2>4. ProgressOf(t)' /\ ReplyOf(t)'
    BY <2>2, <2>3 DEF ProgressOf, ReplyOf, Keyed
  <2>5. result' \in [Attempts -> Attempts \union {Nobody}]
    BY <2>1
  <2> HIDE DEF Shape
  <2> QED BY <2>1, <2>2, <2>3, <2>4, <2>5, QuietStep
<1>10. CASE FinishRun(t)
  <2> DEFINE r == Finished(Recorded(run[t], "validation"))
  <2>1. /\ Goto(t, "finish_commit") /\ pc'[t] = "finish_commit" /\ pc[t] = "finish"
        /\ run' = [run EXCEPT ![t] = r]
        /\ UNCHANGED <<rows, stored, answers, now, result>>
    BY <1>10 DEF FinishRun, Goto, database
  <2>2. r.status = "succeeded"
    BY DEF Finished
  <2> HIDE DEF r
  <2>3. /\ run' = [u \in Attempts |-> run'[u]]
        /\ run'[t] = r
        /\ \A u \in Attempts \ {t} : run'[u] = run[u]
    BY <2>1
  <2>4. ProgressOf(t)' /\ ReplyOf(t)' /\ "finish_commit" \in PCs
    BY <2>1, <2>2, <2>3 DEF ProgressOf, ReplyOf, Keyed, PCs, Awaiting
  <2>5. result' \in [Attempts -> Attempts \union {Nobody}]
    BY <2>1
  <2> HIDE DEF Shape
  <2> QED BY <2>1, <2>3, <2>4, <2>5, QuietStep
<1>11. CASE FinishCommit(t, outcome)
  <2>1. CASE outcome = "rolled_back"
    BY <2>1, <1>1, <1>11 DEF FinishCommit, database, PCs, Awaiting
  <2>2. CASE outcome # "rolled_back"
    BY <2>2, <1>11, AnswerStep DEF Outcomes
  <2> QED BY <2>1, <2>2
<1>12. CASE FailRun(t, outcome)
  <2> DEFINE label == IF Keyed(t) THEN "fail_claim" ELSE "error"
             s == Saved(stored[t], Failed(Loaded(stored[t])))
  <2>1. /\ Goto(t, label) /\ label \in {"build", "fail_claim", "error"} /\ label # "build"
        /\ UNCHANGED <<rows, answers, run, result, now>>
    BY <1>12 DEF FailRun, locals, memory
  <2>2. CASE stored' = stored
    BY <2>1, <2>2, <1>1 DEF PCs, Awaiting, Ended
  <2>3. CASE stored' # stored
    <3>1. CanFail(Loaded(stored[t])) /\ stored' = [stored EXCEPT ![t] = s]
      BY <2>3, <1>12 DEF FailRun
    <3>2. stored[t].status # "succeeded" /\ s.status # "succeeded"
      BY <3>1 DEF CanFail, Loaded, Saved, Failed, TerminalStatuses
    <3> HIDE DEF label, s, Shape
    <3> QED BY <2>1, <3>1, <3>2, StoreStep
  <2> QED BY <2>2, <2>3
<1>13. CASE FailClaim(t, outcome)
  <2>1. Goto(t, "error") /\ UNCHANGED <<stored, answers, run, result, now>>
    BY <1>13 DEF FailClaim, locals, memory
  <2>2. CASE rows' = rows
    BY <2>1, <2>2, <1>1 DEF PCs, Ended
  <2>3. CASE rows' # rows
    <3> DEFINE r == Settled(rows[KeyOf[t]], "failed", t)
    <3>1. Owns(t) /\ SetRow(t, r)
      BY <2>3, <1>13 DEF FailClaim
    <3>2. Keyed(t) /\ rows[KeyOf[t]] \in Row /\ OwnedBy(rows[KeyOf[t]], t)
      BY <3>1 DEF Owns, Keyed
    <3>3. /\ r \in Row /\ r.state = "failed" /\ r.token = t /\ r.result = t
          /\ rows[KeyOf[t]].state = "started"
      BY <3>2 DEF Settled, OwnedBy, Row, States, SettledStates
    <3> HIDE DEF r, Shape
    <3> QED BY <2>1, <3>1, <3>2, <3>3, RowStep
  <2> QED BY <2>2, <2>3
<1> QED BY <1>2, <1>3, <1>4, <1>5, <1>6, <1>7, <1>8, <1>10, <1>11, <1>12, <1>13

\* IInv is inductive.
LEMMA NextInv == IInv /\ [Next]_vars => IInv'
<1> SUFFICES ASSUME IInv, [Next]_vars PROVE IInv'
  OBVIOUS
<1>1. now \in Nat
  BY DEF IInv, Shape
<1>2. "committed" \in Outcomes
  BY DEF Outcomes
<1>3. ASSUME NEW t \in Attempts, Begin(t) \/ RefuseInput(t) \/ Step(t) PROVE IInv'
  BY <1>2, <1>3, OpeningSteps, ClosingSteps DEF Step
<1>4. ASSUME NEW t \in Attempts, ModelReplies(t) \/ ModelFails(t) \/ Cancel(t) \/ Crash(t)
      PROVE  IInv'
  BY <1>2, <1>4, ClosingSteps
<1>5. CASE \E status \in {"archived", "deleted"} : CloseConversation(status)
  BY <1>1, <1>5, IdleStep DEF CloseConversation, database, locals, memory
<1>6. CASE \E b \in BOOLEAN : SetBanned(b)
  BY <1>1, <1>6, IdleStep DEF SetBanned, database, locals, memory
<1>7. CASE Tick
  BY <1>1, <1>7, IdleStep DEF Tick, database, locals, memory
<1>8. CASE UNCHANGED vars
  BY <1>1, <1>8, IdleStep DEF vars, database, locals, memory
<1> QED BY <1>3, <1>4, <1>5, <1>6, <1>7, <1>8 DEF Next

\* The inductive invariant holds in every reachable state.
THEOREM Invariance == Spec => []IInv
  BY InitInv, NextInv, PTL DEF Spec

\* Assistant message, SUCCEEDED run and COMPLETED claim are one fact, for any
\* number of concurrent attempts and under any faults.
THEOREM AtomicAnswer == Spec => []AnswerIsAtomic
<1>1. IInv => AnswerIsAtomic
  BY DEF IInv, AnswerOf, AnswerIsAtomic
<1> QED BY <1>1, Invariance, PTL

\* Every caller of a key that gets an answer gets the same, stored answer.
THEOREM AgreedReplies == Spec => []RepliesAgree
<1>1. IInv => RepliesAgree
  <2> SUFFICES ASSUME IInv, NEW t \in Attempts, NEW u \in Attempts, pc[t] = "returned"
               PROVE  /\ result[t] # Nobody /\ answers[result[t]] = 1
                      /\ Keyed(t) /\ KeyOf[u] = KeyOf[t] /\ pc[u] = "returned"
                             => result[u] = result[t]
    BY DEF RepliesAgree
  <2>1. ReplyOf(t) /\ ReplyOf(u)
    BY DEF IInv
  <2> QED BY <2>1 DEF ReplyOf, Keyed
<1> QED BY <1>1, Invariance, PTL

\* A run that has ended in the database is never written again.
THEOREM FinalEnd == Spec => EndIsFinal
<1> DEFINE Final == \A t \in Attempts : stored[t].status \in TerminalStatuses
                                        => stored'[t] = stored[t]
<1>1. ASSUME IInv, [Next]_vars PROVE [Final]_vars
  <2> USE DEF Shape
  <2>1. Shape /\ \A t \in Attempts : ProgressOf(t)
    BY <1>1 DEF IInv
  <2>2. CASE stored' = stored
    BY <2>2
  <2>3. ASSUME NEW t \in Attempts, NEW s, stored' = [stored EXCEPT ![t] = s],
               stored[t].status \notin TerminalStatuses
        PROVE  Final
    BY <2>1, <2>3
  <2>4. ASSUME NEW t \in Attempts, NEW outcome, StartCommit(t, outcome) PROVE Final
    <3>1. CASE outcome = "rolled_back"
      BY <2>2, <2>4, <3>1 DEF StartCommit
    <3>2. CASE outcome # "rolled_back"
      BY <2>1, <2>3, <2>4, <3>2 DEF StartCommit, ProgressOf, TerminalStatuses
    <3> QED BY <3>1, <3>2
  <2>5. ASSUME NEW t \in Attempts, NEW outcome, FinishCommit(t, outcome) PROVE Final
    <3>1. CASE outcome = "rolled_back"
      BY <2>2, <2>5, <3>1 DEF FinishCommit, database
    <3>2. CASE outcome # "rolled_back"
      BY <2>1, <2>3, <2>5, <3>2 DEF FinishCommit, ProgressOf, TerminalStatuses
    <3> QED BY <3>1, <3>2
  <2>6. ASSUME NEW t \in Attempts, NEW outcome, FailRun(t, outcome) PROVE Final
    <3>1. CASE stored' = stored
      BY <2>2, <3>1
    <3>2. CASE stored' # stored
      <4>1. CanFail(Loaded(stored[t]))
        BY <2>6, <3>2 DEF FailRun
      <4>2. stored[t].status \notin TerminalStatuses
        BY <4>1 DEF CanFail, Loaded
      <4> QED BY <2>3, <2>6, <3>2, <4>2 DEF FailRun
    <3> QED BY <3>1, <3>2
  <2>7. ASSUME NEW t \in Attempts, Step(t) PROVE Final
    BY <2>2, <2>4, <2>5, <2>6, <2>7
       DEF Step, Claim, FailClaim, Replay, RefuseKey, StartTurn, RefuseStart, CallModel,
           RefuseCall, ModelTimesOut, FinishRun, RefuseFinish, RefuseCommit, database
  <2>8. ASSUME NEW t \in Attempts,
               \/ Begin(t) \/ RefuseInput(t) \/ ModelReplies(t) \/ ModelFails(t)
               \/ Cancel(t) \/ Crash(t)
        PROVE  Final
    BY <2>2, <2>8 DEF Begin, RefuseInput, ModelReplies, ModelFails, Cancel, Crash, database
  <2>9. CASE \/ \E status \in {"archived", "deleted"} : CloseConversation(status)
             \/ \E b \in BOOLEAN : SetBanned(b)
             \/ Tick
    BY <2>2, <2>9 DEF CloseConversation, SetBanned, Tick, database
  <2>10. CASE UNCHANGED vars
    BY <2>10
  <2> QED BY <1>1, <2>7, <2>8, <2>9, <2>10 DEF Next
<1> QED BY <1>1, Invariance, PTL DEF Spec, EndIsFinal

-----------------------------------------------------------------------------
\* The unit of work that claims a key is a step of the contract.
LEMMA ClaimRefines ==
  ASSUME IInv, NEW t \in Attempts, NEW outcome, Claim(t, outcome)
  PROVE  Claims!Next \/ UNCHANGED <<rows, now>>
<1> DEFINE K == KeyOf[t]
<1>1. Shape /\ ProgressOf(t) /\ pc[t] = "claim" /\ now' = now
  BY DEF IInv, Claim
<1>2. K \in Keys /\ RowOf(K)
  BY <1>1 DEF IInv, ProgressOf, Keyed
<1>3. CASE outcome = "rolled_back"
  BY <1>1, <1>3 DEF Claim
<1>4. CASE outcome # "rolled_back"
  <2>1. rows' = [rows EXCEPT ![K] = Claimed(t, now)] /\ now \in 0 .. now
    BY <1>1, <1>4 DEF Claim, SetRow, Shape
  <2>2. CASE rows[K] = NoRow
    <3>1. Claims!Claim(K, t)
      BY <1>1, <2>1, <2>2 DEF Claims!Claim, Claims!Set, Claims!NoRow, NoRow,
         Claims!Claimed, Claimed
    <3> QED BY <1>2, <3>1 DEF Claims!Next
  <2>3. CASE rows[K].state = "started" /\ Expired(rows[K], now)
    <3>1. rows[K].token # t
      BY <1>1, <1>2 DEF RowOf
    <3>2. rows[K].claimedAt \in Nat
      BY <1>1, <1>2 DEF Shape, Row
    <3>3. now \in (rows[K].claimedAt + ClaimTtl) .. now
      BY <1>1, <2>3, <3>2, ClaimTtlAssumption DEF Expired, Shape
    <3>4. Claims!TakeOver(K, t)
      BY <1>1, <2>1, <2>3, <3>1, <3>3 DEF Claims!TakeOver, Claims!Set, Claims!Claimed, Claimed
    <3> QED BY <1>2, <3>4 DEF Claims!Next
  <2> QED BY <2>2, <2>3 DEF Claim
<1> QED BY <1>3, <1>4

\* A unit of work that settles the claim its attempt holds is a step of the
\* contract.
LEMMA SettleRefines ==
  ASSUME NEW t \in Attempts, NEW s \in SettledStates, Owns(t), now' = now,
         SetRow(t, Settled(rows[KeyOf[t]], s, t))
  PROVE  Claims!Next
<1>1. KeyOf[t] \in Keys /\ rows[KeyOf[t]].state = "started" /\ rows[KeyOf[t]].token = t
  BY DEF Owns, OwnedBy, Keyed
<1>2. Claims!Settle(KeyOf[t], s)
  BY <1>1 DEF SetRow, Claims!Settle, Claims!Set, Claims!Settled, Settled
<1> QED BY <1>1, <1>2 DEF Claims!Next, Claims!SettledStates, SettledStates

\* Every step of the turns is a step of the contract or changes neither the
\* idempotency records nor the clock.
LEMMA NextRefines == IInv /\ [Next]_vars => [Claims!Next]_Claims!vars
<1> SUFFICES ASSUME IInv, [Next]_vars PROVE Claims!Next \/ UNCHANGED <<rows, now>>
  BY DEF Claims!vars
<1>1. ASSUME NEW t \in Attempts, NEW outcome, FinishCommit(t, outcome)
      PROVE  Claims!Next \/ UNCHANGED <<rows, now>>
  <2>1. CASE outcome = "rolled_back" \/ ~ Keyed(t)
    BY <1>1, <2>1 DEF FinishCommit, database
  <2>2. CASE outcome # "rolled_back" /\ Keyed(t)
    BY <1>1, <2>2, SettleRefines DEF FinishCommit, SettledStates
  <2> QED BY <2>1, <2>2
<1>2. ASSUME NEW t \in Attempts, NEW outcome, FailClaim(t, outcome)
      PROVE  Claims!Next \/ UNCHANGED <<rows, now>>
  BY <1>2, SettleRefines DEF FailClaim, SettledStates
<1>3. ASSUME NEW t \in Attempts, Step(t) PROVE Claims!Next \/ UNCHANGED <<rows, now>>
  BY <1>1, <1>2, <1>3, ClaimRefines
     DEF Step, StartCommit, FailRun, Replay, RefuseKey, StartTurn, RefuseStart, CallModel,
         RefuseCall, ModelTimesOut, FinishRun, RefuseFinish, RefuseCommit, database
<1>4. ASSUME NEW t \in Attempts,
             \/ Begin(t) \/ RefuseInput(t) \/ ModelReplies(t) \/ ModelFails(t)
             \/ Cancel(t) \/ Crash(t)
      PROVE  UNCHANGED <<rows, now>>
  BY <1>4 DEF Begin, RefuseInput, ModelReplies, ModelFails, Cancel, Crash, database
<1>5. CASE \/ \E status \in {"archived", "deleted"} : CloseConversation(status)
           \/ \E b \in BOOLEAN : SetBanned(b)
  BY <1>5 DEF CloseConversation, SetBanned, database
<1>6. CASE Tick
  BY <1>6 DEF Tick, database, Claims!Next, Claims!Tick, IInv, Shape
<1>7. CASE UNCHANGED vars
  BY <1>7 DEF vars, database
<1> QED BY <1>3, <1>4, <1>5, <1>6, <1>7 DEF Next

\* Turns, their retries and their failures keep to the contract of the
\* idempotency port.
THEOREM Refinement == Spec => ClaimContract
<1>1. Init => Claims!Init
  BY DEF Init, Claims!Init, Claims!NoRow, NoRow
<1> QED BY <1>1, Invariance, NextRefines, PTL DEF Spec, ClaimContract, Claims!Spec

-----------------------------------------------------------------------------
\* An answer that is committed is the first of its attempt and of its key,
\* whether or not the caller learns of the commit.
LEMMA CommitAnswers ==
  ASSUME IInv, NEW t \in Attempts, NEW outcome \in Outcomes, FinishCommit(t, outcome),
         outcome # "rolled_back"
  PROVE  Promise!Next
<1> DEFINE K == KeyOf[t]
           told == outcome = "committed"
<1>1. Shape /\ ProgressOf(t) /\ AnswerOf(t) /\ pc[t] = "finish_commit"
  BY DEF IInv, FinishCommit
<1>2. answers[t] = 0 /\ answers' = [answers EXCEPT ![t] = 1]
  BY <1>1 DEF FinishCommit, AnswerOf, ProgressOf, Shape
<1>3. result' = IF told THEN [result EXCEPT ![t] = t] ELSE result
  BY DEF FinishCommit
<1>4. CASE Keyed(t)
  <2>1. K \in Keys /\ rows[K].state = "started"
    BY <1>4 DEF FinishCommit, Owns, OwnedBy, Keyed
  <2>2. rows'[K] = Settled(rows[K], "completed", t) /\ \A k \in Keys \ {K} : rows'[k] = rows[k]
    BY <1>1, <1>4, <2>1 DEF FinishCommit, SetRow, Shape
  <2>3. rows'[K].state = "completed" /\ rows'[K].result = t
    BY <2>2 DEF Settled
  <2>4. answered' = [answered EXCEPT ![K] = t]
    BY <2>1, <2>2, <2>3 DEF answered
  <2>5. givenUp' = givenUp
    BY <2>1, <2>2, <2>3 DEF givenUp
  <2>6. Promise!Open(K)
    BY <2>1 DEF Promise!Open, answered, givenUp
  <2>7. Promise!Answer(t, told)
    BY <1>2, <1>3, <1>4, <2>4, <2>5, <2>6 DEF Promise!Answer, Keyed
  <2> QED BY <2>7 DEF Promise!Next
<1>5. CASE ~ Keyed(t)
  <2>1. rows' = rows
    BY <1>5 DEF FinishCommit
  <2>2. answered' = answered /\ givenUp' = givenUp
    BY <2>1 DEF answered, givenUp
  <2>3. Promise!Answer(t, told)
    BY <1>2, <1>3, <1>5, <2>2 DEF Promise!Answer, Keyed
  <2> QED BY <2>3 DEF Promise!Next
<1> QED BY <1>4, <1>5

\* A claim that is failed gives its key up, and no other.
LEMMA FailureGivesUp ==
  ASSUME IInv, NEW t \in Attempts, NEW outcome, FailClaim(t, outcome)
  PROVE  [Promise!Next]_Promise!vars
<1> DEFINE K == KeyOf[t]
<1>1. Shape /\ UNCHANGED <<answers, result>>
  BY DEF IInv, FailClaim, memory
<1>2. CASE rows' = rows
  BY <1>1, <1>2 DEF Promise!vars, answered, givenUp
<1>3. CASE rows' # rows
  <2>1. Owns(t) /\ SetRow(t, Settled(rows[K], "failed", t))
    BY <1>3 DEF FailClaim
  <2>2. K \in Keys /\ rows[K].state = "started"
    BY <2>1 DEF Owns, OwnedBy, Keyed
  <2>3. rows'[K].state = "failed" /\ \A k \in Keys \ {K} : rows'[k] = rows[k]
    BY <1>1, <2>1, <2>2 DEF SetRow, Settled, Shape
  <2>4. answered' = answered
    BY <2>2, <2>3 DEF answered
  <2>5. givenUp' = givenUp \union {K}
    BY <2>2, <2>3 DEF givenUp
  <2>6. Promise!GiveUp(K)
    BY <1>1, <2>2, <2>4, <2>5 DEF Promise!GiveUp, Promise!Open, answered, givenUp
  <2> QED BY <2>2, <2>6 DEF Promise!Next
<1> QED BY <1>2, <1>3

\* Claiming a key, also taking it over, decides nothing about it.
LEMMA ClaimDecidesNothing ==
  ASSUME IInv, NEW t \in Attempts, NEW outcome, Claim(t, outcome)
  PROVE  UNCHANGED Promise!vars
<1> DEFINE K == KeyOf[t]
<1>1. Shape /\ ProgressOf(t) /\ pc[t] = "claim" /\ UNCHANGED <<answers, result>>
  BY DEF IInv, Claim, memory
<1>2. K \in Keys /\ rows[K].state \in {"absent", "started"}
  BY <1>1 DEF ProgressOf, Keyed, Claim, NoRow
<1>3. \A k \in Keys : rows'[k] = rows[k] \/ (k = K /\ rows'[k].state = "started")
  BY <1>1, <1>2 DEF Claim, SetRow, Claimed, Shape
<1>4. answered' = answered /\ givenUp' = givenUp
  BY <1>2, <1>3 DEF answered, givenUp
<1> QED BY <1>1, <1>4 DEF Promise!vars

\* Every step of the turns is a step of the promise or none of its business.
LEMMA NextAnswers == IInv /\ [Next]_vars => [Promise!Next]_Promise!vars
<1> SUFFICES ASSUME IInv, [Next]_vars PROVE [Promise!Next]_Promise!vars
  OBVIOUS
<1>1. ASSUME UNCHANGED <<rows, answers, result>> PROVE UNCHANGED Promise!vars
  BY <1>1 DEF Promise!vars, answered, givenUp
<1>2. ASSUME NEW t \in Attempts, Replay(t) PROVE Promise!Next
  <2>1. ProgressOf(t) /\ pc[t] = "claim" /\ rows[KeyOf[t]].state = "completed"
    BY <1>2 DEF IInv, Replay
  <2>2. KeyOf[t] \in Keys /\ KeyOf[t] # NoKey /\ RowOf(KeyOf[t])
    BY <2>1 DEF IInv, ProgressOf, Keyed
  <2>3. answered[KeyOf[t]] = rows[KeyOf[t]].result /\ rows[KeyOf[t]].result \in Attempts
    BY <2>1, <2>2 DEF answered, RowOf, SettledStates
  <2>4. Promise!Replay(t)
    BY <1>2, <2>2, <2>3 DEF Replay, database, Promise!Replay, answered, givenUp
  <2> QED BY <2>4 DEF Promise!Next
<1>3. ASSUME NEW t \in Attempts, NEW outcome \in Outcomes, FinishCommit(t, outcome)
      PROVE  [Promise!Next]_Promise!vars
  <2>1. CASE outcome = "rolled_back"
    BY <1>1, <1>3, <2>1 DEF FinishCommit, database
  <2> QED BY <1>3, <2>1, CommitAnswers
<1>4. ASSUME NEW t \in Attempts, Step(t) PROVE [Promise!Next]_Promise!vars
  BY <1>1, <1>2, <1>3, <1>4, ClaimDecidesNothing, FailureGivesUp
     DEF Step, StartCommit, FailRun, RefuseKey, StartTurn, RefuseStart, CallModel, RefuseCall,
         ModelTimesOut, FinishRun, RefuseFinish, RefuseCommit, database, locals, memory
<1>5. ASSUME NEW t \in Attempts,
             \/ Begin(t) \/ RefuseInput(t) \/ ModelReplies(t) \/ ModelFails(t)
             \/ Cancel(t) \/ Crash(t)
      PROVE  UNCHANGED <<rows, answers, result>>
  BY <1>5 DEF Begin, RefuseInput, ModelReplies, ModelFails, Cancel, Crash, database, locals,
     memory
<1>6. CASE \/ \E status \in {"archived", "deleted"} : CloseConversation(status)
           \/ \E b \in BOOLEAN : SetBanned(b)
           \/ Tick
  BY <1>1, <1>6 DEF CloseConversation, SetBanned, Tick, database, locals, memory
<1>7. CASE UNCHANGED vars
  BY <1>1, <1>7 DEF vars, database, locals, memory
<1> QED BY <1>1, <1>4, <1>5, <1>6, <1>7 DEF Next

\* Turns, with their takeovers, retries, settlements and crashes, implement the
\* promise that a key is answered or given up once and for all.
THEOREM KeptPromise == Spec => AnsweredOnce
<1>1. Init => Promise!Init
  BY DEF Init, Promise!Init, answered, givenUp, NoRow
<1> QED BY <1>1, Invariance, NextAnswers, PTL DEF Spec, AnsweredOnce, Promise!Spec

-----------------------------------------------------------------------------
(***************************************************************************)
(* What execute() leaves behind.  The steps of a turn are the same in      *)
(* every run, so its rows are known from its status; the rest relates the  *)
(* place an attempt has reached to what it has stored, to the claim it may *)
(* still hold and to the units of work the database broke.                 *)
(***************************************************************************)
PlannedRun(limit) ==
    [status |-> "running", steps |-> <<"planning", "model_call">>, maxSteps |-> limit]

FinishedRun(limit) ==
    [status |-> "succeeded", maxSteps |-> limit,
     steps |-> <<"planning", "model_call", "validation", "final_response">>]

StepOf(i, type) == [index |-> i, type |-> type]

PlannedRows == {StepOf(1, "planning"), StepOf(2, "model_call")}
FinishedRows == PlannedRows \union {StepOf(3, "validation"), StepOf(4, "final_response")}
FailedRows == PlannedRows \union {StepOf(3, "error")}

\* The entity of an attempt.
EntityOf(t) ==
    /\ run[t].maxSteps \in StepLimits
    /\ pc[t] \in {"idle", "claim", "start"} => run[t] = NewRun(run[t].maxSteps)
    /\ pc[t] \in {"start_commit", "build", "calling", "finish"} =>
           run[t] = PlannedRun(run[t].maxSteps)
    /\ pc[t] = "finish_commit" => run[t] = FinishedRun(run[t].maxSteps)

\* The rows of its run.
StoredOf(t) ==
    /\ \/ stored[t] = NoRun
       \/ stored[t].status = "running" /\ stored[t].steps = PlannedRows
       \/ stored[t].status = "succeeded" /\ stored[t].steps = FinishedRows
       \/ stored[t].status = "failed" /\ stored[t].steps = FailedRows
    /\ pc[t] = "fail_run" => stored[t].status # "absent"

\* Its run is settled, or a unit of work was broken.
SettleOf(t) ==
    pc[t] \in {"fail_claim", "returned", "refused", "error"} =>
        stored[t].status # "running" \/ broken[t] \cap {"start_commit", "fail_run"} # {}

\* Its claim is settled, or a unit of work was broken, or the turn has not
\* started; while the turn is on, a claim it has is open.
ClaimOf(t) ==
    /\ pc[t] \in {"idle", "claim", "start", "start_commit", "refused"} => userMessages[t] = 0
    /\ pc[t] \in {"start", "start_commit", "build", "calling", "finish", "finish_commit"} =>
           (Keyed(t) /\ rows[KeyOf[t]].token = t => rows[KeyOf[t]].state = "started")
    /\ pc[t] = "error" => \/ userMessages[t] = 0
                          \/ ~ Owns(t)
                          \/ broken[t] \cap {"start_commit", "fail_claim"} # {}

\* Its answer is stored, or the claim is somebody else's, or the final unit of
\* work was broken.
PaidOf(t) ==
    replied[t] =>
        /\ pc[t] \in {"finish", "finish_commit", "fail_run", "fail_claim", "error", "returned"}
        /\ pc[t] \in {"fail_run", "fail_claim", "error", "returned"} /\ run[t].maxSteps > 2 =>
               \/ answers[t] = 1
               \/ Keyed(t) /\ rows[KeyOf[t]].token # t
               \/ "finish_commit" \in broken[t]

TurnOf(t) == EntityOf(t) /\ StoredOf(t) /\ SettleOf(t) /\ ClaimOf(t) /\ PaidOf(t)

TurnShape == /\ userMessages \in [Attempts -> Nat]
             /\ replied \in [Attempts -> BOOLEAN]
             /\ broken \in [Attempts -> SUBSET Awaiting]

\* Inductive together with IInv.
TurnInv == TurnShape /\ \A t \in Attempts : TurnOf(t)

-----------------------------------------------------------------------------
\* The steps _start_turn and _finish_turn record.
LEMMA TurnSteps ==
  ASSUME NEW limit
  PROVE  /\ Planned(NewRun(limit)) = PlannedRun(limit)
         /\ Finished(Recorded(PlannedRun(limit), "validation")) = FinishedRun(limit)
         /\ Added(PlannedRun(limit)) =
                [status |-> "running", steps |-> PlannedRows, maxSteps |-> limit]
<1>1. Planned(NewRun(limit)) = PlannedRun(limit)
  BY DEF Planned, NewRun, PlannedRun, Started, Recorded
<1>2. Finished(Recorded(PlannedRun(limit), "validation")) = FinishedRun(limit)
  BY DEF Finished, Recorded, PlannedRun, FinishedRun
<1>3. StepRows(PlannedRun(limit), 0) = PlannedRows
  <2>1. DOMAIN PlannedRun(limit).steps = {1, 2} BY DEF PlannedRun
  <2>2. PlannedRun(limit).steps[1] = "planning" /\ PlannedRun(limit).steps[2] = "model_call"
    BY DEF PlannedRun
  <2> QED BY <2>1, <2>2 DEF StepRows, PlannedRows, StepOf
<1> QED BY <1>1, <1>2, <1>3 DEF Added, PlannedRun

\* A step limit above two has room for VALIDATION.
LEMMA FinishFits ==
  ASSUME NEW limit \in StepLimits, limit > 2
  PROVE  /\ CanRecord(PlannedRun(limit), "validation")
         /\ CanFinish(Recorded(PlannedRun(limit), "validation"))
<1>1. limit \in Nat BY LimitsAssumption
<1>2. PlannedRun(limit).status = "running" /\ PlannedRun(limit).maxSteps = limit
      /\ Len(PlannedRun(limit).steps) = 2
  BY DEF PlannedRun
<1> QED BY <1>1, <1>2 DEF CanRecord, WithinBudget, CanFinish, Recorded, TerminalStepTypes

\* The highest index of the rows of a running turn.
LEMMA HighestPlanned ==
  ASSUME NEW s, s.steps = PlannedRows
  PROVE  HighestIndex(s) = 2
<1>1. {x.index : x \in s.steps} \union {0} = {0, 1, 2} BY DEF PlannedRows, StepOf
<1>2. \A n \in {0, 1, 2} : (\A i \in {0, 1, 2} : i <= n) <=> n = 2 OBVIOUS
<1> QED BY <1>1, <1>2 DEF HighestIndex

\* How many rows a turn has.
LEMMA RowCounts ==
  /\ Cardinality(PlannedRows) = 2
  /\ Cardinality(FailedRows) = 3
  /\ Cardinality(FinishedRows) = 4
<1> DEFINE one == {StepOf(1, "planning")}
           three == PlannedRows \union {StepOf(3, "validation")}
<1>1. IsFiniteSet(one) /\ Cardinality(one) = 1 BY FS_Singleton
<1>2. PlannedRows = one \union {StepOf(2, "model_call")} /\ StepOf(2, "model_call") \notin one
  BY DEF PlannedRows, StepOf
<1>3. IsFiniteSet(PlannedRows) /\ Cardinality(PlannedRows) = 2
  BY <1>1, <1>2, FS_AddElement
<1>4. StepOf(3, "error") \notin PlannedRows /\ StepOf(3, "validation") \notin PlannedRows
  BY DEF PlannedRows, StepOf
<1>5. Cardinality(FailedRows) = 3
  <2>1. Cardinality(PlannedRows \union {StepOf(3, "error")}) = Cardinality(PlannedRows) + 1
    BY <1>3, <1>4, FS_AddElement
  <2> QED BY <1>3, <2>1 DEF FailedRows
<1>6. IsFiniteSet(three) /\ Cardinality(three) = 3 BY <1>3, <1>4, FS_AddElement
<1>7. /\ FinishedRows = three \union {StepOf(4, "final_response")}
      /\ StepOf(4, "final_response") \notin three
  BY DEF FinishedRows, PlannedRows, StepOf
<1> HIDE DEF three
<1>8. Cardinality(three \union {StepOf(4, "final_response")}) = Cardinality(three) + 1
  BY <1>6, <1>7, FS_AddElement
<1>9. Cardinality(FinishedRows) = 4 BY <1>6, <1>7, <1>8
<1> QED BY <1>3, <1>5, <1>9

\* A function on 1 .. n is a sequence of length n, and grows at its end.
LEMMA SequenceGrows ==
  ASSUME NEW S, NEW n \in Nat, NEW f \in [1 .. n -> S], NEW x \in S
  PROVE  /\ DOMAIN Append(f, x) = 1 .. (n + 1)
         /\ Append(f, x)[n + 1] = x
<1>1. f \in Seq(S) /\ Len(f) = n OBVIOUS
<1> QED BY <1>1

\* save() of the finished run adds its last two steps.
LEMMA SaveFinished ==
  ASSUME NEW s, NEW limit, s.steps = PlannedRows
  PROVE  /\ Saved(s, FinishedRun(limit)).steps = FinishedRows
         /\ Saved(s, FinishedRun(limit)).status = "succeeded"
<1>1. HighestIndex(s) = 2 BY HighestPlanned
<1>2. StepRows(FinishedRun(limit), 2) = {StepOf(3, "validation"), StepOf(4, "final_response")}
  <2>1. {j \in DOMAIN FinishedRun(limit).steps : j > 2} = {3, 4} BY DEF FinishedRun
  <2>2. /\ FinishedRun(limit).steps[3] = "validation"
        /\ FinishedRun(limit).steps[4] = "final_response"
    BY DEF FinishedRun
  <2> QED BY <2>1, <2>2 DEF StepRows, StepOf
<1> QED BY <1>1, <1>2 DEF Saved, FinishedRows, FinishedRun

\* _settle_failed_run loads the run of a turn and adds the ERROR step.
LEMMA SaveFailed ==
  ASSUME NEW s, s.steps = PlannedRows, s.status = "running"
  PROVE  /\ Saved(s, Failed(Loaded(s))).steps = FailedRows
         /\ Saved(s, Failed(Loaded(s))).status = "failed"
<1>1. HighestIndex(s) = 2 BY HighestPlanned
<1>2. Cardinality(s.steps) = 2 BY RowCounts
<1>3. \E f \in [1 .. 2 -> {"planning", "model_call"}] : Loaded(s).steps = f
  <2>1. (CHOOSE x \in s.steps : x.index = 1) = StepOf(1, "planning")
    BY DEF PlannedRows, StepOf
  <2>2. (CHOOSE x \in s.steps : x.index = 2) = StepOf(2, "model_call")
    BY DEF PlannedRows, StepOf
  <2>3. \A i \in 1 .. 2 : (CHOOSE x \in s.steps : x.index = i).type \in {"planning", "model_call"}
    <3> SUFFICES ASSUME NEW i \in 1 .. 2
                 PROVE  (CHOOSE x \in s.steps : x.index = i).type \in {"planning", "model_call"}
      OBVIOUS
    <3>1. i = 1 \/ i = 2 OBVIOUS
    <3>2. StepOf(1, "planning").type = "planning" /\ StepOf(2, "model_call").type = "model_call"
      BY DEF StepOf
    <3> QED BY <2>1, <2>2, <3>1, <3>2
  <2>4. Loaded(s).steps = [i \in 1 .. 2 |-> (CHOOSE x \in s.steps : x.index = i).type]
    BY <1>2 DEF Loaded
  <2> QED BY <2>3, <2>4
<1>4. PICK f \in [1 .. 2 -> {"planning", "model_call"}] : Loaded(s).steps = f BY <1>3
<1>6. /\ Failed(Loaded(s)).steps = Append(f, "error")
      /\ Failed(Loaded(s)).status = "failed"
  BY <1>4 DEF Failed, Loaded
<1>7. /\ DOMAIN Append(f, "error") = 1 .. 3
      /\ Append(f, "error")[3] = "error"
  <2>1. f \in [1 .. 2 -> StepTypes] BY <1>4 DEF StepTypes, WorkStepTypes
  <2>2. "error" \in StepTypes BY DEF StepTypes, TerminalStepTypes
  <2>3. PICK n \in Nat : n = 2 OBVIOUS
  <2>4. f \in [1 .. n -> StepTypes] BY <2>1, <2>3
  <2>5. DOMAIN Append(f, "error") = 1 .. (n + 1) /\ Append(f, "error")[n + 1] = "error"
    BY <2>2, <2>4, SequenceGrows
  <2> QED BY <2>3, <2>5
<1>8. StepRows(Failed(Loaded(s)), 2) = {StepOf(3, "error")}
  <2>1. {j \in DOMAIN Append(f, "error") : j > 2} = {3} BY <1>7
  <2> QED BY <1>6, <1>7, <2>1 DEF StepRows, StepOf
<1> QED BY <1>1, <1>6, <1>8 DEF Saved, FailedRows

-----------------------------------------------------------------------------
\* A step of attempt t leaves the others alone, and a row it changes is its own.
Touches(t) ==
  /\ \A u \in Attempts \ {t} :
         UNCHANGED <<pc[u], run[u], stored[u], userMessages[u], replied[u], broken[u], answers[u]>>
  /\ \A k \in Keys : rows'[k] = rows[k] \/ rows'[k].token = t

LEMMA OthersKept ==
  ASSUME TurnInv, NEW t \in Attempts, Touches(t), NEW u \in Attempts, u # t
  PROVE  TurnOf(u)'
<1>1. TurnOf(u) BY DEF TurnInv
<1>2. UNCHANGED <<pc[u], run[u], stored[u], userMessages[u], replied[u], broken[u], answers[u]>>
  BY DEF Touches
<1>3. Keyed(u) => rows'[KeyOf[u]] = rows[KeyOf[u]] \/ rows'[KeyOf[u]].token # u
  BY DEF Touches, Keyed
<1>4. EntityOf(u)' BY <1>1, <1>2 DEF TurnOf, EntityOf
<1>5. StoredOf(u)' BY <1>1, <1>2 DEF TurnOf, StoredOf
<1>6. SettleOf(u)' BY <1>1, <1>2 DEF TurnOf, SettleOf
<1>7. ClaimOf(u)' BY <1>1, <1>2, <1>3 DEF TurnOf, ClaimOf, Owns, OwnedBy, Keyed
<1>8. PaidOf(u)' BY <1>1, <1>2, <1>3 DEF TurnOf, PaidOf, Keyed
<1> QED BY <1>4, <1>5, <1>6, <1>7, <1>8 DEF TurnOf

\* An attempt that only moves on.
LEMMA MovingOn ==
  ASSUME IInv, TurnInv, NEW t \in Attempts,
         \/ Begin(t) \/ RefuseInput(t) \/ RefuseKey(t) \/ RefuseStart(t) \/ CallModel(t)
         \/ RefuseCall(t) \/ ModelFails(t) \/ ModelTimesOut(t) \/ RefuseFinish(t)
         \/ RefuseCommit(t)
  PROVE  TurnInv'
<1>0. Shape /\ TurnShape /\ TurnOf(t) /\ ProgressOf(t) BY DEF IInv, TurnInv
<1>1. PICK label : Goto(t, label)
  BY DEF Begin, RefuseInput, RefuseKey, RefuseStart, CallModel, RefuseCall, ModelFails,
         ModelTimesOut, RefuseFinish, RefuseCommit
<1>2. UNCHANGED <<rows, stored, userMessages, answers, run, replied, broken>>
  BY DEF Begin, RefuseInput, RefuseKey, RefuseStart, CallModel, RefuseCall, ModelFails,
         ModelTimesOut, RefuseFinish, RefuseCommit, database, locals, memory
<1>3. pc'[t] = label /\ \A u \in Attempts \ {t} : pc'[u] = pc[u] BY <1>0, <1>1 DEF Goto, Shape
<1>4. Touches(t) BY <1>2, <1>3 DEF Touches
<1>5. TurnShape' BY <1>0, <1>2 DEF TurnShape
<1>6. ASSUME \/ pc[t] = "idle" /\ label \in {"claim", "start", "refused"}
             \/ pc[t] = "claim" /\ label = "refused"
             \/ pc[t] = "start" /\ label = "error"
             \/ pc[t] = "build" /\ label = "calling"
      PROVE  TurnOf(t)'
  BY <1>0, <1>2, <1>3, <1>6
     DEF TurnOf, EntityOf, StoredOf, SettleOf, ClaimOf, PaidOf, ProgressOf, RowOf, IInv, Keyed, Owns
<1>7. ASSUME pc[t] \in {"build", "calling"}, label = "fail_run" PROVE TurnOf(t)'
  BY <1>0, <1>2, <1>3, <1>7
     DEF TurnOf, EntityOf, StoredOf, SettleOf, ClaimOf, PaidOf, ProgressOf
<1>8. ASSUME RefuseFinish(t) PROVE TurnOf(t)'
  <2>1. pc[t] = "finish" /\ label = "fail_run"
    BY <1>0, <1>3, <1>8 DEF RefuseFinish, Goto, Shape
  <2>2. ~ run[t].maxSteps > 2
    BY <1>0, <1>8, <2>1, FinishFits DEF TurnOf, EntityOf, RefuseFinish
  <2> QED BY <1>0, <1>2, <1>3, <2>1, <2>2
          DEF TurnOf, EntityOf, StoredOf, SettleOf, ClaimOf, PaidOf, ProgressOf
<1>9. ASSUME RefuseCommit(t) PROVE TurnOf(t)'
  <2>1. pc[t] = "finish_commit" /\ label = "fail_run" /\ Keyed(t) /\ ~ Owns(t)
    BY <1>0, <1>3, <1>9 DEF RefuseCommit, Goto, Shape
  <2>2. rows[KeyOf[t]].token # t
    BY <1>0, <2>1 DEF TurnOf, ClaimOf, Owns, OwnedBy
  <2> QED BY <1>0, <1>2, <1>3, <2>1, <2>2
          DEF TurnOf, EntityOf, StoredOf, SettleOf, ClaimOf, PaidOf, ProgressOf, Keyed
<1>10. TurnOf(t)'
  BY <1>0, <1>3, <1>6, <1>7, <1>8, <1>9
     DEF Begin, RefuseInput, RefuseKey, RefuseStart, CallModel, RefuseCall, ModelFails,
         ModelTimesOut, Goto, Shape
<1> QED BY <1>4, <1>5, <1>10, OthersKept DEF TurnInv

\* The units of work, by how they end.
LEMMA UnitsOfWork ==
  ASSUME IInv, TurnInv, NEW t \in Attempts, NEW outcome \in Outcomes,
         \/ Claim(t, outcome) \/ StartCommit(t, outcome) \/ FinishCommit(t, outcome)
         \/ FailRun(t, outcome) \/ FailClaim(t, outcome)
  PROVE  TurnInv'
<1>0. Shape /\ TurnShape /\ TurnOf(t) /\ ProgressOf(t) /\ AnswerOf(t) BY DEF IInv, TurnInv
<1>1. EntityOf(t) /\ StoredOf(t) /\ SettleOf(t) /\ ClaimOf(t) /\ PaidOf(t) BY <1>0 DEF TurnOf
<1>2. /\ pc[t] \in {"claim", "start_commit", "finish_commit", "fail_run", "fail_claim"}
      /\ Note(t, outcome) /\ UNCHANGED <<run, replied>>
  BY DEF Claim, StartCommit, FinishCommit, FailRun, FailClaim, memory
<1>3. PICK label : Goto(t, label)
  BY DEF Claim, StartCommit, FinishCommit, FailRun, FailClaim
<1>4. pc'[t] = label /\ \A u \in Attempts \ {t} : pc'[u] = pc[u] BY <1>0, <1>3 DEF Goto, Shape
<1>5. /\ broken' \in [Attempts -> SUBSET Awaiting]
      /\ \A u \in Attempts \ {t} : broken'[u] = broken[u]
      /\ broken[t] \subseteq broken'[t]
      /\ outcome # "committed" => pc[t] \in broken'[t]
      /\ outcome = "committed" => broken' = broken
  BY <1>0, <1>2 DEF Note, TurnShape, Awaiting
<1> HIDE DEF Note
<1>6. ASSUME TurnOf(t)', userMessages' \in [Attempts -> Nat],
             \A u \in Attempts \ {t} : UNCHANGED <<stored[u], userMessages[u], answers[u]>>,
             \A k \in Keys : rows'[k] = rows[k] \/ rows'[k].token = t
      PROVE  TurnInv'
  <2>1. Touches(t) BY <1>2, <1>4, <1>5, <1>6 DEF Touches
  <2>2. TurnShape' BY <1>0, <1>2, <1>5, <1>6 DEF TurnShape
  <2> QED BY <1>6, <2>1, <2>2, OthersKept DEF TurnInv
<1>7. CASE Claim(t, outcome)
  <2>1. /\ pc[t] = "claim" /\ label = IF outcome = "committed" THEN "start" ELSE "error"
        /\ UNCHANGED <<stored, userMessages, answers>> /\ Keyed(t) /\ KeyOf[t] \in Keys
    BY <1>0, <1>4, <1>7 DEF Claim, Goto, Shape, ProgressOf, Keyed
  <2>2. /\ \A k \in Keys : rows'[k] = rows[k] \/ rows'[k].token = t
        /\ outcome = "committed" => rows'[KeyOf[t]].state = "started"
    BY <1>0, <1>7, <2>1 DEF Claim, SetRow, Claimed, Shape
  <2>3. TurnOf(t)'
    <3>1. EntityOf(t)' /\ StoredOf(t)'
      BY <1>1, <1>2, <1>4, <2>1 DEF EntityOf, StoredOf
    <3>2. SettleOf(t)' BY <1>0, <1>4, <2>1 DEF SettleOf, ProgressOf
    <3>3. ClaimOf(t)' BY <1>1, <1>4, <2>1, <2>2 DEF ClaimOf, Keyed
    <3>4. PaidOf(t)' BY <1>1, <1>2, <2>1 DEF PaidOf
    <3> QED BY <3>1, <3>2, <3>3, <3>4 DEF TurnOf
  <2> QED BY <1>0, <1>6, <2>1, <2>2, <2>3 DEF TurnShape
<1>8. CASE StartCommit(t, outcome)
  <2>1. /\ pc[t] = "start_commit" /\ label = IF outcome = "committed" THEN "build" ELSE "error"
        /\ UNCHANGED <<rows, answers>>
        /\ \A u \in Attempts \ {t} : stored'[u] = stored[u] /\ userMessages'[u] = userMessages[u]
        /\ userMessages' \in [Attempts -> Nat]
        /\ outcome = "rolled_back" => stored'[t] = stored[t]
        /\ outcome # "rolled_back" => stored'[t] = Added(run[t])
    BY <1>0, <1>4, <1>8 DEF StartCommit, Goto, Shape, TurnShape
  <2>2. /\ outcome = "rolled_back" => stored'[t] = NoRun
        /\ outcome # "rolled_back" => stored'[t].status = "running" /\ stored'[t].steps = PlannedRows
    BY <1>0, <1>1, <2>1, TurnSteps DEF EntityOf, StoredOf, ProgressOf
  <2>3. TurnOf(t)'
    <3>1. EntityOf(t)' BY <1>1, <1>2, <1>4, <2>1 DEF EntityOf
    <3>2. StoredOf(t)' BY <1>4, <2>1, <2>2 DEF StoredOf
    <3>3. SettleOf(t)' BY <1>4, <1>5, <2>1 DEF SettleOf
    <3>4. ClaimOf(t)' BY <1>1, <1>4, <1>5, <2>1 DEF ClaimOf, Keyed
    <3>5. PaidOf(t)' BY <1>1, <1>2, <2>1 DEF PaidOf
    <3> QED BY <3>1, <3>2, <3>3, <3>4, <3>5 DEF TurnOf
  <2> QED BY <1>6, <2>1, <2>3
<1>9. CASE FinishCommit(t, outcome)
  <2>1. /\ pc[t] = "finish_commit"
        /\ label = IF outcome = "committed" THEN "returned" ELSE "fail_run"
        /\ UNCHANGED userMessages
        /\ \A u \in Attempts \ {t} : stored'[u] = stored[u] /\ answers'[u] = answers[u]
        /\ outcome = "rolled_back" => UNCHANGED <<rows, stored, answers>>
        /\ outcome # "rolled_back" => /\ stored'[t] = Saved(stored[t], run[t])
                                      /\ answers'[t] = answers[t] + 1
    BY <1>0, <1>4, <1>9 DEF FinishCommit, Goto, Shape, database
  <2>2. \A k \in Keys : rows'[k] = rows[k] \/ rows'[k].token = t
    BY <1>0, <1>9 DEF FinishCommit, database, SetRow, Settled, Owns, OwnedBy, Shape
  <2>3. /\ stored[t].status = "running" /\ stored[t].steps = PlannedRows
        /\ answers[t] = 0
    BY <1>0, <1>1, <2>1 DEF ProgressOf, StoredOf, AnswerOf, NoRun
  <2>4. outcome # "rolled_back" =>
            stored'[t].status = "succeeded" /\ stored'[t].steps = FinishedRows /\ answers'[t] = 1
    BY <1>1, <2>1, <2>3, SaveFinished DEF EntityOf
  <2>5. TurnOf(t)'
    <3>1. EntityOf(t)' BY <1>1, <1>2, <1>4, <2>1 DEF EntityOf
    <3>2. StoredOf(t)' BY <1>4, <2>1, <2>3, <2>4 DEF StoredOf
    <3>3. SettleOf(t)' BY <1>4, <2>1, <2>4 DEF SettleOf
    <3>4. ClaimOf(t)' BY <1>4, <2>1 DEF ClaimOf
    <3>5. PaidOf(t)' BY <1>4, <1>5, <2>1, <2>4 DEF PaidOf
    <3> QED BY <3>1, <3>2, <3>3, <3>4, <3>5 DEF TurnOf
  <2> QED BY <1>0, <1>6, <2>1, <2>2, <2>5 DEF TurnShape
<1>10. CASE FailRun(t, outcome)
  <2>1. /\ pc[t] = "fail_run" /\ label = IF Keyed(t) THEN "fail_claim" ELSE "error"
        /\ UNCHANGED <<rows, userMessages, answers>>
        /\ \A u \in Attempts \ {t} : stored'[u] = stored[u]
    BY <1>0, <1>4, <1>10 DEF FailRun, Goto, Shape
  <2>2. stored[t].status = "running" => CanFail(Loaded(stored[t]))
    BY DEF CanFail, CanRecord, WithinBudget, Loaded, TerminalStepTypes, TerminalStatuses
  <2>3. stored[t].status # "running" => stored' = stored
    BY <1>1, <1>10, <2>1 DEF FailRun, StoredOf, CanFail, Loaded, TerminalStatuses, NoRun
  <2>4. stored[t].status = "running" /\ outcome # "rolled_back" =>
            stored'[t].status = "failed" /\ stored'[t].steps = FailedRows
    BY <1>0, <1>1, <1>10, <2>2, SaveFailed DEF FailRun, StoredOf, Shape, NoRun
  <2>5. outcome = "rolled_back" => stored' = stored BY <1>10 DEF FailRun
  <2>6. TurnOf(t)'
    <3>1. EntityOf(t)' BY <1>1, <1>2, <1>4, <2>1 DEF EntityOf
    <3>2. StoredOf(t)' BY <1>1, <1>4, <2>1, <2>3, <2>4, <2>5 DEF StoredOf
    <3>3. SettleOf(t)'
      <4>1. CASE stored[t].status # "running" BY <2>3, <4>1 DEF SettleOf
      <4>2. CASE outcome = "rolled_back" BY <1>5, <2>1, <4>2 DEF SettleOf
      <4>3. CASE stored[t].status = "running" /\ outcome # "rolled_back"
        BY <2>4, <4>3 DEF SettleOf
      <4> QED BY <4>1, <4>2, <4>3
    <3>4. ClaimOf(t)' BY <1>4, <2>1 DEF ClaimOf, Owns, Keyed
    <3>5. PaidOf(t)' BY <1>1, <1>2, <1>4, <1>5, <2>1 DEF PaidOf, Keyed
    <3> QED BY <3>1, <3>2, <3>3, <3>4, <3>5 DEF TurnOf
  <2> QED BY <1>0, <1>6, <2>1, <2>6 DEF TurnShape
<1>11. CASE FailClaim(t, outcome)
  <2>1. /\ pc[t] = "fail_claim" /\ label = "error"
        /\ UNCHANGED <<stored, userMessages, answers>>
    BY <1>0, <1>4, <1>11 DEF FailClaim, Goto, Shape
  <2>2. \A k \in Keys : rows'[k] = rows[k] \/ rows'[k].token = t
    BY <1>0, <1>11 DEF FailClaim, SetRow, Settled, Owns, OwnedBy, Shape
  <2>3. Keyed(t) => rows'[KeyOf[t]].token = rows[KeyOf[t]].token
    BY <1>0, <1>11 DEF FailClaim, SetRow, Settled, Owns, OwnedBy, Shape, Keyed
  <2>4. outcome = "committed" => ~ Owns(t)'
    BY <1>0, <1>11 DEF FailClaim, SetRow, Settled, Owns, OwnedBy, Shape, Keyed
  <2>5. TurnOf(t)'
    <3>1. EntityOf(t)' BY <1>1, <1>2, <1>4, <2>1 DEF EntityOf
    <3>2. StoredOf(t)' BY <1>1, <1>4, <2>1 DEF StoredOf
    <3>3. SettleOf(t)' BY <1>1, <1>4, <1>5, <2>1 DEF SettleOf
    <3>4. ClaimOf(t)' BY <1>4, <1>5, <2>1, <2>4 DEF ClaimOf
    <3>5. PaidOf(t)' BY <1>1, <1>2, <1>4, <1>5, <2>1, <2>3 DEF PaidOf, Keyed
    <3> QED BY <3>1, <3>2, <3>3, <3>4, <3>5 DEF TurnOf
  <2> QED BY <1>0, <1>6, <2>1, <2>2, <2>5 DEF TurnShape
<1> QED BY <1>7, <1>8, <1>9, <1>10, <1>11

\* The attempt changes what it has in memory, or loses it.
LEMMA InMemory ==
  ASSUME IInv, TurnInv, NEW t \in Attempts,
         \/ Replay(t) \/ StartTurn(t) \/ ModelReplies(t) \/ FinishRun(t)
         \/ Cancel(t) \/ Crash(t)
  PROVE  TurnInv'
<1>0. Shape /\ TurnShape /\ TurnOf(t) /\ ProgressOf(t) BY DEF IInv, TurnInv
<1>1. EntityOf(t) /\ StoredOf(t) /\ SettleOf(t) /\ ClaimOf(t) /\ PaidOf(t) BY <1>0 DEF TurnOf
<1>2. UNCHANGED <<rows, stored, userMessages, answers>>
  BY DEF Replay, StartTurn, ModelReplies, FinishRun, Cancel, Crash, database
<1>3. ASSUME TurnOf(t)', replied' \in [Attempts -> BOOLEAN], broken' \in [Attempts -> SUBSET Awaiting],
             \A u \in Attempts \ {t} : UNCHANGED <<pc[u], run[u], replied[u], broken[u]>>
      PROVE  TurnInv'
  <2>1. Touches(t) BY <1>2, <1>3 DEF Touches
  <2>2. TurnShape' BY <1>0, <1>2, <1>3 DEF TurnShape
  <2> QED BY <1>3, <2>1, <2>2, OthersKept DEF TurnInv
<1>4. CASE Replay(t)
  <2>1. /\ pc[t] = "claim" /\ pc'[t] = "returned" /\ \A u \in Attempts \ {t} : pc'[u] = pc[u]
        /\ UNCHANGED <<run, replied, broken>>
    BY <1>0, <1>4 DEF Replay, Goto, Shape
  <2>2. TurnOf(t)'
    BY <1>0, <1>1, <1>2, <2>1 DEF TurnOf, EntityOf, StoredOf, SettleOf, ClaimOf, PaidOf, ProgressOf
  <2> QED BY <1>0, <1>3, <2>1, <2>2 DEF TurnShape
<1>5. CASE StartTurn(t)
  <2>1. /\ pc[t] = "start" /\ pc'[t] = "start_commit"
        /\ \A u \in Attempts \ {t} : pc'[u] = pc[u] /\ run'[u] = run[u]
        /\ run'[t] = Planned(run[t])
        /\ UNCHANGED <<replied, broken>>
    BY <1>0, <1>5 DEF StartTurn, Goto, Shape
  <2>2. run'[t] = PlannedRun(run[t].maxSteps)
    BY <1>1, <2>1, TurnSteps DEF EntityOf
  <2>3. EntityOf(t)' BY <1>1, <2>1, <2>2 DEF EntityOf, PlannedRun
  <2>4. TurnOf(t)'
    BY <1>1, <1>2, <2>1, <2>3 DEF TurnOf, StoredOf, SettleOf, ClaimOf, PaidOf, Keyed
  <2> QED BY <1>0, <1>3, <2>1, <2>4 DEF TurnShape
<1>6. CASE ModelReplies(t)
  <2>1. /\ pc[t] = "calling" /\ pc'[t] = "finish"
        /\ \A u \in Attempts \ {t} : pc'[u] = pc[u] /\ replied'[u] = replied[u]
        /\ replied' \in [Attempts -> BOOLEAN]
        /\ UNCHANGED <<run, broken>>
    BY <1>0, <1>6 DEF ModelReplies, Goto, Shape, TurnShape
  <2>2. TurnOf(t)'
    BY <1>1, <1>2, <2>1 DEF TurnOf, EntityOf, StoredOf, SettleOf, ClaimOf, PaidOf, Keyed
  <2> QED BY <1>0, <1>3, <2>1, <2>2 DEF TurnShape
<1>7. CASE FinishRun(t)
  <2>1. /\ pc[t] = "finish" /\ pc'[t] = "finish_commit"
        /\ \A u \in Attempts \ {t} : pc'[u] = pc[u] /\ run'[u] = run[u]
        /\ run'[t] = Finished(Recorded(run[t], "validation"))
        /\ UNCHANGED <<replied, broken>>
    BY <1>0, <1>7 DEF FinishRun, Goto, Shape
  <2>2. run'[t] = FinishedRun(run[t].maxSteps)
    BY <1>1, <2>1, TurnSteps DEF EntityOf
  <2>3. EntityOf(t)' BY <1>1, <2>1, <2>2 DEF EntityOf, FinishedRun
  <2>4. TurnOf(t)'
    BY <1>1, <1>2, <2>1, <2>3 DEF TurnOf, StoredOf, SettleOf, ClaimOf, PaidOf, Keyed
  <2> QED BY <1>0, <1>3, <2>1, <2>4 DEF TurnShape
<1>8. CASE Cancel(t) \/ Crash(t)
  <2>1. /\ pc'[t] \in {"cancelled", "gone"} /\ \A u \in Attempts \ {t} : pc'[u] = pc[u]
        /\ Forget(t)
    BY <1>0, <1>8 DEF Cancel, Crash, Goto, Shape
  <2>2. /\ run'[t].maxSteps = run[t].maxSteps /\ replied'[t] = FALSE
        /\ \A u \in Attempts \ {t} : UNCHANGED <<run[u], replied[u], broken[u]>>
        /\ replied' \in [Attempts -> BOOLEAN] /\ broken' \in [Attempts -> SUBSET Awaiting]
    BY <1>0, <2>1 DEF Forget, Shape, TurnShape, NewRun
  <2>3. TurnOf(t)'
    BY <1>1, <1>2, <2>1, <2>2 DEF TurnOf, EntityOf, StoredOf, SettleOf, ClaimOf, PaidOf
  <2> QED BY <1>3, <2>1, <2>2, <2>3
<1> QED BY <1>4, <1>5, <1>6, <1>7, <1>8

\* TurnInv is inductive, given IInv.
THEOREM TurnInvariance == Spec => []TurnInv
<1>1. Init => TurnInv
  <2> SUFFICES ASSUME Init PROVE TurnInv OBVIOUS
  <2>1. TurnShape BY DEF Init, TurnShape
  <2>2. ASSUME NEW t \in Attempts PROVE TurnOf(t)
    <3>1. PICK limit \in Limits : run = [u \in Attempts |-> NewRun(limit[u])] BY DEF Init
    <3>2. limit \in [Attempts -> StepLimits] BY CommandLimitsAssumption
    <3>3. run[t] = NewRun(limit[t]) /\ limit[t] \in StepLimits BY <3>1, <3>2
    <3>4. EntityOf(t) BY <3>3 DEF Init, EntityOf, NewRun
    <3>5. StoredOf(t) /\ SettleOf(t) /\ ClaimOf(t) /\ PaidOf(t)
      BY DEF Init, StoredOf, SettleOf, ClaimOf, PaidOf
    <3> QED BY <3>4, <3>5 DEF TurnOf
  <2> QED BY <2>1, <2>2 DEF TurnInv
<1>2. IInv /\ TurnInv /\ [Next]_vars => TurnInv'
  <2> SUFFICES ASSUME IInv, TurnInv, [Next]_vars PROVE TurnInv' OBVIOUS
  <2>1. CASE UNCHANGED <<rows, stored, userMessages, answers, pc, run, replied, broken>>
    <3>1. TurnShape' BY <2>1 DEF TurnInv, TurnShape
    <3>2. ASSUME NEW t \in Attempts PROVE TurnOf(t)'
      BY <2>1 DEF TurnInv, TurnOf, EntityOf, StoredOf, SettleOf, ClaimOf, PaidOf, Keyed, Owns
    <3> QED BY <3>1, <3>2 DEF TurnInv
  <2>2. CASE \/ \E status \in {"archived", "deleted"} : CloseConversation(status)
             \/ \E b \in BOOLEAN : SetBanned(b)
             \/ Tick
             \/ UNCHANGED vars
    BY <2>1, <2>2 DEF CloseConversation, SetBanned, Tick, vars, database, locals, memory
  <2>3. ASSUME NEW t \in Attempts, Step(t) PROVE TurnInv'
    BY <2>3, MovingOn, UnitsOfWork, InMemory DEF Step
  <2>4. ASSUME NEW t \in Attempts,
               \/ Begin(t) \/ RefuseInput(t) \/ ModelReplies(t) \/ ModelFails(t)
               \/ Cancel(t) \/ Crash(t)
        PROVE  TurnInv'
    BY <2>4, MovingOn, InMemory
  <2> QED BY <2>2, <2>3, <2>4 DEF Next
<1> QED BY <1>1, <1>2, Invariance, PTL DEF Spec

\* The rows of a run are whole, and their last says how the run ended.
THEOREM RunsWellFormed == Spec => []StoredRunsWellFormed
<1>1. TurnInv => StoredRunsWellFormed
  <2> SUFFICES ASSUME TurnInv, NEW t \in Attempts, stored[t] # NoRun
               PROVE  /\ Gapless(stored[t])
                      /\ \A x \in stored[t].steps :
                            x.type = (CASE stored[t].status = "succeeded" -> "final_response"
                                        [] stored[t].status = "failed" -> "error"
                                        [] OTHER -> "none")
                            <=> stored[t].status \in TerminalStatuses
                                /\ x.index = Cardinality(stored[t].steps)
    BY DEF StoredRunsWellFormed
  <2>1. \/ stored[t].status = "running" /\ stored[t].steps = PlannedRows
        \/ stored[t].status = "succeeded" /\ stored[t].steps = FinishedRows
        \/ stored[t].status = "failed" /\ stored[t].steps = FailedRows
    BY DEF TurnInv, TurnOf, StoredOf
  <2>2. CASE stored[t].status = "running" /\ stored[t].steps = PlannedRows
    BY <2>2, RowCounts DEF Gapless, PlannedRows, StepOf, TerminalStatuses
  <2>3. CASE stored[t].status = "succeeded" /\ stored[t].steps = FinishedRows
    BY <2>3, RowCounts DEF Gapless, FinishedRows, PlannedRows, StepOf, TerminalStatuses
  <2>4. CASE stored[t].status = "failed" /\ stored[t].steps = FailedRows
    BY <2>4, RowCounts DEF Gapless, FailedRows, PlannedRows, StepOf, TerminalStatuses
  <2> QED BY <2>1, <2>2, <2>3, <2>4
<1> QED BY <1>1, TurnInvariance, PTL

\* The except clause of execute() settles the run of every turn that fails,
\* unless the database breaks a unit of work.
THEOREM SettledRuns == Spec => []RunsSettle
<1>1. TurnInv => RunsSettle
  BY DEF TurnInv, TurnOf, SettleOf, RunsSettle, EndedSound, Ended
<1> QED BY <1>1, TurnInvariance, PTL

\* ... and its claim.
THEOREM SettledClaims == Spec => []StartedTurnsSettleClaim
<1>1. IInv /\ TurnInv => StartedTurnsSettleClaim
  <2> SUFFICES ASSUME IInv, TurnInv, NEW t \in Attempts,
                      EndedSound(t, {"start_commit", "fail_claim"}), userMessages[t] > 0
               PROVE  ~ Owns(t)
    BY DEF StartedTurnsSettleClaim
  <2>1. ClaimOf(t) /\ ReplyOf(t) BY DEF IInv, TurnInv, TurnOf
  <2>2. CASE pc[t] = "returned" BY <2>1, <2>2 DEF ReplyOf, Owns, OwnedBy
  <2>3. CASE pc[t] = "refused" BY <2>1, <2>3 DEF ClaimOf
  <2>4. CASE pc[t] = "error" BY <2>1, <2>4 DEF ClaimOf, EndedSound
  <2> QED BY <2>2, <2>3, <2>4 DEF EndedSound, Ended
<1> QED BY <1>1, Invariance, TurnInvariance, PTL

\* No answer of the model is lost by the turn itself.
THEOREM PaidAnswersKept == Spec => []PaidAnswerKept
<1>1. TurnInv => PaidAnswerKept
  <2> SUFFICES ASSUME TurnInv, NEW t \in Attempts, EndedSound(t, {"finish_commit"}), replied[t],
                      run[t].maxSteps > 2
               PROVE  answers[t] = 1 \/ (Keyed(t) /\ rows[KeyOf[t]].token # t)
    BY DEF PaidAnswerKept
  <2>1. PaidOf(t) BY DEF TurnInv, TurnOf
  <2> QED BY <2>1 DEF PaidOf, EndedSound, Ended
<1> QED BY <1>1, TurnInvariance, PTL
=============================================================================
