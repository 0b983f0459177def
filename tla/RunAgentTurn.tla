---------------------------- MODULE RunAgentTurn ----------------------------
(***************************************************************************)
(* RunAgentTurn.execute, for several concurrent calls on one conversation. *)
(* Every call is an attempt at a turn; attempts that carry the same        *)
(* idempotency key are retries of each other.                              *)
(*                                                                         *)
(* One action is one unit of work, or the code between two of them.  The   *)
(* idempotency repository appears by its contract (IdempotencyClaim): the  *)
(* statement-level model IdempotencyRepository is shown to implement it.   *)
(*                                                                         *)
(* The texts are left out.  Whether an input is acceptable, whether the    *)
(* context leaves room for it and what the model replies is chosen freely. *)
(***************************************************************************)
EXTENDS IdempotencyRecord, AgentRunEntity

CONSTANTS
    Keys,
    NoKey,          \* the value of a missing idempotency_key
    KeyOf,          \* the key of each attempt, or NoKey
    Limits,         \* the max_steps the commands of the attempts may carry
    Entitled,       \* attempts by the registered owner of the conversation
    MaxSeconds,     \* AgentLimits.max_execution_seconds
    Faults,         \* the failures of the environment that happen
    MaxNow          \* bound on the clock

ASSUME KeyOfAssumption == NoKey \notin Keys /\ KeyOf \in [Attempts -> Keys \union {NoKey}]

ASSUME CommandLimitsAssumption == Limits \subseteq [Attempts -> StepLimits]

ASSUME EntitledAssumption == Entitled \subseteq Attempts

ASSUME MaxSecondsAssumption == MaxSeconds \in Nat \ {0} /\ MaxNow \in Nat

ASSUME FaultsAssumption == Faults \subseteq {"database", "cancel", "crash"}

VARIABLES
    rows,           \* idempotency_records
    stored,         \* agent_runs and agent_steps, per attempt
    userMessages,   \* user messages stored by each attempt
    answers,        \* assistant messages stored by each attempt
    conversation,   \* the status of the conversation
    banned,         \* the status of its owner
    now,            \* utc_now()
    pc,             \* where each attempt is in execute()
    run,            \* the AgentRun entity of each attempt, with the limits of its command
    startedAt,      \* run.started_at
    replied,        \* the model gave the attempt a usable answer
    result,         \* the attempt whose answer execute() returned
    broken          \* history: the units of work of each attempt, by their place
                    \* in execute(), whose commit failed or was not acknowledged

database == <<rows, stored, userMessages, answers>>
owner == <<conversation, banned>>
memory == <<run, startedAt, replied, result>>
locals == <<memory, broken>>
vars == <<database, owner, now, pc, locals>>

\* execute() has ended within the process.
Ended == {"returned", "refused", "error", "cancelled"}

\* Places where the call is suspended at an await.
Awaiting == {"claim", "start", "start_commit", "calling", "finish_commit",
             "fail_run", "fail_claim"}

PCs == {"idle", "build", "finish", "gone"} \union Awaiting \union Ended

Keyed(t) == KeyOf[t] # NoKey

\* The attempt presents a token, and the row still carries it.
Owns(t) == Keyed(t) /\ OwnedBy(rows[KeyOf[t]], t)

\* Every variable has its type.
TypeOK == /\ rows \in [Keys -> Row]
          /\ stored \in [Attempts -> StoredRun]
          /\ userMessages \in [Attempts -> Nat]
          /\ answers \in [Attempts -> Nat]
          /\ conversation \in {"active", "archived", "deleted"}
          /\ banned \in BOOLEAN
          /\ now \in Nat
          /\ pc \in [Attempts -> PCs]
          /\ run \in [Attempts -> Run]
          /\ startedAt \in [Attempts -> Nat]
          /\ replied \in [Attempts -> BOOLEAN]
          /\ result \in [Attempts -> Attempts \union {Nobody}]
          /\ broken \in [Attempts -> SUBSET Awaiting]

Init == /\ rows = [k \in Keys |-> NoRow]
        /\ stored = [t \in Attempts |-> NoRun]
        /\ userMessages = [t \in Attempts |-> 0]
        /\ answers = [t \in Attempts |-> 0]
        /\ conversation = "active"
        /\ banned = FALSE
        /\ now = 0
        /\ pc = [t \in Attempts |-> "idle"]
        /\ \E limit \in Limits : run = [t \in Attempts |-> NewRun(limit[t])]
        /\ startedAt = [t \in Attempts |-> 0]
        /\ replied = [t \in Attempts |-> FALSE]
        /\ result = [t \in Attempts |-> Nobody]
        /\ broken = [t \in Attempts |-> {}]

-----------------------------------------------------------------------------
Goto(t, label) == pc' = [pc EXCEPT ![t] = label]

SetRow(t, r) == rows' = [rows EXCEPT ![KeyOf[t]] = r]

\* How a unit of work that would commit ends: it commits and the caller goes
\* on; it commits but the caller gets an error; or it is rolled back.
Outcomes == {"committed"} \union
            (IF "database" \in Faults THEN {"unacknowledged", "rolled_back"} ELSE {})

Note(t, outcome) ==
    broken' = IF outcome = "committed" THEN broken ELSE [broken EXCEPT ![t] = @ \union {pc[t]}]

-----------------------------------------------------------------------------
\* _validate_input accepts the input.
Begin(t) ==
    /\ pc[t] = "idle"
    /\ Goto(t, IF Keyed(t) THEN "claim" ELSE "start")
    /\ UNCHANGED <<database, owner, now, locals>>

\* _validate_input raises.
RefuseInput(t) ==
    /\ pc[t] = "idle"
    /\ Goto(t, "refused")
    /\ UNCHANGED <<database, owner, now, locals>>

\* _check_idempotency obtains the claim, on a new key or on a stale claim.
Claim(t, outcome) ==
    /\ pc[t] = "claim"
    /\ LET r == rows[KeyOf[t]]
       IN r = NoRow \/ (r.state = "started" /\ Expired(r, now))
    /\ IF outcome = "rolled_back" THEN rows' = rows ELSE SetRow(t, Claimed(t, now))
    /\ Goto(t, IF outcome = "committed" THEN "start" ELSE "error")
    /\ Note(t, outcome)
    /\ UNCHANGED <<stored, userMessages, answers, owner, now, memory>>

\* Mutant of Replay: a FAILED record is replayed like a COMPLETED one.
ReplaySettled(t) ==
    /\ pc[t] = "claim"
    /\ IsSettled(rows[KeyOf[t]])
    /\ result' = [result EXCEPT ![t] = rows[KeyOf[t]].result]
    /\ Goto(t, "returned")
    /\ UNCHANGED <<database, owner, now, run, startedAt, replied, broken>>

\* _check_idempotency returns the stored result of a completed attempt.
Replay(t) ==
    /\ pc[t] = "claim"
    /\ rows[KeyOf[t]].state = "completed"
    /\ result' = [result EXCEPT ![t] = rows[KeyOf[t]].result]
    /\ Goto(t, "returned")
    /\ UNCHANGED <<database, owner, now, run, startedAt, replied, broken>>

\* _check_idempotency raises: the key has failed, or another attempt holds it.
RefuseKey(t) ==
    /\ pc[t] = "claim"
    /\ LET r == rows[KeyOf[t]]
       IN r.state = "failed" \/ (r.state = "started" /\ ~ Expired(r, now))
    /\ Goto(t, "refused")
    /\ UNCHANGED <<database, owner, now, locals>>

-----------------------------------------------------------------------------
\* The entity at the end of _start_turn, and the budget it takes.
Planned(r) == Recorded(Recorded(Started(r), "planning"), "model_call")

CanPlan(r) == /\ CanRecord(Started(r), "planning")
              /\ CanRecord(Recorded(Started(r), "planning"), "model_call")

Admitted(t) == t \in Entitled /\ ~ banned /\ conversation = "active" /\ CanPlan(run[t])

\* _start_turn resolves the actor and the conversation, appends the user
\* message to the aggregate and starts the run, all in memory.
StartTurn(t) ==
    /\ pc[t] = "start"
    /\ Admitted(t)
    /\ run' = [run EXCEPT ![t] = Planned(@)]
    /\ startedAt' = [startedAt EXCEPT ![t] = now]
    /\ Goto(t, "start_commit")
    /\ UNCHANGED <<database, owner, now, replied, result, broken>>

\* _start_turn raises: unknown or banned actor, somebody else's conversation,
\* a closed conversation, or a step budget too small for the first two steps.
\* It is called outside the try block of execute(), so nothing is settled.
RefuseStart(t) ==
    /\ pc[t] = "start"
    /\ ~ Admitted(t)
    /\ Goto(t, "error")
    /\ UNCHANGED <<database, owner, now, locals>>

\* The unit of work of _start_turn ends: the user message and the run.
StartCommit(t, outcome) ==
    /\ pc[t] = "start_commit"
    /\ IF outcome = "rolled_back"
       THEN UNCHANGED <<stored, userMessages>>
       ELSE /\ stored' = [stored EXCEPT ![t] = Added(run[t])]
            /\ userMessages' = [userMessages EXCEPT ![t] = @ + 1]
    /\ Goto(t, IF outcome = "committed" THEN "build" ELSE "error")
    /\ Note(t, outcome)
    /\ UNCHANGED <<rows, answers, owner, now, memory>>

-----------------------------------------------------------------------------
Deadline(t) == startedAt[t] + MaxSeconds

\* _build_request finds room for the context and there is time left.
CallModel(t) ==
    /\ pc[t] = "build"
    /\ now < Deadline(t)
    /\ Goto(t, "calling")
    /\ UNCHANGED <<database, owner, now, locals>>

\* _build_request raises agent_context_budget_exhausted, or _call_model raises
\* agent_run_deadline_exceeded.
RefuseCall(t) ==
    /\ pc[t] = "build"
    /\ Goto(t, "fail_run")
    /\ UNCHANGED <<database, owner, now, locals>>

\* The provider answers and _validate_response accepts the answer.  A reply
\* that is there when the timer fires may still win.
ModelReplies(t) ==
    /\ pc[t] = "calling"
    /\ replied' = [replied EXCEPT ![t] = TRUE]
    /\ Goto(t, "finish")
    /\ UNCHANGED <<database, owner, now, run, startedAt, result, broken>>

\* The provider raises, asks for a tool, or answers with nothing.
ModelFails(t) ==
    /\ pc[t] = "calling"
    /\ Goto(t, "fail_run")
    /\ UNCHANGED <<database, owner, now, locals>>

\* Mutant of ModelTimesOut: the timeout is swallowed and the call goes on.
ModelTimeoutSwallowed(t) ==
    /\ pc[t] = "calling"
    /\ now >= Deadline(t)
    /\ Goto(t, "calling")
    /\ UNCHANGED <<database, owner, now, locals>>

\* asyncio.timeout ends the call.
ModelTimesOut(t) ==
    /\ pc[t] = "calling"
    /\ now >= Deadline(t)
    /\ Goto(t, "fail_run")
    /\ UNCHANGED <<database, owner, now, locals>>

-----------------------------------------------------------------------------
\* The head of _finish_turn: the aggregate, as it was loaded by _start_turn,
\* accepts the assistant message; the entity records VALIDATION and finishes.
FinishRun(t) ==
    /\ pc[t] = "finish"
    /\ CanRecord(run[t], "validation")
    /\ CanFinish(Recorded(run[t], "validation"))
    /\ run' = [run EXCEPT ![t] = Finished(Recorded(@, "validation"))]
    /\ Goto(t, "finish_commit")
    /\ UNCHANGED <<database, owner, now, startedAt, replied, result, broken>>

\* The step budget refuses VALIDATION (or the step that closes the run).
RefuseFinish(t) ==
    /\ pc[t] = "finish"
    /\ ~ (CanRecord(run[t], "validation") /\ CanFinish(Recorded(run[t], "validation")))
    /\ Goto(t, "fail_run")
    /\ UNCHANGED <<database, owner, now, locals>>

\* Mutant of FinishCommit: the claim is settled if it is still held, and the
\* answer is stored either way.
FinishCommitUnfenced(t, outcome) ==
    /\ pc[t] = "finish_commit"
    /\ outcome = "committed"
    /\ answers' = [answers EXCEPT ![t] = @ + 1]
    /\ stored' = [stored EXCEPT ![t] = Saved(@, run[t])]
    /\ IF Owns(t) THEN SetRow(t, Settled(rows[KeyOf[t]], "completed", t)) ELSE rows' = rows
    /\ Goto(t, "returned")
    /\ result' = [result EXCEPT ![t] = t]
    /\ Note(t, outcome)
    /\ UNCHANGED <<userMessages, owner, now, run, startedAt, replied>>

\* The unit of work of _finish_turn: the message, the run and the claim.
FinishCommit(t, outcome) ==
    /\ pc[t] = "finish_commit"
    /\ Keyed(t) => Owns(t)
    /\ IF outcome = "rolled_back"
       THEN UNCHANGED database
       ELSE /\ answers' = [answers EXCEPT ![t] = @ + 1]
            /\ stored' = [stored EXCEPT ![t] = Saved(@, run[t])]
            /\ IF Keyed(t) THEN SetRow(t, Settled(rows[KeyOf[t]], "completed", t))
                           ELSE rows' = rows
            /\ UNCHANGED userMessages
    /\ IF outcome = "committed"
       THEN Goto(t, "returned") /\ result' = [result EXCEPT ![t] = t]
       ELSE Goto(t, "fail_run") /\ result' = result
    /\ Note(t, outcome)
    /\ UNCHANGED <<owner, now, run, startedAt, replied>>

\* complete() raises idempotency_claim_lost and the unit of work rolls back.
RefuseCommit(t) ==
    /\ pc[t] = "finish_commit"
    /\ Keyed(t) /\ ~ Owns(t)
    /\ Goto(t, "fail_run")
    /\ UNCHANGED <<database, owner, now, locals>>

-----------------------------------------------------------------------------
\* Mutant of FailRun: the entity in memory decides, not the stored run.
FailRunInMemory(t, outcome) ==
    /\ pc[t] = "fail_run"
    /\ IF outcome = "rolled_back" \/ ~ CanFail(run[t])
       THEN stored' = stored
       ELSE stored' = [stored EXCEPT ![t] = Saved(@, Failed(run[t]))]
    /\ Goto(t, IF Keyed(t) THEN "fail_claim" ELSE "error")
    /\ Note(t, outcome)
    /\ UNCHANGED <<rows, userMessages, answers, owner, now, memory>>

\* Mutant of FailRun: a run that has ended is failed too.
FailRunUnchecked(t, outcome) ==
    /\ pc[t] = "fail_run"
    /\ stored' = [stored EXCEPT ![t] = Saved(@, Failed(Loaded(@)))]
    /\ Goto(t, IF Keyed(t) THEN "fail_claim" ELSE "error")
    /\ Note(t, outcome)
    /\ UNCHANGED <<rows, userMessages, answers, owner, now, memory>>

\* Mutant of FailRun: the claim is left to expire.
FailRunOnly(t, outcome) ==
    /\ pc[t] = "fail_run"
    /\ IF outcome = "rolled_back" \/ ~ CanFail(Loaded(stored[t]))
       THEN stored' = stored
       ELSE stored' = [stored EXCEPT ![t] = Saved(@, Failed(Loaded(@)))]
    /\ Goto(t, "error")
    /\ Note(t, outcome)
    /\ UNCHANGED <<rows, userMessages, answers, owner, now, memory>>

\* _settle_failed_run: the stored run is failed, unless it has ended.  A
\* failure of the unit of work is logged and swallowed.
FailRun(t, outcome) ==
    /\ pc[t] = "fail_run"
    /\ IF outcome = "rolled_back" \/ ~ CanFail(Loaded(stored[t]))
       THEN stored' = stored
       ELSE stored' = [stored EXCEPT ![t] = Saved(@, Failed(Loaded(@)))]
    /\ Goto(t, IF Keyed(t) THEN "fail_claim" ELSE "error")
    /\ Note(t, outcome)
    /\ UNCHANGED <<rows, userMessages, answers, owner, now, memory>>

\* Mutant of FailClaim: the claim of the key is failed, whoever holds it.
FailClaimUnfenced(t, outcome) ==
    /\ pc[t] = "fail_claim"
    /\ IF outcome = "rolled_back" \/ rows[KeyOf[t]].state # "started"
       THEN rows' = rows
       ELSE SetRow(t, Settled(rows[KeyOf[t]], "failed", t))
    /\ Goto(t, "error")
    /\ Note(t, outcome)
    /\ UNCHANGED <<stored, userMessages, answers, owner, now, memory>>

\* _settle_failed_claim: the claim is failed, unless it is lost.  Either way,
\* and also when the unit of work fails, the caller gets the original error.
FailClaim(t, outcome) ==
    /\ pc[t] = "fail_claim"
    /\ IF outcome = "rolled_back" \/ ~ Owns(t)
       THEN rows' = rows
       ELSE SetRow(t, Settled(rows[KeyOf[t]], "failed", t))
    /\ Goto(t, "error")
    /\ Note(t, outcome)
    /\ UNCHANGED <<stored, userMessages, answers, owner, now, memory>>

-----------------------------------------------------------------------------
\* The local variables of the call are lost.
Forget(t) ==
    /\ run' = [run EXCEPT ![t] = NewRun(@.maxSteps)]
    /\ startedAt' = [startedAt EXCEPT ![t] = 0]
    /\ replied' = [replied EXCEPT ![t] = FALSE]
    /\ broken' = [broken EXCEPT ![t] = {}]

\* The task is cancelled: CancelledError passes through `except Exception`, and
\* the open unit of work is rolled back.  (A commit that took effect although
\* its task was cancelled is an unacknowledged one.)
Cancel(t) ==
    /\ "cancel" \in Faults
    /\ pc[t] \in Awaiting
    /\ Goto(t, "cancelled")
    /\ Forget(t)
    /\ UNCHANGED <<database, owner, now, result>>

\* The process dies.
Crash(t) ==
    /\ "crash" \in Faults
    /\ pc[t] \in Awaiting \union {"build", "finish"}
    /\ Goto(t, "gone")
    /\ Forget(t)
    /\ UNCHANGED <<database, owner, now, result>>

\* ArchiveConversation and DeleteConversation, by somebody else.
CloseConversation(status) ==
    /\ \/ status = "archived" /\ conversation = "active"
       \/ status = "deleted" /\ conversation # "deleted"
    /\ conversation' = status
    /\ UNCHANGED <<database, banned, now, pc, locals>>

\* BanUser and UnbanUser.
SetBanned(b) ==
    /\ banned # b
    /\ banned' = b
    /\ UNCHANGED <<database, conversation, now, pc, locals>>

\* The clock stops at its bound, except that a call in flight gets its timeout.
Tick == /\ \/ now < MaxNow
           \/ \E t \in Attempts : pc[t] = "calling" /\ now < Deadline(t)
        /\ now' = now + 1
        /\ UNCHANGED <<database, owner, pc, locals>>

-----------------------------------------------------------------------------
\* What an attempt does by itself once it has begun.
Step(t) ==
    \/ \E outcome \in Outcomes :
          \/ Claim(t, outcome) \/ StartCommit(t, outcome)
          \/ FinishCommit(t, outcome) \/ FailRun(t, outcome) \/ FailClaim(t, outcome)
    \/ Replay(t) \/ RefuseKey(t)
    \/ StartTurn(t) \/ RefuseStart(t)
    \/ CallModel(t) \/ RefuseCall(t) \/ ModelTimesOut(t)
    \/ FinishRun(t) \/ RefuseFinish(t) \/ RefuseCommit(t)

Next == \/ \E t \in Attempts : \/ Begin(t) \/ RefuseInput(t)
                               \/ Step(t)
                               \/ ModelReplies(t) \/ ModelFails(t)
                               \/ Cancel(t) \/ Crash(t)
        \/ \E status \in {"archived", "deleted"} : CloseConversation(status)
        \/ \E b \in BOOLEAN : SetBanned(b)
        \/ Tick

Spec == Init /\ [][Next]_vars

\* The event loop runs every task and the clock advances.  Nothing makes the
\* provider reply: ModelReplies and ModelFails are not part of Step.
Fairness == WF_vars(Tick) /\ \A t \in Attempts : WF_vars(Step(t))

FairSpec == Spec /\ Fairness

-----------------------------------------------------------------------------
\* The assistant message, the SUCCEEDED run and the COMPLETED claim of an
\* attempt are one fact: all are stored or none is, across takeovers, lost
\* acknowledgements, failed settlements, cancellations and crashes.
AnswerIsAtomic ==
    \A t \in Attempts :
        /\ answers[t] = IF stored[t].status = "succeeded" THEN 1 ELSE 0
        /\ Keyed(t) => (answers[t] = 1 <=> rows[KeyOf[t]].state = "completed"
                                           /\ rows[KeyOf[t]].result = t)

\* Callers that present the same key and are given an answer are given the
\* same answer, and it is stored.
RepliesAgree ==
    \A t, u \in Attempts : pc[t] = "returned" =>
        /\ result[t] # Nobody /\ answers[result[t]] = 1
        /\ Keyed(t) /\ KeyOf[u] = KeyOf[t] /\ pc[u] = "returned" => result[u] = result[t]

\* How each key has ended, read off the idempotency records.
answered == [k \in Keys |-> IF rows[k].state = "completed" THEN rows[k].result ELSE Nobody]
givenUp == {k \in Keys : rows[k].state = "failed"}

\* What a caller is promised, read off the stored messages and the results.
Promise == INSTANCE AnswerOnce WITH messages <- answers, answer <- answered,
                                    failed <- givenUp, reply <- result

\* Through takeovers, retries, lost acknowledgements, failed settlements and
\* crashes, a key is answered or given up once and for all, and everybody who
\* presents it and is told an answer is told that one.
AnsweredOnce == Promise!Spec

\* The units of work of the turn use the idempotency records as the contract
\* of the port says: the model of the repository implements the same contract.
Claims == INSTANCE IdempotencyClaim

ClaimContract == Claims!Spec

\* The stored steps of a run have no gap and no duplicate, and the last of
\* them says how the run ended if and only if it has ended: also when the
\* entity had recorded steps that were rolled back.
StoredRunsWellFormed ==
    \A t \in Attempts : stored[t] # NoRun =>
        /\ Gapless(stored[t])
        /\ \A x \in stored[t].steps :
               x.type = (CASE stored[t].status = "succeeded" -> "final_response"
                           [] stored[t].status = "failed" -> "error"
                           [] OTHER -> "none")
               <=> stored[t].status \in TerminalStatuses
                   /\ x.index = Cardinality(stored[t].steps)

\* A run that has ended in the database keeps its end: settling a failed turn
\* does not turn a committed SUCCEEDED into FAILED.
EndIsFinal ==
    [][\A t \in Attempts : stored[t].status \in TerminalStatuses => stored'[t] = stored[t]]_vars

\* execute() has ended by itself, and the database acknowledged these units of work.
EndedSound(t, units) == pc[t] \in Ended \ {"cancelled"} /\ broken[t] \cap units = {}

\* execute() leaves its run RUNNING only if the database broke the unit of work
\* that started the turn or the one that settles the run: never because the
\* model failed or stalled, a budget ran out, the claim was lost or the
\* conversation was closed.  (A task that is cancelled or dies is another case.)
RunsSettle ==
    \A t \in Attempts :
        EndedSound(t, {"start_commit", "fail_run"}) => stored[t].status # "running"

\* Likewise for the claim: once its turn has started, execute() leaves it
\* settled or in the hands of another attempt.
StartedTurnsSettleClaim ==
    \A t \in Attempts :
        EndedSound(t, {"start_commit", "fail_claim"}) /\ userMessages[t] > 0 => ~ Owns(t)

\* An answer the model was paid for is stored, unless another attempt at the
\* key has taken the claim over, the database broke the final unit of work, or
\* the step limit of the command leaves no room for VALIDATION.
PaidAnswerKept ==
    \A t \in Attempts :
        EndedSound(t, {"finish_commit"}) /\ replied[t] /\ run[t].maxSteps > 2
            => answers[t] = 1 \/ (Keyed(t) /\ rows[KeyOf[t]].token # t)

\* When execute() has ended within the process, its claim is not left STARTED.
ClaimsSettle ==
    \A t \in Attempts : pc[t] \in Ended => ~ Owns(t)

\* When execute() has ended within the process, its run is not left RUNNING.
NoRunLeftRunning ==
    \A t \in Attempts : pc[t] \in Ended => stored[t].status # "running"

\* Every call comes to an end, unless its process dies, although the provider
\* may never reply and the database may break every unit of work.
TurnsEnd == \A t \in Attempts : pc[t] # "idle" ~> pc[t] \in Ended \union {"gone"}
=============================================================================
