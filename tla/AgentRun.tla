------------------------------ MODULE AgentRun ------------------------------
(***************************************************************************)
(* One agent run in memory and in the database, under any sequence of the  *)
(* operations of the entity and of its repository.  An operation that      *)
(* raises changes nothing, so it is not a step.  A unit of work that fails *)
(* leaves the rows as they were and the entity as it was: the entity may   *)
(* be ahead of the rows for ever, or be dropped and loaded again.          *)
(***************************************************************************)
EXTENDS AgentRunEntity

CONSTANT MaxRecorded    \* bound on the steps that record_step() adds to a run

ASSUME MaxRecordedAssumption == MaxRecorded \in Nat

VARIABLES
    run,      \* the entity
    stored    \* the rows

vars == <<run, stored>>

Init == run \in {NewRun(limit) : limit \in StepLimits} /\ stored = NoRun

Start == CanStart(run) /\ run' = Started(run) /\ UNCHANGED stored

\* record_step() takes any type: one that says how a run ended is exempt from the
\* budget and does not end the run.
RecordStep(type) == /\ CanRecord(run, type)
                    /\ Len(run.steps) < MaxRecorded
                    /\ run' = Recorded(run, type)
                    /\ UNCHANGED stored

Finish == CanFinish(run) /\ run' = Finished(run) /\ UNCHANGED stored

Fail == CanFail(run) /\ run' = Failed(run) /\ UNCHANGED stored

\* The run is added once; a second add violates the primary key.
Add == stored = NoRun /\ stored' = Added(run) /\ UNCHANGED run

\* save() raises agent_run_not_found without a row.
Save == stored # NoRun /\ stored' = Saved(stored, run) /\ UNCHANGED run

\* The entity is dropped, by an error or a restart, and get() loads the rows.
Reload == stored # NoRun /\ run' = Loaded(stored) /\ UNCHANGED stored

Next == \/ Start \/ Finish \/ Fail
        \/ \E type \in StepTypes : RecordStep(type)
        \/ Add \/ Save \/ Reload

Spec == Init /\ [][Next]_vars

-----------------------------------------------------------------------------
\* Every variable has its type.
TypeOK == /\ run \in Run
          /\ stored \in StoredRun

\* A run never does more work than it was granted, in memory or in its rows,
\* however often it is saved and loaded again: beyond its limit there are only
\* steps that say how it ended, and no more tool calls than it may make.
BudgetRespected ==
    /\ \A i \in DOMAIN run.steps : run.steps[i] \in WorkStepTypes => i <= run.maxSteps
    /\ ToolCallCount(run) <= MaxToolCalls
    /\ \A x \in stored.steps : x.type \in WorkStepTypes => x.index <= stored.maxSteps
    /\ Cardinality({x \in stored.steps : x.type = "tool_call"}) <= MaxToolCalls

\* The rows are an unbroken prefix of the entity's steps: nothing is lost,
\* renumbered or written twice by add, save and load.
StoredStepsArePrefix ==
    /\ Gapless(stored)
    /\ \A x \in stored.steps : x.index <= Len(run.steps) /\ run.steps[x.index] = x.type

\* A run whose end has reached the database keeps that end.
StoredEndIsFinal ==
    [][stored.status \in TerminalStatuses => stored' = stored]_vars
=============================================================================
