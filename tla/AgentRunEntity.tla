--------------------------- MODULE AgentRunEntity ---------------------------
(***************************************************************************)
(* The AgentRun aggregate (domain/agent/entities.py) and its rows          *)
(* (repositories/agent.py), as operators: each operation of the class is a *)
(* guard, the condition under which it does not raise, and the value it    *)
(* leaves.  Identifiers, timestamps, texts and metadata are left out; the  *)
(* index of a step is its position.                                        *)
(***************************************************************************)
EXTENDS Naturals, Sequences, FiniteSets

CONSTANTS
    StepLimits,     \* the values of AgentLimits.max_steps that callers ask for
    MaxToolCalls    \* AgentLimits.max_tool_calls

\* AgentLimits.__post_init__ refuses a limit that is not positive.
ASSUME LimitsAssumption == StepLimits \subseteq Nat \ {0} /\ MaxToolCalls \in Nat \ {0}

WorkStepTypes == {"planning", "model_call", "tool_call", "tool_result", "validation"}

\* TERMINAL_STEP_TYPES: how a run ended; exempt from the step budget.
TerminalStepTypes == {"final_response", "error"}

StepTypes == WorkStepTypes \union TerminalStepTypes

TerminalStatuses == {"succeeded", "failed", "cancelled"}

Statuses == {"pending", "running"} \union TerminalStatuses

Run == [status : Statuses, steps : Seq(StepTypes), maxSteps : StepLimits]

NewRun(limit) == [status |-> "pending", steps |-> << >>, maxSteps |-> limit]

-----------------------------------------------------------------------------
ToolCallCount(r) == Cardinality({i \in DOMAIN r.steps : r.steps[i] = "tool_call"})

CanStart(r) == r.status = "pending"

Started(r) == [status |-> "running", steps |-> r.steps, maxSteps |-> r.maxSteps]

\* Mutant of WithinBudget: the comparison is off by one.
WithinBudgetOffByOne(r, type) ==
    \/ type \in TerminalStepTypes
    \/ /\ Len(r.steps) <= r.maxSteps
       /\ type = "tool_call" => ToolCallCount(r) < MaxToolCalls

\* Mutant of WithinBudget: the step that closes the run is budgeted too.
WithinBudgetNoExemption(r, type) ==
    /\ Len(r.steps) < r.maxSteps
    /\ type = "tool_call" => ToolCallCount(r) < MaxToolCalls

\* _ensure_step_budget does not raise.
WithinBudget(r, type) ==
    \/ type \in TerminalStepTypes
    \/ /\ Len(r.steps) < r.maxSteps
       /\ type = "tool_call" => ToolCallCount(r) < MaxToolCalls

CanRecord(r, type) == r.status = "running" /\ WithinBudget(r, type)

Recorded(r, type) ==
    [status |-> r.status, steps |-> Append(r.steps, type), maxSteps |-> r.maxSteps]

\* finish(): the response it is given is not empty.
CanFinish(r) == CanRecord(r, "final_response")

Finished(r) == [status   |-> "succeeded",
                steps    |-> Append(r.steps, "final_response"),
                maxSteps |-> r.maxSteps]

\* Mutant of CanFail: a terminal run may be failed again.
CanFailTwice(r) == r.status # "pending"

\* fail(): refused once terminal; records an ERROR step only while running.
CanFail(r) == /\ r.status \notin TerminalStatuses
              /\ r.status = "running" => CanRecord(r, "error")

Failed(r) == [status   |-> "failed",
              steps    |-> IF r.status = "running" THEN Append(r.steps, "error") ELSE r.steps,
              maxSteps |-> r.maxSteps]

-----------------------------------------------------------------------------
\* The rows of a run: its status and its limit, and one row per step.  "absent"
\* stands for a run that has no row.
StepRow == [index : Nat \ {0}, type : StepTypes]

NoRun == [status |-> "absent", steps |-> {}, maxSteps |-> 0]

StoredRun == [status : Statuses \union {"absent"}, steps : SUBSET StepRow,
              maxSteps : StepLimits \union {0}]

\* The rows of the steps whose index is above the given one.
StepRows(r, above) ==
    {[index |-> i, type |-> r.steps[i]] : i \in {j \in DOMAIN r.steps : j > above}}

\* add(): the run and all its steps.
Added(r) == [status |-> r.status, steps |-> StepRows(r, 0), maxSteps |-> r.maxSteps]

\* coalesce(max(index), 0) over the stored steps.
HighestIndex(s) ==
    LET indices == {x.index : x \in s.steps} \union {0}
    IN  CHOOSE n \in indices : \A i \in indices : i <= n

\* Mutant of Saved: the first new step is taken for stored.
SavedSkipsOne(s, r) == [s EXCEPT !.status = r.status,
                                 !.steps = @ \union StepRows(r, HighestIndex(s) + 1)]

\* save(): the status, and the steps above the highest stored index; the limit
\* is written by add() only.
Saved(s, r) == [status   |-> r.status,
                steps    |-> s.steps \union StepRows(r, HighestIndex(s)),
                maxSteps |-> s.maxSteps]

\* _to_domain(): the steps in the order of their index.
Loaded(s) == [status   |-> s.status,
              steps    |-> [i \in 1 .. Cardinality(s.steps) |->
                                (CHOOSE x \in s.steps : x.index = i).type],
              maxSteps |-> s.maxSteps]

\* The stored steps are numbered 1, 2, ... without gap or duplicate.
Gapless(s) == {x.index : x \in s.steps} = 1 .. Cardinality(s.steps)
=============================================================================
