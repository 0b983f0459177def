\* Runs that are granted one step and four, two of them tool calls: every order of
\* steps up to and past both budgets, and closing steps beyond them.
CONSTANTS
    StepLimits = {1, 4}
    MaxToolCalls = 2
    MaxRecorded = 6
SPECIFICATION Spec
INVARIANTS
    BudgetRespected
    StoredStepsArePrefix
PROPERTY StoredEndIsFinal
