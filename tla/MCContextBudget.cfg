SPECIFICATION Spec
CONSTANTS
    Texts = {0, 1, 4, 9, 10}
    Contents = {3, 10}
    SystemPrompts = {3, 7}
    Windows = {0, 1, 2, 3, 4}
    Budgets = {6, 11, 14, 20}
    MaxInputCharacters = 9
    MaxMessageWindow = 3
    MaxHistory = 4
INVARIANTS
    ContextFits
    ContextIsNewest
    ContextIsMaximal
    ExhaustedOnlyByPrompt
    HistoryIsLoaded
