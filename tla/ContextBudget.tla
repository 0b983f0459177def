--------------------------- MODULE ContextBudget ----------------------------
(***************************************************************************)
(* What a turn sends to the model: _validate_input and _build_request of   *)
(* RunAgentTurn, the message window of the Conversation aggregate and the  *)
(* token budget of domain/agent/context.py, over successive turns of one   *)
(* conversation.  Other turns of the conversation, in this process or in   *)
(* another, store their messages at any moment of this one: nothing locks  *)
(* the conversation.                                                       *)
(*                                                                         *)
(* A text is represented by its length in characters, after strip(); a     *)
(* history by the sequence of those lengths, oldest first.                 *)
(***************************************************************************)
EXTENDS Naturals, Sequences

CONSTANTS
    Texts,                \* lengths of the texts callers send, 0 if blank
    Contents,             \* lengths of the answers, and of what other turns store
    SystemPrompts,        \* lengths of the configured system prompt
    Windows,              \* context_window of a command
    Budgets,              \* AgentLimits.max_context_tokens
    MaxInputCharacters,   \* MAX_INPUT_CHARACTERS
    MaxMessageWindow,     \* MAX_MESSAGE_WINDOW
    MaxHistory            \* bound on the length of the conversation

ASSUME LengthsAssumption ==
    /\ Texts \subseteq Nat
    /\ Contents \subseteq Nat \ {0}
    /\ SystemPrompts \subseteq Nat

ASSUME SettingsAssumption ==
    /\ Windows \subseteq Nat
    /\ Budgets \subseteq Nat \ {0}
    /\ {MaxInputCharacters, MaxMessageWindow, MaxHistory} \subseteq Nat \ {0}

VARIABLES
    system,         \* the system prompt
    history,        \* the stored messages, by created_at
    command,        \* the command being executed
    conversation,   \* the aggregate _start_turn loaded
    seen,           \* the stored messages when the window was read, and the input
    remaining,      \* select_within_token_budget: tokens left
    selected,       \* select_within_token_budget: messages kept
    pc

vars == <<system, history, command, conversation, seen, remaining, selected, pc>>

CharsPerToken == 3

MessageTokenOverhead == 4

\* estimate_tokens: the quotient is rounded up.
EstimateTokens(length) ==
    (length + CharsPerToken - 1) \div CharsPerToken + MessageTokenOverhead

\* messages[-n:]
Newest(messages, n) ==
    SubSeq(messages, IF n < Len(messages) THEN Len(messages) - n + 1 ELSE 1, Len(messages))

Command == [text : Texts, window : Windows, budget : Budgets]

\* history_window = None: the aggregate holds the whole history.
Whole == 0

NoConversation == [messages |-> << >>, window |-> Whole]

\* Mutant of Loaded: the page is read from the oldest message on.
LoadedOldest(messages, limit) ==
    [messages |-> SubSeq(messages, 1, IF limit < Len(messages) THEN limit ELSE Len(messages)),
     window   |-> IF Len(messages) >= limit THEN limit ELSE Whole]

\* _load_messages and _to_domain: only a full page is evidence of older messages.
Loaded(messages, limit) ==
    [messages |-> Newest(messages, limit),
     window   |-> IF Len(messages) >= limit THEN limit ELSE Whole]

\* Conversation.append_message on an active conversation.
Appended(c, message) ==
    [messages |-> Append(c.messages, message),
     window   |-> IF c.window = Whole THEN Whole ELSE c.window + 1]

\* Conversation.recent_messages does not raise.
CanRecall(c, limit) == limit > 0 /\ (c.window # Whole => limit <= c.window)

\* _validate_input does not raise.
Acceptable(c) == /\ c.text > 0
                 /\ c.text <= MaxInputCharacters
                 /\ c.window > 0 /\ c.window <= MaxMessageWindow
                 /\ EstimateTokens(c.text) <= c.budget

-----------------------------------------------------------------------------
Init == /\ system \in SystemPrompts
        /\ history = << >>
        /\ command \in Command
        /\ conversation = NoConversation
        /\ seen = << >>
        /\ remaining = 0
        /\ selected = << >>
        /\ pc = "idle"

\* The INSERT of a message commits.  Its place is that of its created_at, which
\* its writer's clock assigned before: messages do not commit in that order, and
\* the clocks of several processes differ.
Insert(message) ==
    \E older \in 0 .. Len(history) :
        history' = SubSeq(history, 1, older) \o <<message>>
                       \o SubSeq(history, older + 1, Len(history))

\* This turn has still to store its input.
Unstored == IF pc \in {"start", "store"} THEN 1 ELSE 0

\* Another turn stores its input or its answer.  (The bound keeps room for the
\* input of this one.)
StoreMessage(content) ==
    /\ Len(history) + Unstored < MaxHistory
    /\ Insert(content)
    /\ UNCHANGED <<system, command, conversation, seen, remaining, selected, pc>>

\* _validate_input of the next command.
ValidateInput(c) ==
    /\ pc = "idle"
    /\ Acceptable(c) => Len(history) < MaxHistory
    /\ command' = c
    /\ pc' = IF Acceptable(c) THEN "start" ELSE "idle"
    /\ UNCHANGED <<system, history, conversation, seen, remaining, selected>>

\* Mutant of LoadWindow: the conversation is loaded with a default window.
LoadDefaultWindow ==
    /\ pc = "start"
    /\ conversation' = Appended(Loaded(history, 1), command.text)
    /\ seen' = Append(history, command.text)
    /\ pc' = "store"
    /\ UNCHANGED <<system, history, command, remaining, selected>>

\* _start_turn: the SELECT of the window; the input is appended in memory.
LoadWindow ==
    /\ pc = "start"
    /\ conversation' = Appended(Loaded(history, command.window), command.text)
    /\ seen' = Append(history, command.text)
    /\ pc' = "store"
    /\ UNCHANGED <<system, history, command, remaining, selected>>

\* _start_turn: the INSERT of the input, and the commit.
StoreInput ==
    /\ pc = "store"
    /\ Insert(command.text)
    /\ pc' = "build"
    /\ UNCHANGED <<system, command, conversation, seen, remaining, selected>>

\* Mutant of Reserved: the system prompt is not taken out of the budget.
NothingReserved == 0

\* Mutant of Reserved: one message more is reserved.
ReservedTwice == EstimateTokens(system) + MessageTokenOverhead

\* The tokens the system prompt takes out of the budget.
Reserved == EstimateTokens(system)

\* _build_request: recent_messages may raise conversation_history_not_loaded;
\* the system prompt is reserved; a budget that is used up selects nothing.
BuildRequest ==
    /\ pc = "build"
    /\ pc' = IF CanRecall(conversation, command.window) THEN "select" ELSE "not_loaded"
    /\ remaining' = IF Reserved < command.budget THEN command.budget - Reserved ELSE 0
    /\ UNCHANGED <<system, history, command, conversation, seen, selected>>

Recent == Newest(conversation.messages, command.window)

\* Some message is left to consider.
More == Len(selected) < Len(Recent)

\* The newest message that is not selected yet.
Candidate == Recent[Len(Recent) - Len(selected)]

\* Mutant of Fits: a message that uses up the budget is left out.
FitsStrictly == More /\ EstimateTokens(Candidate) < remaining

\* The loop of select_within_token_budget goes on.
Fits == More /\ EstimateTokens(Candidate) <= remaining

\* One iteration: keep the message and pay for it.
SelectMessage ==
    /\ pc = "select"
    /\ Fits
    /\ selected' = <<Candidate>> \o selected
    /\ remaining' = remaining - EstimateTokens(Candidate)
    /\ UNCHANGED <<system, history, command, conversation, seen, pc>>

\* The loop ends, and _build_request makes the request or raises
\* agent_context_budget_exhausted.
StopSelecting ==
    /\ pc = "select"
    /\ ~ Fits
    /\ pc' = IF selected = << >> THEN "exhausted" ELSE "request"
    /\ UNCHANGED <<system, history, command, conversation, seen, remaining, selected>>

\* The turn ends: the model's answer is stored, if there is one.  Nothing is
\* stored of a turn whose first unit of work fails.
EndTurn(answer) ==
    /\ pc \in {"store", "request", "exhausted"}
    /\ \/ history' = history
       \/ pc = "request" /\ Len(history) < MaxHistory /\ Insert(answer)
    /\ conversation' = NoConversation
    /\ seen' = << >>
    /\ remaining' = 0
    /\ selected' = << >>
    /\ pc' = "idle"
    /\ UNCHANGED <<system, command>>

Next == \/ \E content \in Contents : StoreMessage(content) \/ EndTurn(content)
        \/ \E c \in Command : ValidateInput(c)
        \/ LoadWindow \/ StoreInput \/ BuildRequest
        \/ SelectMessage \/ StopSelecting

Spec == Init /\ [][Next]_vars

-----------------------------------------------------------------------------
\* The estimated cost of the messages of a sequence.
Cost(messages) ==
    LET cost[n \in 0 .. Len(messages)] ==
            IF n = 0 THEN 0 ELSE cost[n - 1] + EstimateTokens(messages[n])
    IN  cost[Len(messages)]

\* Every variable has its type.
TypeOK == /\ system \in SystemPrompts
          /\ history \in Seq(Texts \union Contents)
          /\ command \in Command
          /\ conversation \in [messages : Seq(Texts \union Contents), window : Nat]
          /\ seen \in Seq(Texts \union Contents)
          /\ remaining \in Nat
          /\ selected \in Seq(Texts \union Contents)
          /\ pc \in {"idle", "start", "store", "build", "select",
                     "request", "exhausted", "not_loaded"}

\* The request, system prompt included, stays within max_context_tokens.
ContextFits ==
    pc = "request" => EstimateTokens(system) + Cost(selected) <= command.budget

\* The request carries the newest messages that were stored when the turn read
\* the conversation, without a hole, at most context_window of them, and ends
\* with the message to answer, whatever other turns store meanwhile.
ContextIsNewest ==
    pc = "request" => /\ selected = Newest(seen, Len(selected))
                      /\ Len(selected) \in 1 .. command.window
                      /\ selected[Len(selected)] = command.text

\* No more of what was stored then would have fitted: neither the partial load of
\* the aggregate nor the loop gives away room that the budget has.
ContextIsMaximal ==
    pc = "request" =>
        \A n \in Len(selected) + 1 .. Len(seen) :
            n > command.window
            \/ EstimateTokens(system) + Cost(Newest(seen, n)) > command.budget

\* A turn is refused for its budget only if the system prompt and the message
\* to answer do not fit together.
ExhaustedOnlyByPrompt ==
    pc = "exhausted" => EstimateTokens(system) + EstimateTokens(command.text) > command.budget

\* The window that _start_turn loads always answers _build_request.
HistoryIsLoaded == pc # "not_loaded"
=============================================================================
