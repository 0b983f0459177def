------------------------------- MODULE Schema -------------------------------
(***************************************************************************)
(* The database schema the migrations build (migrations/versions): the     *)
(* tables of revision 0001 with their foreign keys, and the rows of the    *)
(* tables that later revisions change or constrain.                        *)
(*                                                                         *)
(* Of a row only the columns are kept that a migration rewrites or a CHECK *)
(* reads.  An enum column holds a member of its StrEnum or something else; *)
(* a text is empty, blank or has content; the five limits of a run are     *)
(* absent (before 0002), all positive, or not all positive.                *)
(***************************************************************************)
EXTENDS Naturals, Sequences

Table(name, references) == [name |-> name, references |-> references]

IdentityTables == <<
    Table("users", {}), Table("roles", {}), Table("permissions", {}),
    Table("user_roles", {"users", "roles"}),
    Table("role_permissions", {"roles", "permissions"}),
    Table("telegram_identities", {"users"}) >>

ConversationTables == <<
    Table("conversations", {"users"}), Table("messages", {"conversations"}) >>

AgentTables == <<
    Table("agent_runs", {"users", "conversations"}), Table("agent_steps", {"agent_runs"}),
    Table("tools", {}), Table("tool_executions", {"agent_runs", "tools"}) >>

MemoryTables == <<
    Table("memories", {"users"}), Table("memory_items", {"memories"}),
    Table("files", {"users"}), Table("file_chunks", {"files"}) >>

OperationsTables == <<
    Table("usage_records", {"users"}), Table("subscriptions", {"users"}),
    Table("tasks", {}), Table("task_attempts", {"tasks"}),
    Table("idempotency_records", {}), Table("audit_logs", {"users"}) >>

\* The order in which 0001 creates the tables.
Creation == IdentityTables \o ConversationTables \o AgentTables \o MemoryTables
                \o OperationsTables

\* The order in which downgrade() of 0001 drops them.
Dropping == <<
    "audit_logs", "idempotency_records", "task_attempts", "tasks", "subscriptions",
    "usage_records", "file_chunks", "files", "memory_items", "memories", "tool_executions",
    "tools", "agent_steps", "agent_runs", "messages", "conversations", "telegram_identities",
    "role_permissions", "user_roles", "permissions", "roles", "users" >>

\* CREATE TABLE finds every table that the foreign keys refer to.
CreationSucceeds ==
    \A i \in DOMAIN Creation :
        Creation[i].references \subseteq {Creation[j].name : j \in 1 .. i - 1}

\* DROP TABLE finds the table, no remaining table refers to it, and none is left.
DroppingSucceeds ==
    /\ Len(Dropping) = Len(Creation)
    /\ \A i \in DOMAIN Creation : \E j \in DOMAIN Dropping :
           /\ Dropping[j] = Creation[i].name
           /\ \A k \in DOMAIN Creation : Dropping[j] \in Creation[k].references =>
                  \E h \in 1 .. j - 1 : Dropping[h] = Creation[k].name

-----------------------------------------------------------------------------
RunStatuses == {"pending", "running", "succeeded", "failed", "cancelled"}

Enum == {"member", "other"}

UserRow         == [table : {"users"}, status : Enum]
ConversationRow == [table : {"conversations"}, status : Enum]
MessageRow      == [table : {"messages"}, role : Enum, content : {"empty", "blank", "text"}]
StepRow         == [table : {"agent_steps"}, type : Enum, indexed : BOOLEAN]
RunRow          == [table    : {"agent_runs"},
                    status   : RunStatuses \union {"other"},
                    limits   : {"absent", "positive", "invalid"},
                    response : BOOLEAN,      \* final_response IS NOT NULL
                    finished : BOOLEAN,      \* finished_at IS NOT NULL
                    reason   : BOOLEAN]      \* failure_reason IS NOT NULL

DataRow == UserRow \union ConversationRow \union MessageRow \union StepRow \union RunRow

\* The row has the columns of the revision, and a value where NULL is refused.
HasColumns(revision, r) ==
    r \in RunRow => IF revision < 2 THEN r.limits = "absent" /\ ~ r.response
                                    ELSE r.limits # "absent"

\* agent_run_terminal_state_recorded.
EndRecorded(r) ==
    /\ r.status \in {"succeeded", "failed", "cancelled"} => r.finished
    /\ r.status = "succeeded" => r.response
    /\ r.status = "failed" => r.reason

\* The _CHECKS of 0005 ("indexed" says that "index" is at least 1).
PassesChecks(r) ==
    /\ r \in UserRow \union ConversationRow => r.status = "member"
    /\ r \in MessageRow => r.role = "member" /\ r.content # "empty"
    /\ r \in RunRow => r.status \in RunStatuses /\ r.limits = "positive" /\ EndRecorded(r)
    /\ r \in StepRow => r.indexed

Admits(revision, r) == HasColumns(revision, r) /\ (revision >= 5 => PassesChecks(r))

-----------------------------------------------------------------------------
\* What the repositories need to turn the row into an entity.
LoadsUser(r) == r.status = "member"
LoadsConversation(r) == r.status = "member"
LoadsMessage(r) == r.role = "member" /\ r.content = "text"
LoadsRun(r) == r.status \in RunStatuses /\ r.limits = "positive"
LoadsStep(r) == r.type = "member"

Loads(r) == /\ r \in UserRow => LoadsUser(r)
            /\ r \in ConversationRow => LoadsConversation(r)
            /\ r \in MessageRow => LoadsMessage(r)
            /\ r \in RunRow => LoadsRun(r)
            /\ r \in StepRow => LoadsStep(r)
=============================================================================
