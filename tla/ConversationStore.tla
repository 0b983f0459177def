-------------------------- MODULE ConversationStore -------------------------
(***************************************************************************)
(* One conversation in the database, used by several workers at once: the  *)
(* use cases of application/conversations and the first unit of work of a  *)
(* turn.  Each loads the aggregate, changes it in memory and writes it     *)
(* back in the same transaction, at read committed isolation and without   *)
(* locking or versioning the row it has read.                              *)
(***************************************************************************)
EXTENDS Naturals, Sequences

CONSTANTS
    Workers,
    Ids,        \* message ids: random UUIDs, compared as numbers
    Nothing,    \* no message
    MaxNow      \* bound on the clock

ASSUME IdsAssumption == Ids \subseteq Nat /\ Nothing \notin Ids

ASSUME MaxNowAssumption == MaxNow \in Nat

VARIABLES
    status,     \* the row: its status, or "absent"
    messages,   \* the committed messages
    appended,   \* ids, in the order the aggregates appended them
    now,        \* utc_now()
    pc,         \* where each worker is in its unit of work
    job,        \* the use case each worker executes
    draft       \* the message each worker has appended in memory

vars == <<status, messages, appended, now, pc, job, draft>>

Jobs == {"append", "archive", "delete"}

Message == [id : Ids, at : Nat]

\* The status each use case leaves in the aggregate.
Target == [append |-> "active", archive |-> "archived", delete |-> "deleted"]

\* ensure_active, and the guard of delete(): the entity does not raise.
Allowed(j, s) == IF j = "delete" THEN s # "deleted" ELSE s = "active"

-----------------------------------------------------------------------------
Init == /\ status = "absent"
        /\ messages = {}
        /\ appended = << >>
        /\ now = 0
        /\ pc = [w \in Workers |-> "idle"]
        /\ job = [w \in Workers |-> "append"]
        /\ draft = [w \in Workers |-> Nothing]

Goto(w, label) == pc' = [pc EXCEPT ![w] = label]

\* CreateConversation.
Create == /\ status = "absent"
          /\ status' = "active"
          /\ UNCHANGED <<messages, appended, now, pc, job, draft>>

\* get() reads the row; the entity is asked to make the change.
Load(w, j) ==
    /\ pc[w] = "idle"
    /\ status # "absent"
    /\ Allowed(j, status)
    /\ job' = [job EXCEPT ![w] = j]
    /\ Goto(w, IF j = "append" THEN "append" ELSE "write")
    /\ UNCHANGED <<status, messages, appended, now, draft>>

\* NotFoundError, or the entity raises ConflictError.
Refuse(w, j) ==
    /\ pc[w] = "idle"
    /\ status = "absent" \/ ~ Allowed(j, status)
    /\ job' = [job EXCEPT ![w] = j]
    /\ Goto(w, "idle")
    /\ UNCHANGED <<status, messages, appended, now, draft>>

\* Conversation.append_message stamps the message and gives it a fresh id.
AppendMessage(w, id) ==
    /\ pc[w] = "append"
    /\ \A i \in DOMAIN appended : appended[i] # id
    /\ draft' = [draft EXCEPT ![w] = [id |-> id, at |-> now]]
    /\ appended' = Append(appended, id)
    /\ Goto(w, "write")
    /\ UNCHANGED <<status, messages, now, job>>

\* Mutant of Write: append_message saves the aggregate as well.
WriteAggregate(w) ==
    /\ pc[w] = "write"
    /\ IF job[w] = "append" THEN messages' = messages \union {draft[w]}
                            ELSE messages' = messages
    /\ status' = Target[job[w]]
    /\ draft' = [draft EXCEPT ![w] = Nothing]
    /\ Goto(w, "idle")
    /\ UNCHANGED <<appended, now, job>>

\* The message is inserted, or save() reads the row again and writes the status of
\* the aggregate over whatever it finds; and the commit.
Write(w) ==
    /\ pc[w] = "write"
    /\ IF job[w] = "append"
       THEN messages' = messages \union {draft[w]} /\ status' = status
       ELSE messages' = messages /\ status' = Target[job[w]]
    /\ draft' = [draft EXCEPT ![w] = Nothing]
    /\ Goto(w, "idle")
    /\ UNCHANGED <<appended, now, job>>

\* The unit of work is rolled back.
Abort(w) ==
    /\ pc[w] \in {"append", "write"}
    /\ draft' = [draft EXCEPT ![w] = Nothing]
    /\ Goto(w, "idle")
    /\ UNCHANGED <<status, messages, appended, now, job>>

Tick == /\ now < MaxNow
        /\ now' = now + 1
        /\ UNCHANGED <<status, messages, appended, pc, job, draft>>

Next == \/ Create \/ Tick
        \/ \E w \in Workers : \/ \E j \in Jobs : Load(w, j) \/ Refuse(w, j)
                              \/ \E id \in Ids : AppendMessage(w, id)
                              \/ Write(w) \/ Abort(w)

Spec == Init /\ [][Next]_vars

-----------------------------------------------------------------------------
\* A conversation that has been archived or deleted does not become active
\* again through a use case that had loaded it while it was active.
ClosedNeverReopens ==
    [][(status \in {"archived", "deleted"}) => status' # "active"]_vars

\* A conversation that has been deleted stays deleted.
DeletedStaysDeleted == [][status = "deleted" => status' = "deleted"]_vars

\* Mutant of Before: ORDER BY id.
BeforeById(m, n) == m.id < n.id

\* ORDER BY created_at, id of _load_messages.
Before(m, n) == m.at < n.at \/ (m.at = n.at /\ m.id < n.id)

\* Messages are read in the order in which the aggregates appended them, in
\* whatever order their transactions were committed, unless two of them were
\* appended in the same instant.
ReadInAppendOrder ==
    \A m, n \in messages : \A i, j \in DOMAIN appended :
        appended[i] = m.id /\ appended[j] = n.id /\ i < j /\ m.at # n.at => Before(m, n)
=============================================================================
