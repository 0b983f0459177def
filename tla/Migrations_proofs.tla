-------------------------- MODULE Migrations_proofs -------------------------
(***************************************************************************)
(* Proofs about the migration chain over a database in use, for any number *)
(* of rows, commands and attempts, and any time to live of a claim.        *)
(*                                                                         *)
(* A command is one step over several revisions.  What it keeps is stated  *)
(* for a database at a revision, shown for one revision up or down, and    *)
(* carried along the path of the command, of which there are five lengths. *)
(***************************************************************************)
EXTENDS Migrations, TLAPS

-----------------------------------------------------------------------------
\* The inductive invariant, stated for a database at a revision, so that it can
\* be followed along the revisions of a command.

RowsFit(i, someRows) == \A r \in someRows : r \in DataRow /\ HasColumns(i, r)

\* The columns of a claim in force, as far as they exist, say who holds it and
\* that it is at least as young as it is.
ClaimFits(i, c) ==
    /\ c \in Row
    /\ c.state = "started" => /\ i >= 3 => heldSince <= c.claimedAt
                              /\ i >= 4 => c.token \in {holder, Nobody}

\* The row satisfies the constraints of 0005, or will when it has its limits.
Clean(i, r) == IF i >= 2 THEN PassesChecks(r) ELSE PassesChecks(WithLimits(r))

AllClean(i, someRows) == \A r \in someRows : Clean(i, r)

CleanInv == ~ stained => AllClean(revision, rows)

HeadInv == revision = Newest => \A r \in rows : PassesChecks(r)

IInv == /\ TypeOK
        /\ heldSince <= now
        /\ ClaimFits(revision, record)
        /\ CleanInv
        /\ HeadInv
        /\ RefusedOnlyByStain

-----------------------------------------------------------------------------
\* 0001 creates the tables in an order its foreign keys allow.

TableNames == {Dropping[i] : i \in DOMAIN Dropping}

Tables == [name : TableNames, references : SUBSET TableNames]

LEMMA TwoTables ==
    ASSUME NEW a \in Tables, NEW b \in Tables
    PROVE  <<a, b>> \in Seq(Tables) /\ Len(<<a, b>>) = 2
OBVIOUS

LEMMA FourTables ==
    ASSUME NEW a \in Tables, NEW b \in Tables, NEW c \in Tables, NEW d \in Tables
    PROVE  <<a, b, c, d>> \in Seq(Tables) /\ Len(<<a, b, c, d>>) = 4
OBVIOUS

LEMMA SixTables ==
    ASSUME NEW a \in Tables, NEW b \in Tables, NEW c \in Tables, NEW d \in Tables,
           NEW e \in Tables, NEW f \in Tables
    PROVE  <<a, b, c, d, e, f>> \in Seq(Tables) /\ Len(<<a, b, c, d, e, f>>) = 6
OBVIOUS

LEMMA Joined ==
    ASSUME NEW s \in Seq(Tables), NEW t \in Seq(Tables)
    PROVE  /\ s \o t \in Seq(Tables) /\ Len(s \o t) = Len(s) + Len(t)
           /\ \A i \in 1 .. Len(s) : (s \o t)[i] = s[i]
           /\ \A i \in Len(s) + 1 .. Len(s) + Len(t) : (s \o t)[i] = t[i - Len(s)]
OBVIOUS

\* Where the tables are in the order of dropping.
LEMMA DroppingNames ==
    /\ DOMAIN Dropping = 1 .. 22 /\ Len(Dropping) = 22
    /\ Dropping[22] = "users" /\ Dropping[21] = "roles" /\ Dropping[20] = "permissions"
    /\ Dropping[19] = "user_roles" /\ Dropping[18] = "role_permissions"
    /\ Dropping[17] = "telegram_identities" /\ Dropping[16] = "conversations"
    /\ Dropping[15] = "messages" /\ Dropping[14] = "agent_runs" /\ Dropping[13] = "agent_steps"
    /\ Dropping[12] = "tools" /\ Dropping[11] = "tool_executions" /\ Dropping[10] = "memories"
    /\ Dropping[9] = "memory_items" /\ Dropping[8] = "files" /\ Dropping[7] = "file_chunks"
    /\ Dropping[6] = "usage_records" /\ Dropping[5] = "subscriptions" /\ Dropping[4] = "tasks"
    /\ Dropping[3] = "task_attempts" /\ Dropping[2] = "idempotency_records"
    /\ Dropping[1] = "audit_logs"
BY DEF Dropping

LEMMA KnownNames ==
    {"users", "roles", "permissions", "user_roles", "role_permissions", "telegram_identities",
     "conversations", "messages", "agent_runs", "agent_steps", "tools", "tool_executions",
     "memories", "memory_items", "files", "file_chunks", "usage_records", "subscriptions",
     "tasks", "task_attempts", "idempotency_records", "audit_logs"} \subseteq TableNames
<1>1. \A i \in 1 .. 22 : Dropping[i] \in TableNames BY DroppingNames DEF TableNames
<1> QED BY <1>1, DroppingNames

\* Where the tables are in the order of creation.
LEMMA CreationParts ==
    /\ Len(Creation) = 22
    /\ DOMAIN Creation = 1 .. 22
    /\ \A i \in 1 .. 6 : Creation[i] = IdentityTables[i]
    /\ \A i \in 7 .. 8 : Creation[i] = ConversationTables[i - 6]
    /\ \A i \in 9 .. 12 : Creation[i] = AgentTables[i - 8]
    /\ \A i \in 13 .. 16 : Creation[i] = MemoryTables[i - 12]
    /\ \A i \in 17 .. 22 : Creation[i] = OperationsTables[i - 16]
<1>0. \A name, references :
          name \in TableNames /\ references \subseteq TableNames => Table(name, references) \in Tables
  BY DEF Table, Tables
<1>1. /\ IdentityTables \in Seq(Tables) /\ Len(IdentityTables) = 6
  BY <1>0, KnownNames, SixTables DEF IdentityTables
<1>2. /\ ConversationTables \in Seq(Tables) /\ Len(ConversationTables) = 2
  BY <1>0, KnownNames, TwoTables DEF ConversationTables
<1>3. /\ AgentTables \in Seq(Tables) /\ Len(AgentTables) = 4
  BY <1>0, KnownNames, FourTables DEF AgentTables
<1>4. /\ MemoryTables \in Seq(Tables) /\ Len(MemoryTables) = 4
  BY <1>0, KnownNames, FourTables DEF MemoryTables
<1>5. /\ OperationsTables \in Seq(Tables) /\ Len(OperationsTables) = 6
  BY <1>0, KnownNames, SixTables DEF OperationsTables
<1> DEFINE s2 == IdentityTables \o ConversationTables
           s3 == s2 \o AgentTables
           s4 == s3 \o MemoryTables
           s5 == s4 \o OperationsTables
<1>6. /\ s2 \in Seq(Tables) /\ Len(s2) = 8
      /\ \A i \in 1 .. 6 : s2[i] = IdentityTables[i]
      /\ \A i \in 7 .. 8 : s2[i] = ConversationTables[i - 6]
  <2>1. IdentityTables \in Seq(Tables) /\ ConversationTables \in Seq(Tables) BY <1>1, <1>2
  <2>2. /\ s2 \in Seq(Tables) /\ Len(s2) = Len(IdentityTables) + Len(ConversationTables)
        /\ \A i \in 1 .. Len(IdentityTables) : s2[i] = IdentityTables[i]
        /\ \A i \in Len(IdentityTables) + 1 .. Len(IdentityTables) + Len(ConversationTables) : s2[i] = ConversationTables[i - Len(IdentityTables)]
    BY <2>1, Joined
  <2> HIDE DEF s2
  <2> QED BY <1>1, <1>2, <2>2
<1> HIDE DEF s2
<1>7. /\ s3 \in Seq(Tables) /\ Len(s3) = 12
      /\ \A i \in 1 .. 8 : s3[i] = s2[i]
      /\ \A i \in 9 .. 12 : s3[i] = AgentTables[i - 8]
  <2>1. s2 \in Seq(Tables) /\ AgentTables \in Seq(Tables) BY <1>6, <1>3
  <2>2. /\ s3 \in Seq(Tables) /\ Len(s3) = Len(s2) + Len(AgentTables)
        /\ \A i \in 1 .. Len(s2) : s3[i] = s2[i]
        /\ \A i \in Len(s2) + 1 .. Len(s2) + Len(AgentTables) : s3[i] = AgentTables[i - Len(s2)]
    BY <2>1, Joined
  <2> HIDE DEF s3
  <2> QED BY <1>6, <1>3, <2>2
<1> HIDE DEF s3
<1>8. /\ s4 \in Seq(Tables) /\ Len(s4) = 16
      /\ \A i \in 1 .. 12 : s4[i] = s3[i]
      /\ \A i \in 13 .. 16 : s4[i] = MemoryTables[i - 12]
  <2>1. s3 \in Seq(Tables) /\ MemoryTables \in Seq(Tables) BY <1>7, <1>4
  <2>2. /\ s4 \in Seq(Tables) /\ Len(s4) = Len(s3) + Len(MemoryTables)
        /\ \A i \in 1 .. Len(s3) : s4[i] = s3[i]
        /\ \A i \in Len(s3) + 1 .. Len(s3) + Len(MemoryTables) : s4[i] = MemoryTables[i - Len(s3)]
    BY <2>1, Joined
  <2> HIDE DEF s4
  <2> QED BY <1>7, <1>4, <2>2
<1> HIDE DEF s4
<1>9. /\ s5 \in Seq(Tables) /\ Len(s5) = 22
      /\ \A i \in 1 .. 16 : s5[i] = s4[i]
      /\ \A i \in 17 .. 22 : s5[i] = OperationsTables[i - 16]
  <2>1. s4 \in Seq(Tables) /\ OperationsTables \in Seq(Tables) BY <1>8, <1>5
  <2>2. /\ s5 \in Seq(Tables) /\ Len(s5) = Len(s4) + Len(OperationsTables)
        /\ \A i \in 1 .. Len(s4) : s5[i] = s4[i]
        /\ \A i \in Len(s4) + 1 .. Len(s4) + Len(OperationsTables) : s5[i] = OperationsTables[i - Len(s4)]
    BY <2>1, Joined
  <2> HIDE DEF s5
  <2> QED BY <1>8, <1>5, <2>2
<1> HIDE DEF s5
<1>10. Creation = s5 BY DEF Creation, s2, s3, s4, s5
<1>11. DOMAIN s5 = 1 .. 22 BY <1>9
<1>12. \A i \in 1 .. 16 : s5[i] = s4[i] BY <1>9
<1>13. \A i \in 1 .. 12 : s5[i] = s3[i]
  <2>1. \A i \in 1 .. 12 : s4[i] = s3[i] BY <1>8
  <2> QED BY <1>12, <2>1
<1>14. \A i \in 1 .. 8 : s5[i] = s2[i]
  <2>1. \A i \in 1 .. 8 : s3[i] = s2[i] BY <1>7
  <2> QED BY <1>13, <2>1
<1>15. \A i \in 1 .. 6 : s5[i] = IdentityTables[i] BY <1>6, <1>14
<1>16. \A i \in 7 .. 8 : s5[i] = ConversationTables[i - 6] BY <1>6, <1>14
<1>17. \A i \in 9 .. 12 : s5[i] = AgentTables[i - 8]
  <2>1. \A i \in 9 .. 12 : s3[i] = AgentTables[i - 8] BY <1>7
  <2> QED BY <1>13, <2>1
<1>18. \A i \in 13 .. 16 : s5[i] = MemoryTables[i - 12]
  <2>1. \A i \in 13 .. 16 : s4[i] = MemoryTables[i - 12] BY <1>8
  <2> QED BY <1>12, <2>1
<1> QED BY <1>9, <1>10, <1>11, <1>15, <1>16, <1>17, <1>18

\* The tables are dropped in the reverse order of their creation.
LEMMA DroppingIsReverse == \A i \in 1 .. 22 : Creation[i].name = Dropping[23 - i]
<1>1. \A i \in 1 .. 6 : IdentityTables[i].name = Dropping[23 - i]
  BY DroppingNames DEF IdentityTables, Table
<1>2. \A i \in 1 .. 2 : ConversationTables[i].name = Dropping[17 - i]
  BY DroppingNames DEF ConversationTables, Table
<1>3. \A i \in 1 .. 4 : AgentTables[i].name = Dropping[15 - i]
  BY DroppingNames DEF AgentTables, Table
<1>4. \A i \in 1 .. 4 : MemoryTables[i].name = Dropping[11 - i]
  BY DroppingNames DEF MemoryTables, Table
<1>5. \A i \in 1 .. 6 : OperationsTables[i].name = Dropping[7 - i]
  BY DroppingNames DEF OperationsTables, Table
<1>6. ASSUME NEW i \in 1 .. 22 PROVE Creation[i].name = Dropping[23 - i]
  <2>1. CASE i \in 1 .. 6 BY <1>1, <2>1, CreationParts
  <2>2. CASE i \in 7 .. 8
    <3>1. i - 6 \in 1 .. 2 /\ 17 - (i - 6) = 23 - i BY <2>2
    <3> QED BY <1>2, <2>2, <3>1, CreationParts
  <2>3. CASE i \in 9 .. 12
    <3>1. i - 8 \in 1 .. 4 /\ 15 - (i - 8) = 23 - i BY <2>3
    <3> QED BY <1>3, <2>3, <3>1, CreationParts
  <2>4. CASE i \in 13 .. 16
    <3>1. i - 12 \in 1 .. 4 /\ 11 - (i - 12) = 23 - i BY <2>4
    <3> QED BY <1>4, <2>4, <3>1, CreationParts
  <2>5. CASE i \in 17 .. 22
    <3>1. i - 16 \in 1 .. 6 /\ 7 - (i - 16) = 23 - i BY <2>5
    <3> QED BY <1>5, <2>5, <3>1, CreationParts
  <2> QED BY <2>1, <2>2, <2>3, <2>4, <2>5
<1> QED BY <1>6

\* No table is created twice.
LEMMA NamesDiffer == \A i, j \in 1 .. 22 : Dropping[i] = Dropping[j] => i = j
BY DroppingNames

\* Every table is created after the tables it refers to.
LEMMA ReferencesAreEarlier ==
    ASSUME NEW i \in 1 .. 22, NEW name \in Creation[i].references
    PROVE  \E j \in 1 .. i - 1 : Creation[j].name = name
<1>0. /\ \A k \in 1 .. 22 : Creation[k].name = Dropping[23 - k]
      /\ \A k \in 1 .. 22 : k \in Nat
  BY DroppingIsReverse
<1>1. /\ Creation[1].name = "users" /\ Creation[2].name = "roles"
      /\ Creation[3].name = "permissions" /\ Creation[7].name = "conversations"
      /\ Creation[9].name = "agent_runs" /\ Creation[11].name = "tools"
      /\ Creation[13].name = "memories" /\ Creation[15].name = "files"
      /\ Creation[19].name = "tasks"
  BY <1>0, DroppingNames
<1>2. CASE i \in 1 .. 6
  <2>1. name \in IdentityTables[i].references BY <1>2, CreationParts
  <2>2. i \in {4, 5, 6} /\ name \in {"users", "roles", "permissions"}
    BY <1>2, <2>1 DEF IdentityTables, Table
  <2> QED BY <1>1, <2>2
<1>3. CASE i \in 7 .. 8
  <2>1. name \in ConversationTables[i - 6].references BY <1>3, CreationParts
  <2>2. \/ i = 7 /\ name = "users"
        \/ i = 8 /\ name = "conversations"
    BY <1>3, <2>1 DEF ConversationTables, Table
  <2> QED BY <1>1, <2>2
<1>4. CASE i \in 9 .. 12
  <2>1. name \in AgentTables[i - 8].references BY <1>4, CreationParts
  <2>2. \/ i = 9 /\ name \in {"users", "conversations"}
        \/ i = 10 /\ name = "agent_runs"
        \/ i = 12 /\ name \in {"agent_runs", "tools"}
    BY <1>4, <2>1 DEF AgentTables, Table
  <2> QED BY <1>1, <2>2
<1>5. CASE i \in 13 .. 16
  <2>1. name \in MemoryTables[i - 12].references BY <1>5, CreationParts
  <2>2. \/ i = 13 /\ name = "users"
        \/ i = 14 /\ name = "memories"
        \/ i = 15 /\ name = "users"
        \/ i = 16 /\ name = "files"
    BY <1>5, <2>1 DEF MemoryTables, Table
  <2> QED BY <1>1, <2>2
<1>6. CASE i \in 17 .. 22
  <2>1. name \in OperationsTables[i - 16].references BY <1>6, CreationParts
  <2>2. \/ i = 17 /\ name = "users"
        \/ i = 18 /\ name = "users"
        \/ i = 20 /\ name = "tasks"
        \/ i = 22 /\ name = "users"
    BY <1>6, <2>1 DEF OperationsTables, Table
  <2> QED BY <1>1, <2>2
<1> QED BY <1>2, <1>3, <1>4, <1>5, <1>6

\* CREATE TABLE and DROP TABLE are never refused for a foreign key.
LEMMA TablesComeAndGo == CreationSucceeds /\ DroppingSucceeds
<1>1. CreationSucceeds BY ReferencesAreEarlier, CreationParts DEF CreationSucceeds
<1>2. ASSUME NEW i \in 1 .. 22
      PROVE  \E j \in 1 .. 22 :
                 /\ Dropping[j] = Creation[i].name
                 /\ \A k \in 1 .. 22 : Dropping[j] \in Creation[k].references =>
                        \E h \in 1 .. j - 1 : Dropping[h] = Creation[k].name
  <2> DEFINE j == 23 - i
  <2>1. j \in 1 .. 22 /\ Dropping[j] = Creation[i].name BY DroppingIsReverse
  <2>2. ASSUME NEW k \in 1 .. 22, Dropping[j] \in Creation[k].references
        PROVE  \E h \in 1 .. j - 1 : Dropping[h] = Creation[k].name
    <3>1. PICK l \in 1 .. k - 1 : Creation[l].name = Dropping[j]
      <4> HIDE DEF j
      <4> QED BY <2>2, ReferencesAreEarlier
    <3>2. l \in 1 .. 22 /\ 23 - l \in 1 .. 22 /\ 23 - k \in 1 .. 22 OBVIOUS
    <3>3. Dropping[23 - l] = Dropping[j] BY <3>1, <3>2, DroppingIsReverse
    <3>4. 23 - l = j
      <4> HIDE DEF j
      <4> QED BY <2>1, <3>2, <3>3, NamesDiffer
    <3>5. 23 - k \in 1 .. j - 1 BY <3>2, <3>4
    <3> QED BY <3>5, DroppingIsReverse
  <2> HIDE DEF j
  <2> QED BY <2>1, <2>2
<1>3. /\ Len(Dropping) = Len(Creation)
      /\ DOMAIN Dropping = 1 .. 22 /\ DOMAIN Creation = 1 .. 22
  BY CreationParts, DroppingNames
<1>4. ASSUME NEW i \in DOMAIN Creation
      PROVE  \E j \in DOMAIN Dropping :
                 /\ Dropping[j] = Creation[i].name
                 /\ \A k \in DOMAIN Creation : Dropping[j] \in Creation[k].references =>
                        \E h \in 1 .. j - 1 : Dropping[h] = Creation[k].name
  <2>1. i \in 1 .. 22 BY <1>3
  <2>2. PICK j \in 1 .. 22 :
            /\ Dropping[j] = Creation[i].name
            /\ \A k \in 1 .. 22 : Dropping[j] \in Creation[k].references =>
                   \E h \in 1 .. j - 1 : Dropping[h] = Creation[k].name
    BY <1>2, <2>1
  <2>3. j \in DOMAIN Dropping BY <1>3
  <2>4. \A k \in DOMAIN Creation : k \in 1 .. 22 BY <1>3
  <2> QED BY <2>2, <2>3, <2>4
<1>5. DroppingSucceeds BY <1>3, <1>4 DEF DroppingSucceeds
<1> QED BY <1>1, <1>5

-----------------------------------------------------------------------------
\* The databases of a command: their recursive definitions have a solution,
\* since a command runs at most five revisions.

Revisions == 0 .. Newest

LEMMA UpgradePathDef ==
    ASSUME revision \in Revisions, NEW target \in Revisions, target > revision
    PROVE  \A i \in revision .. target :
               UpgradePath(target)[i] =
                   IF i = revision THEN Database(rows, record) ELSE Up(i, UpgradePath(target)[i - 1])
<1> DEFINE d0 == Database(rows, record)
           d1 == Up(revision + 1, d0)
           d2 == Up(revision + 2, d1)
           d3 == Up(revision + 3, d2)
           d4 == Up(revision + 4, d3)
           d5 == Up(revision + 5, d4)
           P(f) == f = [i \in revision .. target |->
                            IF i = revision THEN d0 ELSE Up(i, f[i - 1])]
           w == [i \in revision .. target |->
                     IF i = revision THEN d0
                     ELSE IF i = revision + 1 THEN d1
                     ELSE IF i = revision + 2 THEN d2
                     ELSE IF i = revision + 3 THEN d3
                     ELSE IF i = revision + 4 THEN d4 ELSE d5]
<1>1. P(w)
  <2> HIDE DEF d0
  <2>1. /\ d1 = Up(revision + 1, d0) /\ d2 = Up(revision + 2, d1) /\ d3 = Up(revision + 3, d2)
        /\ d4 = Up(revision + 4, d3) /\ d5 = Up(revision + 5, d4)
    OBVIOUS
  <2> HIDE DEF d1, d2, d3, d4, d5
  <2>2. ASSUME NEW i \in revision .. target, i # revision PROVE w[i] = Up(i, w[i - 1])
    <3>1. \/ i = revision + 1 \/ i = revision + 2 \/ i = revision + 3 \/ i = revision + 4
          \/ i = revision + 5
      BY <2>2 DEF Revisions, Newest
    <3>2. i - 1 \in revision .. target BY <2>2 DEF Revisions, Newest
    <3> QED BY <2>1, <3>1, <3>2 DEF Revisions, Newest
  <2> QED BY <2>2
<1>2. UpgradePath(target) = CHOOSE f : P(f) BY DEF UpgradePath
<1> HIDE DEF P
<1>3. P(UpgradePath(target)) BY <1>1, <1>2
<1>4. UpgradePath(target) = [i \in revision .. target |->
          IF i = revision THEN d0 ELSE Up(i, UpgradePath(target)[i - 1])]
  BY <1>3 DEF P
<1> HIDE DEF d0
<1>5. \A i \in revision .. target :
          UpgradePath(target)[i] = IF i = revision THEN d0 ELSE Up(i, UpgradePath(target)[i - 1])
  BY <1>4
<1> QED BY <1>5 DEF d0

LEMMA DowngradePathDef ==
    ASSUME revision \in Revisions, NEW target \in Revisions, target < revision
    PROVE  \A i \in target .. revision :
               DowngradePath(target)[i] =
                   IF i = revision THEN Database(rows, record)
                   ELSE Down(i + 1, DowngradePath(target)[i + 1])
<1> DEFINE d0 == Database(rows, record)
           d1 == Down(revision, d0)
           d2 == Down(revision - 1, d1)
           d3 == Down(revision - 2, d2)
           d4 == Down(revision - 3, d3)
           d5 == Down(revision - 4, d4)
           P(f) == f = [i \in target .. revision |->
                            IF i = revision THEN d0 ELSE Down(i + 1, f[i + 1])]
           w == [i \in target .. revision |->
                     IF i = revision THEN d0
                     ELSE IF i = revision - 1 THEN d1
                     ELSE IF i = revision - 2 THEN d2
                     ELSE IF i = revision - 3 THEN d3
                     ELSE IF i = revision - 4 THEN d4 ELSE d5]
<1>1. P(w)
  <2> HIDE DEF d0
  <2>1. /\ d1 = Down(revision, d0) /\ d2 = Down(revision - 1, d1) /\ d3 = Down(revision - 2, d2)
        /\ d4 = Down(revision - 3, d3) /\ d5 = Down(revision - 4, d4)
    OBVIOUS
  <2> HIDE DEF d1, d2, d3, d4, d5
  <2>2. ASSUME NEW i \in target .. revision, i # revision PROVE w[i] = Down(i + 1, w[i + 1])
    <3>1. \/ i = revision - 1 \/ i = revision - 2 \/ i = revision - 3 \/ i = revision - 4
          \/ i = revision - 5
      BY <2>2 DEF Revisions, Newest
    <3>2. i + 1 \in target .. revision BY <2>2 DEF Revisions, Newest
    <3> QED BY <2>1, <3>1, <3>2 DEF Revisions, Newest
  <2> QED BY <2>2
<1>2. DowngradePath(target) = CHOOSE f : P(f) BY DEF DowngradePath
<1> HIDE DEF P
<1>3. P(DowngradePath(target)) BY <1>1, <1>2
<1>4. DowngradePath(target) = [i \in target .. revision |->
          IF i = revision THEN d0 ELSE Down(i + 1, DowngradePath(target)[i + 1])]
  BY <1>3 DEF P
<1> HIDE DEF d0
<1>5. \A i \in target .. revision :
          DowngradePath(target)[i] =
              IF i = revision THEN d0 ELSE Down(i + 1, DowngradePath(target)[i + 1])
  BY <1>4
<1> QED BY <1>5 DEF d0

\* What holds at one end of the revisions and is passed on holds at the other.
LEMMA UpwardChain ==
    ASSUME NEW a \in Revisions, NEW b \in Revisions, NEW S, a \in S,
           \A i \in a + 1 .. b : i - 1 \in S => i \in S
    PROVE  \A i \in a .. b : i \in S
<1>1. a + 1 <= b => a + 1 \in S BY DEF Revisions, Newest
<1>2. a + 2 <= b => a + 2 \in S BY <1>1 DEF Revisions, Newest
<1>3. a + 3 <= b => a + 3 \in S BY <1>2 DEF Revisions, Newest
<1>4. a + 4 <= b => a + 4 \in S BY <1>3 DEF Revisions, Newest
<1>5. a + 5 <= b => a + 5 \in S BY <1>4 DEF Revisions, Newest
<1> QED BY <1>1, <1>2, <1>3, <1>4, <1>5 DEF Revisions, Newest

LEMMA DownwardChain ==
    ASSUME NEW a \in Revisions, NEW b \in Revisions, NEW S, b \in S,
           \A i \in a .. b - 1 : i + 1 \in S => i \in S
    PROVE  \A i \in a .. b : i \in S
<1>1. a <= b - 1 => b - 1 \in S BY DEF Revisions, Newest
<1>2. a <= b - 2 => b - 2 \in S BY <1>1 DEF Revisions, Newest
<1>3. a <= b - 3 => b - 3 \in S BY <1>2 DEF Revisions, Newest
<1>4. a <= b - 4 => b - 4 \in S BY <1>3 DEF Revisions, Newest
<1>5. a <= b - 5 => b - 5 \in S BY <1>4 DEF Revisions, Newest
<1> QED BY <1>1, <1>2, <1>3, <1>4, <1>5 DEF Revisions, Newest

-----------------------------------------------------------------------------
\* What the revisions do to rows and claims.

LEMMA RowTables ==
    ASSUME NEW r \in DataRow
    PROVE  /\ r \in UserRow => r.table = "users" /\ r.status \in Enum
           /\ r \in ConversationRow => r.table = "conversations" /\ r.status \in Enum
           /\ r \in MessageRow => r.table = "messages"
           /\ r \in StepRow => r.table = "agent_steps"
           /\ r \in RunRow => r.table = "agent_runs"
BY DEF DataRow, UserRow, ConversationRow, MessageRow, StepRow, RunRow

\* 0002 and back: only runs have limits.
LEMMA LimitsOfRow ==
    ASSUME NEW r \in DataRow
    PROVE  /\ WithLimits(r) \in DataRow /\ WithoutLimits(r) \in DataRow
           /\ r \in RunRow => WithLimits(r) \in RunRow /\ WithoutLimits(r) \in RunRow
           /\ \A i \in Revisions : i >= 2 => HasColumns(i, WithLimits(r))
           /\ \A i \in Revisions : i < 2 => HasColumns(i, WithoutLimits(r))
<1>1. CASE r \in RunRow
  <2>1. WithLimits(r) \in RunRow /\ WithLimits(r).limits = "positive"
    BY <1>1 DEF WithLimits, RunRow
  <2>2. /\ WithoutLimits(r) \in RunRow /\ WithoutLimits(r).limits = "absent"
        /\ WithoutLimits(r).response = FALSE
    BY <1>1 DEF WithoutLimits, RunRow
  <2> QED BY <2>1, <2>2 DEF HasColumns, DataRow, Revisions, Newest
<1>2. CASE r \notin RunRow BY <1>2 DEF WithLimits, WithoutLimits, HasColumns
<1> QED BY <1>1, <1>2

\* Taking the limits away and giving them back leaves a clean row that had no
\* response clean.
LEMMA CleanAgain ==
    ASSUME NEW r \in DataRow, PassesChecks(r), r \in RunRow => ~ r.response
    PROVE  PassesChecks(WithLimits(WithoutLimits(r)))
<1>1. CASE r \in RunRow
  <2> DEFINE t == WithLimits(WithoutLimits(r))
  <2>1. WithoutLimits(r) \in RunRow BY <1>1, LimitsOfRow
  <2>2. /\ t \in RunRow /\ t.status = r.status /\ t.limits = "positive" /\ t.response = FALSE
        /\ t.finished = r.finished /\ t.reason = r.reason
    BY <1>1, <2>1 DEF WithLimits, WithoutLimits, RunRow
  <2>3. r.status \in RunStatuses /\ EndRecorded(r) /\ ~ r.response
    BY <1>1 DEF PassesChecks
  <2>4. EndRecorded(t) BY <2>2, <2>3 DEF EndRecorded
  <2> HIDE DEF t
  <2>5. t \in DataRow BY <2>2 DEF DataRow
  <2>6. /\ t \notin UserRow /\ t \notin ConversationRow /\ t \notin MessageRow /\ t \notin StepRow
    BY <2>2, <2>5, RowTables
  <2>7. PassesChecks(t) BY <2>2, <2>3, <2>4, <2>6 DEF PassesChecks
  <2> QED BY <2>7 DEF t
<1>2. CASE r \notin RunRow BY <1>2 DEF WithLimits, WithoutLimits
<1> QED BY <1>1, <1>2

LEMMA UpKeeps ==
    ASSUME TypeOK, heldSince <= now, NEW i \in 1 .. Newest, NEW d,
           RowsFit(i - 1, d.rows), ClaimFits(i - 1, d.record)
    PROVE  /\ RowsFit(i, Up(i, d).rows)
           /\ ClaimFits(i, Up(i, d).record)
           /\ Up(i, d).record.state = d.record.state
           /\ AllClean(i - 1, d.rows) => AllClean(i, Up(i, d).rows)
<1>0. now \in Nat /\ heldSince \in Nat BY MigrationBounds DEF TypeOK
<1>1. CASE i \in {1, 5}
  <2>1. Up(i, d) = d BY <1>1 DEF Up
  <2>2. RowsFit(i, d.rows) BY <1>1 DEF RowsFit, HasColumns
  <2>3. ClaimFits(i, d.record) BY <1>1 DEF ClaimFits
  <2>4. AllClean(i - 1, d.rows) => AllClean(i, d.rows) BY <1>1 DEF AllClean, Clean
  <2> QED BY <2>1, <2>2, <2>3, <2>4
<1>2. CASE i = 2
  <2>1. Up(i, d) = Database({WithLimits(r) : r \in d.rows}, d.record) BY <1>2 DEF Up
  <2>2. Up(i, d).rows = {WithLimits(r) : r \in d.rows} /\ Up(i, d).record = d.record
    BY <2>1 DEF Database
  <2>3. RowsFit(i, {WithLimits(r) : r \in d.rows})
    BY <1>2, LimitsOfRow DEF RowsFit, Revisions, Newest
  <2>4. ClaimFits(i, d.record) BY <1>2 DEF ClaimFits
  <2>5. AllClean(i - 1, d.rows) => AllClean(i, {WithLimits(r) : r \in d.rows})
    BY <1>2 DEF AllClean, Clean
  <2> QED BY <2>2, <2>3, <2>4, <2>5
<1>3. CASE i = 3
  <2>1. Up(i, d).rows = d.rows /\ Up(i, d).record = IfAny(d.record, WithClaimTime)
    BY <1>3 DEF Up, Database
  <2>2. RowsFit(i, d.rows) BY <1>3 DEF RowsFit, HasColumns
  <2>3. AllClean(i - 1, d.rows) => AllClean(i, d.rows) BY <1>3 DEF AllClean, Clean
  <2>4. d.record \in Row BY DEF ClaimFits
  <2>5. /\ ClaimFits(i, IfAny(d.record, WithClaimTime))
        /\ IfAny(d.record, WithClaimTime).state = d.record.state
    <3>1. CASE d.record = NoRow BY <2>4, <3>1 DEF IfAny, NoRow, ClaimFits
    <3>2. CASE d.record # NoRow
      <4>1. IfAny(d.record, WithClaimTime) = [d.record EXCEPT !.claimedAt = now]
        BY <3>2 DEF IfAny, WithClaimTime
      <4>2. /\ [d.record EXCEPT !.claimedAt = now] \in Row
            /\ [d.record EXCEPT !.claimedAt = now].claimedAt = now
            /\ [d.record EXCEPT !.claimedAt = now].state = d.record.state
        BY <1>0, <2>4 DEF Row
      <4> QED BY <1>3, <4>1, <4>2 DEF ClaimFits
    <3> QED BY <3>1, <3>2
  <2> QED BY <2>1, <2>2, <2>3, <2>5
<1>4. CASE i = 4
  <2>1. Up(i, d).rows = d.rows /\ Up(i, d).record = IfAny(d.record, WithToken)
    BY <1>4 DEF Up, Database
  <2>2. RowsFit(i, d.rows) BY <1>4 DEF RowsFit, HasColumns
  <2>3. AllClean(i - 1, d.rows) => AllClean(i, d.rows) BY <1>4 DEF AllClean, Clean
  <2>4. d.record \in Row BY DEF ClaimFits
  <2>5. /\ ClaimFits(i, IfAny(d.record, WithToken))
        /\ IfAny(d.record, WithToken).state = d.record.state
    <3>1. CASE d.record = NoRow BY <2>4, <3>1 DEF IfAny, NoRow, ClaimFits
    <3>2. CASE d.record # NoRow
      <4> DEFINE c == [d.record EXCEPT !.token = Nobody]
      <4>1. IfAny(d.record, WithToken) = c BY <3>2 DEF IfAny, WithToken
      <4>2. /\ c \in Row /\ c.token = Nobody
            /\ c.claimedAt = d.record.claimedAt /\ c.state = d.record.state
        BY <2>4 DEF Row
      <4> HIDE DEF c
      <4> QED BY <1>4, <4>1, <4>2 DEF ClaimFits
    <3> QED BY <3>1, <3>2
  <2> QED BY <2>1, <2>2, <2>3, <2>5
<1> QED BY <1>1, <1>2, <1>3, <1>4 DEF Newest

LEMMA DownKeeps ==
    ASSUME TypeOK, NEW i \in 1 .. Newest, NEW d,
           RowsFit(i, d.rows), ClaimFits(i, d.record)
    PROVE  /\ RowsFit(i - 1, Down(i, d).rows)
           /\ ClaimFits(i - 1, Down(i, d).record)
           /\ Down(i, d).record.state \in {d.record.state, "absent"}
           /\ i > 2 => Down(i, d).rows = d.rows
           /\ i = 2 => Down(i, d).rows = {WithoutLimits(r) : r \in d.rows}
           /\ i = 1 => Down(i, d).rows = {}
<1>0. d.record \in Row BY DEF ClaimFits
<1>1. CASE i = 1
  <2>1. Down(i, d).rows = {} /\ Down(i, d).record = NoRow BY <1>1 DEF Down, Database
  <2>2. NoRow \in Row /\ NoRow.state = "absent" BY DEF NoRow, Row, States
  <2> QED BY <1>1, <2>1, <2>2 DEF RowsFit, ClaimFits
<1>2. CASE i = 2
  <2>1. /\ Down(i, d).rows = {WithoutLimits(r) : r \in d.rows}
        /\ Down(i, d).record = d.record
    BY <1>2 DEF Down, Database
  <2>2. RowsFit(i - 1, {WithoutLimits(r) : r \in d.rows})
    BY <1>2, LimitsOfRow DEF RowsFit, Revisions, Newest
  <2>3. ClaimFits(i - 1, d.record) BY <1>2 DEF ClaimFits
  <2> QED BY <1>2, <2>1, <2>2, <2>3
<1>3. CASE i = 3
  <2>1. Down(i, d).rows = d.rows /\ Down(i, d).record = IfAny(d.record, WithoutClaimTime)
    BY <1>3 DEF Down, Database
  <2>2. RowsFit(i - 1, d.rows) BY <1>3 DEF RowsFit, HasColumns
  <2>3. /\ ClaimFits(i - 1, IfAny(d.record, WithoutClaimTime))
        /\ IfAny(d.record, WithoutClaimTime).state = d.record.state
    <3>1. CASE d.record = NoRow BY <1>0, <3>1 DEF IfAny, NoRow, ClaimFits
    <3>2. CASE d.record # NoRow
      <4> DEFINE c == [d.record EXCEPT !.claimedAt = 0]
      <4>1. IfAny(d.record, WithoutClaimTime) = c BY <3>2 DEF IfAny, WithoutClaimTime
      <4>2. c \in Row /\ c.state = d.record.state BY <1>0 DEF Row
      <4> HIDE DEF c
      <4> QED BY <1>3, <4>1, <4>2 DEF ClaimFits
    <3> QED BY <3>1, <3>2
  <2> QED BY <1>3, <2>1, <2>2, <2>3
<1>4. CASE i = 4
  <2>1. Down(i, d).rows = d.rows /\ Down(i, d).record = IfAny(d.record, WithoutToken)
    BY <1>4 DEF Down, Database
  <2>2. RowsFit(i - 1, d.rows) BY <1>4 DEF RowsFit, HasColumns
  <2>3. /\ ClaimFits(i - 1, IfAny(d.record, WithoutToken))
        /\ IfAny(d.record, WithoutToken).state = d.record.state
    <3>1. CASE d.record = NoRow BY <1>0, <3>1 DEF IfAny, NoRow, ClaimFits
    <3>2. CASE d.record # NoRow
      <4> DEFINE c == [d.record EXCEPT !.token = Nobody]
      <4>1. IfAny(d.record, WithoutToken) = c BY <3>2 DEF IfAny, WithoutToken
      <4>2. /\ c \in Row /\ c.claimedAt = d.record.claimedAt /\ c.state = d.record.state
        BY <1>0 DEF Row
      <4> HIDE DEF c
      <4> QED BY <1>4, <4>1, <4>2 DEF ClaimFits
    <3> QED BY <3>1, <3>2
  <2> QED BY <1>4, <2>1, <2>2, <2>3
<1>5. CASE i = 5
  <2>1. Down(i, d) = d BY <1>5 DEF Down
  <2>2. RowsFit(i - 1, d.rows) /\ ClaimFits(i - 1, d.record)
    BY <1>5 DEF RowsFit, HasColumns, ClaimFits
  <2> QED BY <1>5, <2>1, <2>2
<1> QED BY <1>1, <1>2, <1>3, <1>4, <1>5 DEF Newest

-----------------------------------------------------------------------------
\* The steps of the invariant's proof.

\* The variables that no claim, row or command depends on keep their types.
LEMMA CountersKeepTypes ==
    ASSUME TypeOK, Commanded, UNCHANGED <<now, callers, holder, heldSince>>,
           revision' \in Revisions, RowsFit(revision', rows'), ClaimFits(revision', record'),
           refused' \in BOOLEAN, stained' \in BOOLEAN
    PROVE  TypeOK'
<1>1. commands' \in 0 .. MaxCommands BY MigrationBounds DEF TypeOK, Commanded
<1> QED BY <1>1 DEF TypeOK, RowsFit, ClaimFits, Revisions

\* Along the revisions of an upgrade.
LEMMA UpgradeResult ==
    ASSUME IInv, NEW target \in Revisions, target > revision
    PROVE  \A i \in revision .. target :
               LET d == UpgradePath(target)[i] IN
               /\ RowsFit(i, d.rows) /\ ClaimFits(i, d.record)
               /\ d.record.state = record.state
               /\ ~ stained => AllClean(i, d.rows)
<1> DEFINE at == UpgradePath(target)
           Good(i, d) == /\ RowsFit(i, d.rows) /\ ClaimFits(i, d.record)
                         /\ d.record.state = record.state
                         /\ ~ stained => AllClean(i, d.rows)
           S == {i \in Revisions : Good(i, at[i])}
<1>0. /\ TypeOK /\ heldSince <= now /\ revision \in Revisions
  BY DEF IInv, TypeOK, Revisions
<1>1. \A i \in revision .. target :
          at[i] = IF i = revision THEN Database(rows, record) ELSE Up(i, at[i - 1])
  BY <1>0, UpgradePathDef
<1> HIDE DEF at
<1>2. revision \in S
  <2>1. revision \in revision .. target /\ revision \in Revisions BY <1>0 DEF Revisions, Newest
  <2>2. at[revision].rows = rows /\ at[revision].record = record BY <1>1, <2>1 DEF Database
  <2>3. Good(revision, at[revision])
    BY <2>2 DEF IInv, TypeOK, RowsFit, CleanInv
  <2> QED BY <2>1, <2>3
<1>3. ASSUME NEW i \in revision + 1 .. target, i - 1 \in S PROVE i \in S
  <2>1. i \in 1 .. Newest /\ i \in revision .. target /\ i # revision /\ i \in Revisions
    BY <1>0 DEF Revisions, Newest
  <2>2. at[i] = Up(i, at[i - 1]) BY <1>1, <2>1
  <2>3. Good(i - 1, at[i - 1]) BY <1>3
  <2>4. Good(i, Up(i, at[i - 1])) BY <1>0, <2>1, <2>3, UpKeeps
  <2> QED BY <2>1, <2>2, <2>4
<1>4. \A i \in revision .. target : i \in S
  <2> HIDE DEF S
  <2> QED BY <1>0, <1>2, <1>3, UpwardChain
<1>5. \A i \in revision .. target : Good(i, at[i]) BY <1>4
<1> QED BY <1>5 DEF at

LEMMA UpgradeKeepsIInv ==
    ASSUME IInv, NEW target \in Revisions, Upgrade(target)
    PROVE  IInv'
<1> DEFINE at == UpgradePath(target)
           accepted == \A i \in revision + 1 .. target : Accepts(i, at[i - 1])
<1>0. /\ TypeOK /\ revision \in Revisions /\ target > revision
      /\ Commanded /\ refused' = ~ accepted
      /\ UNCHANGED <<now, callers, holder, heldSince, stained>>
      /\ IF accepted
         THEN revision' = target /\ rows' = at[target].rows /\ record' = at[target].record
         ELSE UNCHANGED <<revision, rows, record>>
  BY DEF IInv, TypeOK, Revisions, Upgrade, history, db
<1>1. \A i \in revision .. target :
          /\ RowsFit(i, at[i].rows) /\ ClaimFits(i, at[i].record)
          /\ ~ stained => AllClean(i, at[i].rows)
  BY <1>0, UpgradeResult
<1>2. \A i \in revision .. target :
          at[i] = IF i = revision THEN Database(rows, record) ELSE Up(i, at[i - 1])
  BY <1>0, UpgradePathDef
<1> HIDE DEF at
<1>3. ~ stained => accepted
  <2> SUFFICES ASSUME ~ stained, NEW i \in revision + 1 .. target PROVE Accepts(i, at[i - 1])
    OBVIOUS
  <2>1. i - 1 \in revision .. target /\ (i = 5 => i - 1 >= 2) BY <1>0 DEF Revisions, Newest
  <2>2. AllClean(i - 1, at[i - 1].rows) BY <1>1, <2>1
  <2>3. i = 5 => \A r \in at[i - 1].rows : PassesChecks(r) BY <2>1, <2>2 DEF AllClean, Clean
  <2> QED BY <2>3, TablesComeAndGo DEF Accepts
<1>4. RefusedOnlyByStain' BY <1>0, <1>3 DEF RefusedOnlyByStain
<1>5. CASE ~ accepted
  <2>1. UNCHANGED <<revision, rows, record>> BY <1>0, <1>5
  <2>2. RowsFit(revision', rows') /\ ClaimFits(revision', record')
    BY <1>0, <2>1 DEF IInv, TypeOK, RowsFit, ClaimFits
  <2>3. TypeOK' BY <1>0, <2>1, <2>2, CountersKeepTypes DEF TypeOK
  <2>4. ClaimFits(revision, record)' BY <1>0, <2>1 DEF IInv, ClaimFits
  <2>5. CleanInv' /\ HeadInv'
    BY <1>0, <2>1 DEF IInv, CleanInv, AllClean, HeadInv
  <2>6. heldSince' <= now' BY <1>0 DEF IInv
  <2> QED BY <1>4, <2>3, <2>4, <2>5, <2>6 DEF IInv
<1>6. CASE accepted
  <2>1. revision' = target /\ rows' = at[target].rows /\ record' = at[target].record
    BY <1>0, <1>6
  <2>2. target \in revision .. target BY <1>0 DEF Revisions, Newest
  <2>3. /\ RowsFit(revision', rows') /\ ClaimFits(revision', record')
        /\ ~ stained => AllClean(revision', rows')
    BY <1>1, <2>1, <2>2
  <2>4. TypeOK' BY <1>0, <2>1, <2>3, CountersKeepTypes DEF TypeOK
  <2>5. ClaimFits(revision, record)' BY <1>0, <2>3 DEF ClaimFits
  <2>6. CleanInv' BY <1>0, <2>3 DEF CleanInv, AllClean
  <2>7. HeadInv'
    <3> SUFFICES ASSUME target = 5 PROVE \A r \in at[target].rows : PassesChecks(r)
      BY <2>1 DEF HeadInv, Newest
    <3>1. 5 \in revision + 1 .. target BY <1>0 DEF Revisions, Newest
    <3>2. Accepts(5, at[5 - 1]) BY <1>6, <3>1
    <3>3. at[5] = Up(5, at[5 - 1]) BY <1>0, <1>2, <2>2
    <3>4. at[5] = at[5 - 1] BY <3>3 DEF Up
    <3> QED BY <3>2, <3>4 DEF Accepts
  <2>8. heldSince' <= now' BY <1>0 DEF IInv
  <2> QED BY <1>4, <2>4, <2>5, <2>6, <2>7, <2>8 DEF IInv
<1> QED BY <1>5, <1>6

\* Along the revisions of a downgrade.
LEMMA DowngradeResult ==
    ASSUME IInv, NEW target \in Revisions, target < revision
    PROVE  \A i \in target .. revision :
               LET d == DowngradePath(target)[i] IN
               /\ RowsFit(i, d.rows) /\ ClaimFits(i, d.record)
               /\ d.record.state \in {record.state, "absent"}
               /\ i >= 2 => d.rows = rows
               /\ i = 1 /\ revision >= 2 => d.rows = {WithoutLimits(r) : r \in rows}
               /\ i = 0 => d.rows = {}
<1> DEFINE at == DowngradePath(target)
           Good(i, d) == /\ RowsFit(i, d.rows) /\ ClaimFits(i, d.record)
                         /\ d.record.state \in {record.state, "absent"}
                         /\ i >= 2 => d.rows = rows
                         /\ i = 1 /\ revision >= 2 => d.rows = {WithoutLimits(r) : r \in rows}
                         /\ i = 0 => d.rows = {}
           S == {i \in Revisions : Good(i, at[i])}
<1>0. /\ TypeOK /\ revision \in Revisions /\ revision > 0
  BY DEF IInv, TypeOK, Revisions, Newest
<1>1. \A i \in target .. revision :
          at[i] = IF i = revision THEN Database(rows, record) ELSE Down(i + 1, at[i + 1])
  BY <1>0, DowngradePathDef
<1> HIDE DEF at
<1>2. revision \in S
  <2>1. revision \in target .. revision /\ revision \in Revisions BY <1>0 DEF Revisions, Newest
  <2>2. at[revision].rows = rows /\ at[revision].record = record BY <1>1, <2>1 DEF Database
  <2>3. RowsFit(revision, rows) /\ ClaimFits(revision, record)
    BY DEF IInv, TypeOK, RowsFit
  <2>4. Good(revision, at[revision]) BY <1>0, <2>1, <2>2, <2>3
  <2> QED BY <2>1, <2>4
<1>3. ASSUME NEW i \in target .. revision - 1, i + 1 \in S PROVE i \in S
  <2>1. /\ i + 1 \in 1 .. Newest /\ i \in target .. revision /\ i # revision /\ i \in Revisions
        /\ (i + 1) - 1 = i
    BY <1>0 DEF Revisions, Newest
  <2> DEFINE d == at[i + 1]
  <2>2. at[i] = Down(i + 1, d) BY <1>1, <2>1
  <2>3. Good(i + 1, d) BY <1>3
  <2> HIDE DEF d
  <2>4. /\ RowsFit(i, Down(i + 1, d).rows)
        /\ ClaimFits(i, Down(i + 1, d).record)
        /\ Down(i + 1, d).record.state \in {d.record.state, "absent"}
        /\ i + 1 > 2 => Down(i + 1, d).rows = d.rows
        /\ i + 1 = 2 => Down(i + 1, d).rows = {WithoutLimits(r) : r \in d.rows}
        /\ i + 1 = 1 => Down(i + 1, d).rows = {}
    <3>1. PICK j \in 1 .. Newest : j = i + 1 /\ j - 1 = i BY <2>1
    <3>2. RowsFit(j, d.rows) /\ ClaimFits(j, d.record) BY <2>3, <3>1
    <3> QED BY <1>0, <3>1, <3>2, DownKeeps
  <2>5. i >= 2 => Down(i + 1, d).rows = rows BY <2>1, <2>3, <2>4
  <2>6. i = 1 => Down(i + 1, d).rows = {WithoutLimits(r) : r \in rows} BY <2>1, <2>3, <2>4
  <2>7. i = 0 => Down(i + 1, d).rows = {} BY <2>4
  <2>8. Down(i + 1, d).record.state \in {record.state, "absent"} BY <2>3, <2>4
  <2>9. Good(i, Down(i + 1, d)) BY <2>4, <2>5, <2>6, <2>7, <2>8
  <2> QED BY <2>1, <2>2, <2>9
<1>4. \A i \in target .. revision : i \in S
  <2> HIDE DEF S
  <2> QED BY <1>0, <1>2, <1>3, DownwardChain
<1>5. \A i \in target .. revision : Good(i, at[i]) BY <1>4
<1> QED BY <1>5 DEF at

LEMMA DowngradeKeepsIInv ==
    ASSUME IInv, NEW target \in Revisions, Downgrade(target)
    PROVE  IInv'
<1> DEFINE at == DowngradePath(target)
           lost == \E r \in rows : r \in RunRow /\ r.response
<1>0. /\ TypeOK /\ revision \in Revisions /\ target < revision /\ Commanded
      /\ refused' = FALSE
      /\ UNCHANGED <<now, callers, holder, heldSince>>
      /\ revision' = target /\ rows' = at[target].rows /\ record' = at[target].record
      /\ stained' = (rows' # {} /\ (stained \/ (target < 2 /\ lost)))
  BY TablesComeAndGo DEF IInv, TypeOK, Revisions, Downgrade
<1>1. target \in target .. revision BY <1>0 DEF Revisions, Newest
<1>2. /\ RowsFit(target, rows') /\ ClaimFits(target, record')
      /\ target >= 2 => rows' = rows
      /\ target = 1 => rows' = {WithoutLimits(r) : r \in rows}
      /\ target = 0 => rows' = {}
  <2>1. target = 1 => revision >= 2 BY <1>0 DEF Revisions, Newest
  <2> QED BY <1>0, <1>1, <2>1, DowngradeResult
<1> HIDE DEF at
<1>3. TypeOK'
  <2>1. stained' \in BOOLEAN /\ refused' \in BOOLEAN BY <1>0
  <2> QED BY <1>0, <1>2, <2>1, CountersKeepTypes
<1>4. ClaimFits(revision, record)' BY <1>0, <1>2 DEF ClaimFits
<1>5. CleanInv'
  <2> SUFFICES ASSUME ~ stained', NEW r \in rows' PROVE Clean(target, r)
    BY <1>0 DEF CleanInv, AllClean, Clean
  <2>1. ~ stained /\ (target < 2 => ~ lost) /\ target # 0 BY <1>0, <1>2
  <2>2. CASE target >= 2
    <3>1. r \in rows /\ revision >= 2 BY <1>0, <1>2, <2>2 DEF Revisions, Newest
    <3> QED BY <2>1, <2>2, <3>1 DEF IInv, CleanInv, AllClean, Clean
  <2>3. CASE target = 1
    <3>1. PICK q \in rows : r = WithoutLimits(q) BY <1>2, <2>3
    <3>2. revision >= 2 BY <1>0, <2>3 DEF Revisions, Newest
    <3>3. q \in DataRow /\ PassesChecks(q) /\ (q \in RunRow => ~ q.response)
      BY <2>1, <2>3, <3>2 DEF IInv, TypeOK, CleanInv, AllClean, Clean
    <3> QED BY <2>3, <3>1, <3>3, CleanAgain DEF Clean
  <2> QED BY <2>1, <2>2, <2>3 DEF Revisions, Newest
<1>6. HeadInv' BY <1>0 DEF HeadInv, Revisions, Newest
<1>7. heldSince' <= now' /\ RefusedOnlyByStain' BY <1>0 DEF IInv, RefusedOnlyByStain
<1> QED BY <1>3, <1>4, <1>5, <1>6, <1>7 DEF IInv

\* A step that replaces rows by rows that the constraints admit.
LEMMA NewRowKeepsIInv ==
    ASSUME IInv, NEW r \in DataRow, HasColumns(revision, r), rows' \subseteq rows \union {r},
           revision = Newest => PassesChecks(r), ~ stained' => ~ stained /\ Clean(revision, r),
           stained' \in BOOLEAN, stained => stained',
           UNCHANGED <<revision, record, now, commands, refused, callers, holder, heldSince>>
    PROVE  IInv'
<1>1. TypeOK' BY DEF IInv, TypeOK
<1>2. ClaimFits(revision, record)' BY DEF IInv, ClaimFits
<1>3. CleanInv'
  <2> SUFFICES ASSUME ~ stained', NEW q \in rows' PROVE Clean(revision, q)
    BY DEF CleanInv, AllClean, Clean
  <2> QED BY DEF IInv, CleanInv, AllClean
<1>4. HeadInv' BY DEF IInv, HeadInv
<1>5. heldSince' <= now' /\ RefusedOnlyByStain' BY DEF IInv, RefusedOnlyByStain
<1> QED BY <1>1, <1>2, <1>3, <1>4, <1>5 DEF IInv

LEMMA InsertKeepsIInv == ASSUME IInv, NEW r \in DataRow, Insert(r) PROVE IInv'
<1>0. /\ rows' = rows \union {r} /\ revision >= Needs(r) /\ Sound(r)
      /\ UNCHANGED <<revision, record, now, commands, refused, callers, holder, heldSince, stained>>
      /\ revision \in Revisions /\ stained \in BOOLEAN
  BY DEF Insert, history, IInv, TypeOK, Revisions
<1>1. PassesChecks(r)
  <2>1. r \in UserRow \union ConversationRow => r.status = "member"
    BY <1>0 DEF Sound, Loads, LoadsUser, LoadsConversation
  <2>2. r \in MessageRow => r.role = "member" /\ r.content # "empty"
    BY <1>0 DEF Sound, Loads, LoadsMessage
  <2>3. r \in RunRow => r.status \in RunStatuses /\ r.limits = "positive" /\ EndRecorded(r)
    BY <1>0 DEF Sound, Loads, LoadsRun, EndRecorded
  <2>4. r \in StepRow => r.indexed BY <1>0 DEF Sound
  <2> QED BY <2>1, <2>2, <2>3, <2>4 DEF PassesChecks
<1>2. HasColumns(revision, r) /\ Clean(revision, r)
  <2>1. CASE r \in RunRow
    <3>1. revision >= 2 /\ r.limits = "positive"
      BY <1>0, <2>1 DEF Needs, Sound, Loads, LoadsRun
    <3> QED BY <1>0, <1>1, <3>1 DEF HasColumns, Clean, Revisions, Newest
  <2>2. CASE r \notin RunRow BY <1>1, <2>2 DEF HasColumns, Clean, WithLimits
  <2> QED BY <2>1, <2>2
<1> QED BY <1>0, <1>1, <1>2, NewRowKeepsIInv

LEMMA EndRunKeepsIInv ==
    ASSUME IInv, NEW r \in rows, NEW status \in {"succeeded", "failed"}, EndRun(r, status)
    PROVE  IInv'
<1> DEFINE ended == [r EXCEPT !.status = status, !.finished = TRUE,
                              !.response = (status = "succeeded"), !.reason = (status = "failed")]
<1>0. /\ r \in RunRow /\ revision >= Needs(r) /\ LoadsRun(r)
      /\ rows' = (rows \ {r}) \union {ended}
      /\ UNCHANGED <<revision, record, now, commands, refused, callers, holder, heldSince, stained>>
      /\ revision \in Revisions /\ stained \in BOOLEAN
  BY DEF EndRun, history, IInv, TypeOK, Revisions
<1>1. /\ ended \in RunRow /\ ended.status = status /\ ended.finished = TRUE
      /\ ended.response = (status = "succeeded") /\ ended.reason = (status = "failed")
      /\ ended.limits = "positive"
  BY <1>0 DEF RunRow, RunStatuses, LoadsRun
<1> HIDE DEF ended
<1>2. ended \in DataRow BY <1>1 DEF DataRow
<1>3. PassesChecks(ended)
  <2>1. /\ ended \notin UserRow /\ ended \notin ConversationRow
        /\ ended \notin MessageRow /\ ended \notin StepRow
    BY <1>1, <1>2, RowTables
  <2>2. EndRecorded(ended) /\ ended.status \in RunStatuses
    BY <1>1 DEF EndRecorded, RunStatuses
  <2> QED BY <1>1, <2>1, <2>2 DEF PassesChecks
<1>4. HasColumns(revision, ended) /\ Clean(revision, ended)
  <2>1. revision >= 2 BY <1>0 DEF Needs
  <2> QED BY <1>0, <1>1, <1>3, <2>1 DEF HasColumns, Clean, Revisions, Newest
<1> QED BY <1>0, <1>2, <1>3, <1>4, NewRowKeepsIInv

LEMMA WriteByHandKeepsIInv == ASSUME IInv, NEW r \in DataRow, WriteByHand(r) PROVE IInv'
<1>1. /\ rows' \subseteq rows \union {r} /\ Admits(revision, r) /\ stained' = TRUE
      /\ UNCHANGED <<revision, record, now, commands, refused, callers, holder, heldSince>>
  BY DEF WriteByHand
<1>2. HasColumns(revision, r) /\ (revision = Newest => PassesChecks(r))
  BY <1>1 DEF Admits, Newest
<1> QED BY <1>1, <1>2, NewRowKeepsIInv

\* A step that only concerns the claim.
LEMMA NewClaimKeepsIInv ==
    ASSUME IInv, UNCHANGED <<revision, rows, commands, refused, stained>>,
           ClaimFits(revision, record)', now' \in 0 .. MaxNow, heldSince' <= now',
           callers' \subseteq Attempts, holder' \in Attempts \union {Nobody},
           heldSince' \in 0 .. MaxNow
    PROVE  IInv'
<1>1. TypeOK' BY DEF IInv, TypeOK, ClaimFits
<1>2. CleanInv' /\ HeadInv' /\ RefusedOnlyByStain'
  BY DEF IInv, CleanInv, AllClean, Clean, HeadInv, RefusedOnlyByStain
<1> QED BY <1>1, <1>2 DEF IInv

LEMMA ClaimKeepsIInv == ASSUME IInv, NEW t \in Attempts, Claim(t) PROVE IInv'
<1>0. /\ record \in Row /\ now \in 0 .. MaxNow /\ now \in Nat /\ callers \subseteq Attempts
  BY MigrationBounds DEF IInv, TypeOK
<1>1. /\ record' \in {Claimed(t, now), Reclaimed(record, t, now)}
      /\ holder' = t /\ heldSince' = now /\ callers' = callers \union {t}
      /\ UNCHANGED <<revision, rows, now, commands, refused, stained>>
  BY DEF Claim, Holds
<1>2. record' \in Row /\ record'.token = t /\ record'.claimedAt = now
  BY <1>0, <1>1 DEF Claimed, Reclaimed, Row, States
<1>3. ClaimFits(revision, record)' BY <1>0, <1>1, <1>2 DEF ClaimFits
<1> QED BY <1>0, <1>1, <1>3, NewClaimKeepsIInv

LEMMA SettleKeepsIInv ==
    ASSUME IInv, NEW t \in Attempts, NEW state \in SettledStates, Settle(t, state)
    PROVE  IInv'
<1>0. /\ record \in Row /\ now \in 0 .. MaxNow /\ callers \subseteq Attempts
      /\ heldSince \in 0 .. MaxNow /\ holder \in Attempts \union {Nobody} /\ heldSince <= now
  BY DEF IInv, TypeOK
<1>1. /\ record' = Settled(record, state, t)
      /\ UNCHANGED <<revision, rows, now, commands, refused, callers, holder, heldSince, stained>>
  BY DEF Settle, history
<1>2. record' \in Row /\ record'.state # "started"
  BY <1>0, <1>1 DEF Settled, Row, States, SettledStates
<1>3. ClaimFits(revision, record)' BY <1>2 DEF ClaimFits
<1> QED BY <1>0, <1>1, <1>3, NewClaimKeepsIInv

LEMMA TakeoverKeepsIInv == ASSUME IInv, TakenOverUntokened PROVE IInv'
<1>0. /\ record \in Row /\ now \in 0 .. MaxNow /\ now \in Nat /\ callers \subseteq Attempts
  BY MigrationBounds DEF IInv, TypeOK
<1>1. /\ record' = [record EXCEPT !.claimedAt = now] /\ revision = 3
      /\ holder' = Nobody /\ heldSince' = now
      /\ UNCHANGED <<revision, rows, now, commands, refused, callers, stained>>
  BY DEF TakenOverUntokened, Holds
<1>2. record' \in Row /\ record'.claimedAt = now BY <1>0, <1>1 DEF Row
<1>3. ClaimFits(revision, record)' BY <1>0, <1>1, <1>2 DEF ClaimFits
<1> QED BY <1>0, <1>1, <1>3, NewClaimKeepsIInv

LEMMA TickKeepsIInv == ASSUME IInv, Tick PROVE IInv'
<1>0. /\ now \in 0 .. MaxNow /\ callers \subseteq Attempts
      /\ heldSince \in 0 .. MaxNow /\ holder \in Attempts \union {Nobody} /\ heldSince <= now
  BY DEF IInv, TypeOK
<1>1. /\ now < MaxNow /\ now' = now + 1
      /\ UNCHANGED <<revision, rows, record, commands, refused, callers, holder, heldSince, stained>>
  BY DEF Tick, history, db
<1>2. now' \in 0 .. MaxNow /\ heldSince' <= now' BY <1>0, <1>1, MigrationBounds
<1>3. ClaimFits(revision, record)' BY <1>1 DEF IInv, ClaimFits
<1> QED BY <1>0, <1>1, <1>2, <1>3, NewClaimKeepsIInv

\* Every reachable state satisfies the invariant.
THEOREM IInvInductive == Spec => []IInv
<1>1. Init => IInv
  <2> SUFFICES ASSUME Init PROVE IInv OBVIOUS
  <2>1. NoRow \in Row /\ NoRow.state = "absent" BY DEF NoRow, Row, States
  <2>2. TypeOK
    <3>1. 0 \in 0 .. MaxNow /\ 0 \in 0 .. MaxCommands BY MigrationBounds
    <3>2. 0 \in 0 .. Newest BY DEF Newest
    <3> QED BY <2>1, <3>1, <3>2 DEF Init, TypeOK
  <2>3. ClaimFits(revision, record) BY <2>1 DEF Init, ClaimFits
  <2> QED BY <2>2, <2>3
      DEF Init, IInv, CleanInv, AllClean, HeadInv, RefusedOnlyByStain
<1>2. IInv /\ [Next]_vars => IInv'
  <2> SUFFICES ASSUME IInv, [Next]_vars PROVE IInv' OBVIOUS
  <2>1. CASE UNCHANGED vars
    <3>1. UNCHANGED <<revision, rows, record, now, commands, refused, callers, holder, heldSince,
                      stained>>
      BY <2>1 DEF vars, db, history
    <3>2. ClaimFits(revision, record)' BY <3>1 DEF IInv, ClaimFits
    <3>3. /\ now' \in 0 .. MaxNow /\ heldSince' <= now' /\ heldSince' \in 0 .. MaxNow
          /\ callers' \subseteq Attempts /\ holder' \in Attempts \union {Nobody}
      BY <3>1 DEF IInv, TypeOK
    <3> QED BY <3>1, <3>2, <3>3, NewClaimKeepsIInv
  <2>2. ASSUME NEW target \in 0 .. Newest, Upgrade(target) \/ Downgrade(target) PROVE IInv'
    BY <2>2, UpgradeKeepsIInv, DowngradeKeepsIInv DEF Revisions
  <2>3. ASSUME NEW r \in DataRow, Insert(r) \/ WriteByHand(r) PROVE IInv'
    BY <2>3, InsertKeepsIInv, WriteByHandKeepsIInv
  <2>4. ASSUME NEW t \in Attempts, Claim(t) \/ \E state \in SettledStates : Settle(t, state)
        PROVE  IInv'
    BY <2>4, ClaimKeepsIInv, SettleKeepsIInv
  <2> QED BY <2>1, <2>2, <2>3, <2>4, EndRunKeepsIInv, TakeoverKeepsIInv, TickKeepsIInv DEF Next
<1> QED BY <1>1, <1>2, PTL DEF Spec

-----------------------------------------------------------------------------
\* What the application stores never makes the database refuse a migration.
THEOREM OnlyStainsRefuse == Spec => []RefusedOnlyByStain
<1>1. IInv => RefusedOnlyByStain BY DEF IInv
<1> QED BY <1>1, IInvInductive, PTL

\* A row at head loads and satisfies the constraints of 0005, whichever revisions
\* it has lived through; what may not load is a blank message or a step of an
\* unknown type.
THEOREM HeadRowsAreSound == Spec => []HeadRowsSound
<1>1. IInv => HeadRowsSound
  <2> SUFFICES ASSUME IInv, revision = Newest, NEW r \in rows
               PROVE  /\ \/ Loads(r)
                         \/ r \in MessageRow /\ r.role = "member" /\ r.content = "blank"
                         \/ r \in StepRow /\ r.type = "other"
                      /\ r \in RunRow => EndRecorded(r)
                      /\ r \in StepRow => r.indexed
    BY DEF HeadRowsSound
  <2>1. r \in DataRow /\ PassesChecks(r) BY DEF IInv, TypeOK, HeadInv
  <2>2. ASSUME r \in UserRow \union ConversationRow \union RunRow PROVE Loads(r)
    <3>1. r \notin MessageRow /\ r \notin StepRow BY <2>1, <2>2, RowTables
    <3> QED BY <2>1, <3>1 DEF PassesChecks, Loads, LoadsUser, LoadsConversation, LoadsRun
  <2>3. ASSUME r \in MessageRow, r.content # "blank" PROVE Loads(r)
    <3>1. r \notin UserRow \union ConversationRow \union RunRow \union StepRow
      BY <2>1, <2>3, RowTables
    <3>2. r.role = "member" /\ r.content = "text"
      BY <2>1, <2>3 DEF PassesChecks, MessageRow
    <3> QED BY <3>1, <3>2 DEF Loads, LoadsMessage
  <2>4. ASSUME r \in StepRow, r.type # "other" PROVE Loads(r)
    <3>1. r \notin UserRow \union ConversationRow \union RunRow \union MessageRow
      BY <2>1, <2>4, RowTables
    <3>2. r.type = "member" BY <2>4 DEF StepRow, Enum
    <3> QED BY <3>1, <3>2 DEF Loads, LoadsStep
  <2>5. r \in UserRow \union ConversationRow \union RunRow \union MessageRow \union StepRow
    BY <2>1 DEF DataRow
  <2> QED BY <2>1, <2>2, <2>3, <2>4, <2>5 DEF PassesChecks
<1> QED BY <1>1, IInvInductive, PTL

\* No sequence of migrations shortens the time to live of a claim.
THEOREM ClaimsAreHeld == Spec => NoEarlyTakeover
<1>1. IInv /\ [Next]_vars =>
          [record.state = "started" /\ (holder' # holder \/ heldSince' # heldSince)
               => heldSince + ClaimTtl <= now]_vars
  <2> SUFFICES ASSUME IInv, Next, record.state = "started",
                      holder' # holder \/ heldSince' # heldSince
               PROVE  heldSince + ClaimTtl <= now
    OBVIOUS
  <2>0. /\ heldSince \in Nat /\ now \in Nat /\ record.claimedAt \in Nat /\ ClaimTtl \in Nat
        /\ revision \in Nat
    BY MigrationBounds, ClaimTtlAssumption DEF IInv, TypeOK, Row, Newest
  <2>1. revision >= 3 /\ Expired(record, now)
    <3>1. CASE \E t \in Attempts : Claim(t)
      <4>1. record # NoRow BY DEF NoRow
      <4> QED BY <2>0, <3>1, <4>1 DEF Claim
    <3>2. CASE TakenOverUntokened BY <2>0, <3>2 DEF TakenOverUntokened
    <3> QED BY <3>1, <3>2
        DEF Next, Upgrade, Downgrade, Insert, WriteByHand, EndRun, Settle, Tick, history
  <2>2. heldSince <= record.claimedAt BY <2>1 DEF IInv, ClaimFits
  <2> QED BY <2>0, <2>1, <2>2 DEF Expired
<1> QED BY <1>1, IInvInductive, PTL DEF Spec, NoEarlyTakeover

\* An attempt whose claim was taken over decides nothing, through whichever
\* revisions the claim has passed since.
THEOREM HolderDecides == Spec => OutcomeByHolder
<1>1. IInv /\ [Next]_vars =>
          [record.state = "started" /\ record'.state \in SettledStates
               => record'.result = holder]_vars
  <2> SUFFICES ASSUME IInv, Next, record.state = "started", record'.state \in SettledStates
               PROVE  record'.result = holder
    OBVIOUS
  <2>0. /\ record \in Row /\ revision \in Revisions
        /\ "started" \notin SettledStates /\ "absent" \notin SettledStates
    BY DEF IInv, TypeOK, SettledStates, Revisions
  <2>1. record' # record BY <2>0
  <2>2. ASSUME NEW target \in Revisions, Upgrade(target) PROVE FALSE
    <3>1. target > revision /\ target \in revision .. target
      BY <2>0, <2>2 DEF Upgrade, Revisions, Newest
    <3>2. record' = UpgradePath(target)[target].record BY <2>1, <2>2 DEF Upgrade, db
    <3> QED BY <2>0, <3>1, <3>2, UpgradeResult
  <2>3. ASSUME NEW target \in Revisions, Downgrade(target) PROVE FALSE
    <3>1. target < revision /\ target \in target .. revision
      BY <2>0, <2>3 DEF Downgrade, Revisions, Newest
    <3>2. record' = DowngradePath(target)[target].record BY <2>1, <2>3 DEF Downgrade, db
    <3> QED BY <2>0, <3>1, <3>2, DowngradeResult
  <2>4. ASSUME NEW t \in Attempts, Claim(t) PROVE FALSE
    <3>1. record'.state = "started" BY <2>4 DEF Claim, Claimed, Reclaimed
    <3> QED BY <2>0, <3>1
  <2>5. ASSUME TakenOverUntokened PROVE FALSE
    <3>1. record'.state = "started" BY <2>0, <2>5 DEF TakenOverUntokened, Row
    <3> QED BY <2>0, <3>1
  <2>6. ASSUME NEW t \in Attempts, NEW state \in SettledStates, Settle(t, state)
        PROVE  record'.result = holder
    <3>1. revision >= 4 /\ record.token = t /\ record'.result = t
      BY <2>6 DEF Settle, OwnedBy, Settled
    <3>2. record.token \in {holder, Nobody} BY <3>1 DEF IInv, ClaimFits
    <3> QED BY <3>1, <3>2, NobodyAssumption
  <2> QED BY <2>1, <2>2, <2>3, <2>4, <2>5, <2>6
      DEF Next, Insert, WriteByHand, EndRun, Tick, db, Revisions
<1> QED BY <1>1, IInvInductive, PTL DEF Spec, OutcomeByHolder
=============================================================================
