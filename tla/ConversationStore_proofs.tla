---------------------- MODULE ConversationStore_proofs ----------------------
(***************************************************************************)
(* Proofs about one conversation in the database, for any number of        *)
(* workers and of messages.                                                *)
(*                                                                         *)
(* The order of the instants is the order of the appends for the messages  *)
(* that are still in memory too, so that the order in which they are       *)
(* committed does not matter.                                              *)
(***************************************************************************)
EXTENDS ConversationStore, TLAPS

\* The messages that are appended in memory and about to be inserted.
Drafts == {draft[w] : w \in {v \in Workers : pc[v] = "write" /\ job[v] = "append"}}

Written == messages \union Drafts

Types == /\ Written \subseteq Message
         /\ appended \in Seq(Ids)
         /\ now \in Nat
         /\ pc \in [Workers -> {"idle", "append", "write"}]
         /\ job \in [Workers -> Jobs]
         /\ draft = [w \in Workers |-> draft[w]]

\* Every message has been appended, and not later than now.
PastInv == \A m \in Written : m.at <= now /\ \E i \in DOMAIN appended : appended[i] = m.id

\* The clock never ran backwards between two appends.
OrderInv == \A m, n \in Written : \A i, j \in DOMAIN appended :
                appended[i] = m.id /\ appended[j] = n.id /\ i < j => m.at <= n.at

\* The inductive invariant.
IInv == Types /\ PastInv /\ OrderInv

-----------------------------------------------------------------------------
\* A step that appends nothing, stamps nothing, and brings no message that was
\* not appended before.
LEMMA NoNewMessage ==
    ASSUME IInv, Written' \subseteq Written, appended' = appended, now' \in Nat, now <= now',
           pc' \in [Workers -> {"idle", "append", "write"}], job' \in [Workers -> Jobs],
           draft' = [w \in Workers |-> draft'[w]]
    PROVE  IInv'
<1>1. Types' BY DEF IInv, Types
<1>2. PastInv'
  <2>1. \A m \in Written : m.at \in Nat BY DEF IInv, Types, Message
  <2> QED BY <2>1 DEF IInv, Types, PastInv
<1>3. OrderInv' BY DEF IInv, OrderInv
<1> QED BY <1>1, <1>2, <1>3 DEF IInv

\* append_message: the new message comes last, and not earlier than any other.
LEMMA AppendKeepsIInv ==
    ASSUME IInv, NEW w \in Workers, NEW id \in Ids, AppendMessage(w, id)
    PROVE  IInv'
<1> DEFINE new == [id |-> id, at |-> now]
           last == Len(appended) + 1
<1>0. Types /\ PastInv /\ OrderInv BY DEF IInv
<1>1. /\ pc' = [pc EXCEPT ![w] = "write"] /\ draft' = [draft EXCEPT ![w] = new]
      /\ appended' = Append(appended, id)
      /\ UNCHANGED <<status, messages, now, job>>
      /\ \A i \in DOMAIN appended : appended[i] # id
  BY DEF AppendMessage, Goto
<1>2. Written' \subseteq Written \union {new}
  <2>1. \A v \in Workers : draft'[v] = IF v = w THEN new ELSE draft[v] BY <1>0, <1>1 DEF Types
  <2>2. \A v \in Workers : v # w => pc'[v] = pc[v] BY <1>0, <1>1 DEF Types
  <2>3. \A v \in Workers : pc'[v] = "write" /\ job'[v] = "append" => draft'[v] \in Drafts \union {new}
    BY <1>1, <2>1, <2>2 DEF Drafts
  <2> QED BY <1>1, <2>3 DEF Written, Drafts
<1>3. /\ Len(appended) \in Nat
      /\ DOMAIN appended = 1 .. Len(appended) /\ DOMAIN appended' = 1 .. last
      /\ \A i \in 1 .. Len(appended) : appended'[i] = appended[i]
      /\ appended'[last] = id /\ appended' \in Seq(Ids)
  BY <1>0, <1>1 DEF Types
<1>4. new \in Message /\ new.id = id /\ new.at = now BY <1>0 DEF Types, Message
<1>5. \A m \in Written : m.at \in Nat /\ m.at <= now /\ m.id # id
  BY <1>0, <1>1 DEF Types, Message, PastInv
<1> HIDE DEF new
<1>6. Types'
  BY <1>0, <1>1, <1>2, <1>3, <1>4 DEF Types
<1>7. PastInv'
  BY <1>0, <1>1, <1>2, <1>3, <1>4 DEF PastInv, Types
<1>8. \A m \in Written, i \in DOMAIN appended' : appended'[i] = m.id => i \in DOMAIN appended
  BY <1>3, <1>5
<1>9. \A i \in DOMAIN appended' : appended'[i] = id => i = last
  BY <1>1, <1>3
<1>10. OrderInv'
  <2> SUFFICES ASSUME NEW m \in Written', NEW n \in Written',
                      NEW i \in DOMAIN appended', NEW j \in DOMAIN appended',
                      appended'[i] = m.id, appended'[j] = n.id, i < j
               PROVE  m.at <= n.at
    BY DEF OrderInv
  <2>1. CASE m \in Written /\ n \in Written
    <3>1. i \in DOMAIN appended /\ j \in DOMAIN appended BY <1>8, <2>1
    <3>2. appended[i] = m.id /\ appended[j] = n.id BY <1>3, <3>1
    <3> QED BY <1>0, <2>1, <3>1, <3>2 DEF OrderInv
  <2>2. CASE n = new BY <1>0, <1>2, <1>4, <1>5, <2>2 DEF Types
  <2>3. CASE m = new /\ n \in Written
    <3>1. i = last BY <1>4, <1>9, <2>3
    <3>2. j \in 1 .. Len(appended) BY <1>3, <1>8, <2>3
    <3> QED BY <1>3, <3>1, <3>2
  <2> QED BY <1>2, <2>1, <2>2, <2>3
<1> QED BY <1>6, <1>7, <1>10 DEF IInv

\* The invariant is inductive.
THEOREM IInvInductive == Spec => []IInv
<1>1. Init => IInv
  <2> SUFFICES ASSUME Init PROVE IInv OBVIOUS
  <2>1. Written = {} BY DEF Init, Written, Drafts
  <2>2. Types BY <2>1 DEF Init, Types, Jobs
  <2> QED BY <2>1, <2>2 DEF IInv, PastInv, OrderInv
<1>2. IInv /\ [Next]_vars => IInv'
  <2> SUFFICES ASSUME IInv, [Next]_vars PROVE IInv' OBVIOUS
  <2>0. Types BY DEF IInv
  <2>1. CASE Create \/ UNCHANGED vars
    <3>1. UNCHANGED <<messages, appended, now, pc, job, draft>> BY <2>1 DEF Create, vars
    <3>2. Written' = Written BY <3>1 DEF Written, Drafts
    <3> QED BY <2>0, <3>1, <3>2, NoNewMessage DEF Types
  <2>2. CASE Tick
    <3>1. UNCHANGED <<messages, appended, pc, job, draft>> /\ now' = now + 1 BY <2>2 DEF Tick
    <3>2. Written' = Written BY <3>1 DEF Written, Drafts
    <3> QED BY <2>0, <3>1, <3>2, NoNewMessage DEF Types
  <2>3. ASSUME NEW w \in Workers, NEW j \in Jobs, Load(w, j) \/ Refuse(w, j) PROVE IInv'
    <3>1. PICK label \in {"idle", "append", "write"} : Goto(w, label)
      BY <2>3 DEF Load, Refuse
    <3>2. /\ UNCHANGED <<messages, appended, now, draft>> /\ job' = [job EXCEPT ![w] = j]
          /\ label = "write" => j # "append"
      BY <2>0, <2>3, <3>1 DEF Load, Refuse, Goto, Types
    <3>3. Drafts' \subseteq Drafts
      <4>1. \A v \in Workers : pc'[v] = "write" /\ job'[v] = "append" =>
                v # w /\ pc[v] = "write" /\ job[v] = "append"
        BY <2>0, <3>1, <3>2 DEF Types, Goto
      <4> QED BY <3>2, <4>1 DEF Drafts
    <3>4. Written' \subseteq Written BY <3>2, <3>3 DEF Written
    <3> QED BY <2>0, <3>1, <3>2, <3>4, NoNewMessage DEF Types, Goto
  <2>4. ASSUME NEW w \in Workers, Write(w) \/ Abort(w) PROVE IInv'
    <3>1. /\ Goto(w, "idle") /\ UNCHANGED <<appended, now, job>>
          /\ draft' = [draft EXCEPT ![w] = Nothing]
          /\ messages' \subseteq messages \union Drafts
      BY <2>4 DEF Write, Abort, Drafts
    <3>2. Drafts' \subseteq Drafts
      <4>1. \A v \in Workers : pc'[v] = "write" /\ job'[v] = "append" =>
                pc[v] = "write" /\ job[v] = "append" /\ draft'[v] = draft[v]
        BY <2>0, <3>1 DEF Types, Goto
      <4> QED BY <4>1 DEF Drafts
    <3>3. Written' \subseteq Written BY <3>1, <3>2 DEF Written
    <3>4. now' \in Nat /\ now <= now' BY <2>0, <3>1 DEF Types
    <3>5. pc' \in [Workers -> {"idle", "append", "write"}] BY <2>0, <3>1 DEF Types, Goto
    <3>6. job' \in [Workers -> Jobs] BY <2>0, <3>1 DEF Types
    <3>7. draft' = [v \in Workers |-> draft'[v]] BY <2>0, <3>1 DEF Types
    <3>8. appended' = appended BY <3>1
    <3> QED BY <3>3, <3>4, <3>5, <3>6, <3>7, <3>8, NoNewMessage
  <2> QED BY <2>1, <2>2, <2>3, <2>4, AppendKeepsIInv DEF Next
<1> QED BY <1>1, <1>2, PTL DEF Spec

\* ORDER BY created_at, id gives back the order of the appends, whatever the
\* order of the commits, up to appends of the same instant.
THEOREM ReadOrder == Spec => []ReadInAppendOrder
<1>1. IInv => ReadInAppendOrder
  <2> SUFFICES ASSUME IInv, NEW m \in messages, NEW n \in messages,
                      NEW i \in DOMAIN appended, NEW j \in DOMAIN appended,
                      appended[i] = m.id, appended[j] = n.id, i < j, m.at # n.at
               PROVE  Before(m, n)
    BY DEF ReadInAppendOrder
  <2>1. m \in Written /\ n \in Written BY DEF Written
  <2>2. m.at \in Nat /\ n.at \in Nat BY <2>1 DEF IInv, Types, Message
  <2>3. m.at <= n.at BY <2>1 DEF IInv, OrderInv
  <2> QED BY <2>2, <2>3 DEF Before
<1> QED BY <1>1, IInvInductive, PTL

\* append_message() of the repository writes no status, so a use case that has
\* loaded an open conversation does not reopen one that was closed meanwhile.
THEOREM ClosedStaysClosed == Spec => ClosedNeverReopens
<1>1. IInv /\ [Next]_vars =>
          [(status \in {"archived", "deleted"}) => status' # "active"]_vars
  <2> SUFFICES ASSUME IInv, Next, status \in {"archived", "deleted"} PROVE status' # "active"
    OBVIOUS
  <2>1. ASSUME NEW w \in Workers, Write(w) PROVE status' # "active"
    <3>1. job[w] \in Jobs BY DEF IInv, Types
    <3> QED BY <2>1, <3>1 DEF Write, Jobs, Target
  <2> QED BY <2>1 DEF Next, Create, Tick, Load, Refuse, AppendMessage, Abort
<1> QED BY <1>1, IInvInductive, PTL DEF Spec, ClosedNeverReopens
=============================================================================
