--------------------------- MODULE AgentRun_proofs ---------------------------
(***************************************************************************)
(* Proofs about one agent run and its rows: for every set of step limits,  *)
(* every number of tool calls allowed and every number of steps recorded.  *)
(*                                                                         *)
(* The argument is that the rows are at all times the first n rows of the  *)
(* entity's steps, for some n: save() then adds exactly the missing ones,  *)
(* get() rebuilds exactly those n steps, and a bound on the steps of the   *)
(* entity is a bound on the rows.                                          *)
(***************************************************************************)
EXTENDS AgentRun, FiniteSetTheorems, TLAPS

\* The rows of the first n steps of q.
PrefixRows(q, n) == {[index |-> i, type |-> q[i]] : i \in 1 .. n}

ToolCalls(q) == {i \in DOMAIN q : q[i] = "tool_call"}

\* The rows are those of the first steps of the entity.
RowsInv == \E n \in 0 .. Len(run.steps) : stored.steps = PrefixRows(run.steps, n)

\* A run is granted its limit once, and a stored end is the end of the entity.
StoredInv ==
    /\ stored.status = "absent" => stored = NoRun
    /\ stored.status # "absent" => stored.maxSteps = run.maxSteps
    /\ stored.status \in TerminalStatuses => stored = Added(run)

\* The entity does its work within its limits.
BudgetInv ==
    /\ \A i \in DOMAIN run.steps : run.steps[i] \in WorkStepTypes => i <= run.maxSteps
    /\ ToolCallCount(run) <= MaxToolCalls

\* The inductive invariant.
IInv == TypeOK /\ RowsInv /\ StoredInv /\ BudgetInv

-----------------------------------------------------------------------------
\* The first n rows are n, numbered from 1.
LEMMA PrefixRowsCount ==
    ASSUME NEW q, NEW n \in Nat
    PROVE  /\ IsFiniteSet(PrefixRows(q, n))
           /\ Cardinality(PrefixRows(q, n)) = n
           /\ {x.index : x \in PrefixRows(q, n)} = 1 .. n
<1> DEFINE f == [i \in 1 .. n |-> [index |-> i, type |-> q[i]]]
<1>1. f \in Bijection(1 .. n, PrefixRows(q, n))
  <2>1. f \in Surjection(1 .. n, PrefixRows(q, n))
    BY DEF Surjection, PrefixRows
  <2>2. f \in Injection(1 .. n, PrefixRows(q, n))
    BY <2>1 DEF Injection, IsInjective, Surjection
  <2> QED BY <2>1, <2>2 DEF Bijection
<1>2. ExistsBijection(1 .. n, PrefixRows(q, n)) BY <1>1 DEF ExistsBijection
<1>3. IsFiniteSet(1 .. n) /\ Cardinality(1 .. n) = n BY FS_Interval
<1>4. {x.index : x \in PrefixRows(q, n)} = 1 .. n
  <2>1. \A i \in 1 .. n : f[i] \in PrefixRows(q, n) /\ f[i].index = i BY DEF PrefixRows
  <2>2. \A x \in PrefixRows(q, n) : x.index \in 1 .. n BY DEF PrefixRows
  <2> QED BY <2>1, <2>2
<1> QED BY <1>2, <1>3, <1>4, FS_Bijection

\* What add() inserts are the rows of all steps.
LEMMA AddedRows ==
    ASSUME NEW r \in Run
    PROVE  StepRows(r, 0) = PrefixRows(r.steps, Len(r.steps))
BY DEF StepRows, PrefixRows, Run

\* The highest index of the first n rows.
LEMMA HighestOfPrefix ==
    ASSUME NEW s, NEW q, NEW n \in Nat, s.steps = PrefixRows(q, n)
    PROVE  HighestIndex(s) = n
<1> DEFINE indices == {x.index : x \in s.steps} \union {0}
<1>1. indices = 0 .. n BY PrefixRowsCount
<1>2. \A m \in 0 .. n : (\A i \in 0 .. n : i <= m) <=> m = n OBVIOUS
<1> QED BY <1>1, <1>2 DEF HighestIndex

\* save() completes a prefix of the rows: it leaves out none, repeats none.
LEMMA SavedRows ==
    ASSUME NEW s, NEW r \in Run, NEW n \in 0 .. Len(r.steps),
           s.steps = PrefixRows(r.steps, n)
    PROVE  Saved(s, r).steps = PrefixRows(r.steps, Len(r.steps))
<1>1. HighestIndex(s) = n BY HighestOfPrefix
<1>2. Len(r.steps) \in Nat /\ DOMAIN r.steps = 1 .. Len(r.steps) BY DEF Run
<1>3. PrefixRows(r.steps, n) \union StepRows(r, n) = PrefixRows(r.steps, Len(r.steps))
  BY <1>2 DEF StepRows, PrefixRows
<1> QED BY <1>1, <1>3 DEF Saved

\* get() rebuilds the first n steps from their rows.
LEMMA LoadedSteps ==
    ASSUME NEW s, NEW q \in Seq(StepTypes), NEW n \in 0 .. Len(q),
           s.steps = PrefixRows(q, n)
    PROVE  /\ Loaded(s).steps \in Seq(StepTypes)
           /\ Len(Loaded(s).steps) = n
           /\ \A i \in 1 .. n : Loaded(s).steps[i] = q[i]
<1>1. Cardinality(s.steps) = n BY PrefixRowsCount
<1>2. \A i \in 1 .. n : (CHOOSE x \in s.steps : x.index = i).type = q[i]
  <2> TAKE i \in 1 .. n
  <2> DEFINE y == [index |-> i, type |-> q[i]]
  <2>1. y \in s.steps /\ y.index = i BY DEF PrefixRows
  <2>2. \A x \in s.steps : x.index = i => x = y BY DEF PrefixRows
  <2>3. (CHOOSE x \in s.steps : x.index = i) = y BY <2>1, <2>2
  <2>4. y.type = q[i] OBVIOUS
  <2> HIDE DEF y
  <2> QED BY <2>3, <2>4
<1>3. Loaded(s).steps = [i \in 1 .. n |-> (CHOOSE x \in s.steps : x.index = i).type]
  BY <1>1 DEF Loaded
<1>4. \A i \in 1 .. n : q[i] \in StepTypes OBVIOUS
<1>5. Loaded(s).steps = [i \in 1 .. n |-> q[i]] BY <1>2, <1>3
<1>6. n \in Nat OBVIOUS
<1>7. [i \in 1 .. n |-> q[i]] \in [1 .. n -> StepTypes] BY <1>4
<1> QED BY <1>5, <1>6, <1>7

\* A step of another type adds no tool call; a tool call adds one.
LEMMA ToolCallsAppend ==
    ASSUME NEW q \in Seq(StepTypes), NEW type \in StepTypes
    PROVE  /\ IsFiniteSet(ToolCalls(q))
           /\ Cardinality(ToolCalls(q)) \in Nat
           /\ type # "tool_call" => ToolCalls(Append(q, type)) = ToolCalls(q)
           /\ type = "tool_call" =>
                  Cardinality(ToolCalls(Append(q, type))) = Cardinality(ToolCalls(q)) + 1
<1>1. IsFiniteSet(1 .. Len(q)) BY FS_Interval
<1>2. ToolCalls(q) \subseteq 1 .. Len(q) BY DEF ToolCalls
<1>3. IsFiniteSet(ToolCalls(q)) BY <1>1, <1>2, FS_Subset
<1>4. Cardinality(ToolCalls(q)) \in Nat BY <1>3, FS_CardinalityType
<1>5. ASSUME type # "tool_call" PROVE ToolCalls(Append(q, type)) = ToolCalls(q)
  BY <1>5 DEF ToolCalls
<1>6. ASSUME type = "tool_call"
      PROVE  ToolCalls(Append(q, type)) = ToolCalls(q) \union {Len(q) + 1}
  BY <1>6 DEF ToolCalls
<1>7. Len(q) + 1 \notin ToolCalls(q) BY <1>2
<1> QED BY <1>3, <1>4, <1>5, <1>6, <1>7, FS_AddElement

\* A prefix has no more tool calls than the whole.
LEMMA ToolCallsPrefix ==
    ASSUME NEW q \in Seq(StepTypes), NEW p \in Seq(StepTypes), Len(p) <= Len(q),
           \A i \in 1 .. Len(p) : p[i] = q[i]
    PROVE  Cardinality(ToolCalls(p)) <= Cardinality(ToolCalls(q))
<1>0. Len(q) \in Int OBVIOUS
<1>1. IsFiniteSet(1 .. Len(q))
  BY ONLY <1>0, FS_Interval
<1>2. ToolCalls(q) \subseteq 1 .. Len(q) BY DEF ToolCalls
<1>3. IsFiniteSet(ToolCalls(q)) BY <1>1, <1>2, FS_Subset
<1>4. ToolCalls(p) \subseteq ToolCalls(q) BY DEF ToolCalls
<1> QED BY <1>3, <1>4, FS_Subset

\* The rows stay a prefix while steps are appended to the entity.
LEMMA RowsInvAppend ==
    ASSUME NEW q \in Seq(StepTypes), NEW type \in StepTypes, NEW n \in 0 .. Len(q)
    PROVE  /\ PrefixRows(Append(q, type), n) = PrefixRows(q, n)
           /\ n \in 0 .. Len(Append(q, type))
           /\ Append(q, type) \in Seq(StepTypes)
           /\ Len(Append(q, type)) = Len(q) + 1
BY DEF PrefixRows

-----------------------------------------------------------------------------
\* What the steps of the entity have in common: it changes by one step at most,
\* within its budget, and its rows are left alone.
LEMMA EntityStep ==
    ASSUME IInv, stored' = stored, run.status \notin TerminalStatuses,
           NEW type \in StepTypes, WithinBudget(run, type),
           run' \in [status : Statuses, steps : {run.steps, Append(run.steps, type)},
                     maxSteps : {run.maxSteps}]
    PROVE  IInv'
<1> DEFINE q == run.steps
           p == run'.steps
<1> USE DEF Run
<1>1. TypeOK /\ RowsInv /\ StoredInv /\ BudgetInv BY DEF IInv
<1>2. q \in Seq(StepTypes) /\ Len(q) \in Nat /\ run.maxSteps \in Nat
  <2>1. run \in Run BY <1>1 DEF TypeOK
  <2>2. run.maxSteps \in StepLimits /\ q \in Seq(StepTypes) BY <2>1
  <2>3. run.maxSteps \in Nat BY <2>2, LimitsAssumption
  <2> QED BY <2>2, <2>3
<1>3. run'.maxSteps = run.maxSteps /\ p \in {q, Append(q, type)} /\ run'.status \in Statuses
  OBVIOUS
<1>4. TypeOK'
  BY <1>1, <1>2, <1>3, RowsInvAppend DEF TypeOK
<1>5. RowsInv'
  <2>1. PICK n \in 0 .. Len(q) : stored.steps = PrefixRows(q, n) BY <1>1 DEF RowsInv
  <2>2. n \in 0 .. Len(p) /\ stored.steps = PrefixRows(p, n)
    BY <1>2, <1>3, <2>1, RowsInvAppend
  <2> QED BY <2>2 DEF RowsInv
<1>6. stored.status \notin TerminalStatuses
  BY <1>1 DEF StoredInv, Added
<1>7. StoredInv'
  BY <1>1, <1>3, <1>6 DEF StoredInv
<1>8. BudgetInv'
  <2>1. \A i \in DOMAIN q : q[i] \in WorkStepTypes => i <= run.maxSteps
    BY <1>1 DEF BudgetInv
  <2>2. \A i \in DOMAIN p : p[i] \in WorkStepTypes => i <= run'.maxSteps
    <3>1. type \in WorkStepTypes => Len(q) + 1 <= run.maxSteps
      BY <1>2 DEF WithinBudget, WorkStepTypes, TerminalStepTypes
    <3>2. CASE p = q BY <1>3, <2>1, <3>2
    <3>3. CASE p = Append(q, type)
      <4> HIDE DEF p, q
      <4> QED BY <1>2, <1>3, <2>1, <3>1, <3>3
    <3> QED BY <1>3, <3>2, <3>3
  <2>3. Cardinality(ToolCalls(q)) <= MaxToolCalls
    BY <1>1 DEF BudgetInv, ToolCallCount, ToolCalls
  <2>4. type = "tool_call" => Cardinality(ToolCalls(q)) < MaxToolCalls
    BY DEF WithinBudget, ToolCallCount, ToolCalls, TerminalStepTypes
  <2>5. Cardinality(ToolCalls(p)) <= MaxToolCalls
    <3>1. CASE p = q BY <2>3, <3>1
    <3>2. CASE p = Append(q, type)
      <4>1. MaxToolCalls \in Nat BY LimitsAssumption
      <4> HIDE DEF p, q
      <4> QED BY <1>2, <2>3, <2>4, <3>2, <4>1, ToolCallsAppend
    <3> QED BY <1>3, <3>1, <3>2
  <2> QED BY <2>2, <2>5 DEF BudgetInv, ToolCallCount, ToolCalls
<1> QED BY <1>4, <1>5, <1>7, <1>8 DEF IInv

\* The invariant is inductive.
THEOREM IInvInductive == Spec => []IInv
<1>1. Init => IInv
  <2> SUFFICES ASSUME Init PROVE IInv OBVIOUS
  <2>1. PICK limit \in StepLimits : run = NewRun(limit) BY DEF Init
  <2>2. limit \in Nat /\ limit > 0 BY LimitsAssumption
  <2>3. run.steps = << >> /\ Len(run.steps) = 0 /\ run.maxSteps = limit BY <2>1 DEF NewRun
  <2>4. stored.steps = {} /\ stored.maxSteps = 0 /\ stored.status = "absent"
    BY DEF Init, NoRun
  <2>5. TypeOK
    BY <2>1, <2>4 DEF Init, TypeOK, NewRun, Run, Statuses, NoRun, StoredRun
  <2>6. RowsInv BY <2>3, <2>4 DEF RowsInv, PrefixRows
  <2>7. StoredInv
    BY <2>4 DEF Init, StoredInv, TerminalStatuses
  <2>8. BudgetInv
    <3>1. ToolCalls(run.steps) = {} BY <2>3 DEF ToolCalls
    <3> QED BY <2>2, <2>3, <3>1, FS_EmptySet, LimitsAssumption
            DEF BudgetInv, ToolCallCount, ToolCalls
  <2> QED BY <2>5, <2>6, <2>7, <2>8 DEF IInv
<1>2. IInv /\ [Next]_vars => IInv'
  <2> SUFFICES ASSUME IInv, [Next]_vars PROVE IInv' OBVIOUS
  <2>0. TypeOK /\ RowsInv /\ StoredInv /\ BudgetInv BY DEF IInv
  <2> USE DEF Run
  <2>1. CASE Start
    BY <2>0, <2>1, EntityStep
       DEF Start, CanStart, Started, TypeOK, Statuses, TerminalStatuses, WithinBudget,
           StepTypes, TerminalStepTypes
  <2>2. CASE Finish
    BY <2>0, <2>2, EntityStep
       DEF Finish, CanFinish, CanRecord, Finished, TypeOK, Statuses, TerminalStatuses,
           StepTypes, TerminalStepTypes
  <2>3. CASE Fail
    BY <2>0, <2>3, EntityStep
       DEF Fail, CanFail, CanRecord, Failed, TypeOK, Statuses, TerminalStatuses,
           StepTypes, TerminalStepTypes, WithinBudget
  <2>4. ASSUME NEW type \in StepTypes, RecordStep(type) PROVE IInv'
    BY <2>0, <2>4, EntityStep
       DEF RecordStep, CanRecord, Recorded, TypeOK, Statuses, TerminalStatuses,
           StepTypes, TerminalStepTypes
  <2>5. CASE Add \/ Save
    <3>1. PICK n \in 0 .. Len(run.steps) : stored.steps = PrefixRows(run.steps, n)
      BY <2>0 DEF RowsInv
    <3>2. run \in Run /\ Len(run.steps) \in Nat /\ run.maxSteps \in StepLimits
      BY <2>0 DEF TypeOK
    <3>3. stored'.steps = PrefixRows(run.steps, Len(run.steps))
      BY <2>5, <3>1, <3>2, AddedRows, SavedRows DEF Add, Save, Added
    <3>4. stored' = [status |-> run.status, steps |-> StepRows(run, 0), maxSteps |-> run.maxSteps]
      BY <2>0, <2>5, <3>2, <3>3, AddedRows DEF Add, Save, Added, Saved, StoredInv
    <3>5. StepRows(run, 0) \subseteq StepRow
      BY <3>2 DEF StepRows, StepRow
    <3>6. run' = run BY <2>5 DEF Add, Save
    <3>7. TypeOK'
      BY <2>0, <3>2, <3>4, <3>5, <3>6 DEF TypeOK, StoredRun
    <3>8. RowsInv' BY <3>2, <3>3, <3>6 DEF RowsInv
    <3>10. StoredInv'
      BY <2>0, <3>2, <3>4, <3>6 DEF StoredInv, Added, Statuses, TerminalStatuses
    <3>11. BudgetInv' BY <2>0, <3>6 DEF BudgetInv, ToolCallCount
    <3> QED BY <3>7, <3>8, <3>10, <3>11 DEF IInv
  <2>6. CASE Reload
    <3>1. PICK n \in 0 .. Len(run.steps) : stored.steps = PrefixRows(run.steps, n)
      BY <2>0 DEF RowsInv
    <3> DEFINE q == run.steps
               p == Loaded(stored).steps
    <3>2. q \in Seq(StepTypes) /\ Len(q) \in Nat /\ run.maxSteps \in StepLimits BY <2>0 DEF TypeOK
    <3>3. p \in Seq(StepTypes) /\ Len(p) = n /\ \A i \in 1 .. n : p[i] = q[i]
      BY <3>1, <3>2, LoadedSteps
    <3>4. run' = [status |-> stored.status, steps |-> p, maxSteps |-> stored.maxSteps]
          /\ stored' = stored
      BY <2>6 DEF Reload, Loaded
    <3>5. stored.status # "absent" /\ stored.maxSteps = run.maxSteps
      BY <2>0, <2>6 DEF Reload, StoredInv
    <3> HIDE DEF p
    <3>6. TypeOK' BY <2>0, <3>2, <3>3, <3>4, <3>5 DEF TypeOK, StoredRun
    <3>7. stored.steps = PrefixRows(p, n)
      BY <3>1, <3>3 DEF PrefixRows
    <3>8. RowsInv' BY <3>3, <3>4, <3>7 DEF RowsInv
    <3>10. run' \in Run BY <3>6 DEF TypeOK
    <3>11. StepRows(run', 0) = stored.steps
      BY <3>3, <3>4, <3>7, <3>10, AddedRows
    <3>12. stored' = Added(run')
      BY <2>0, <3>4, <3>11 DEF Added, TypeOK, StoredRun
    <3>13. StoredInv'
      BY <2>0, <3>4, <3>5, <3>12 DEF StoredInv
    <3>14. BudgetInv'
      <4>1. \A i \in DOMAIN p : p[i] \in WorkStepTypes => i <= stored.maxSteps
        BY <2>0, <3>2, <3>3, <3>5 DEF BudgetInv
      <4>2. Cardinality(ToolCalls(p)) <= Cardinality(ToolCalls(q))
        BY <3>2, <3>3, ToolCallsPrefix
      <4>3. Cardinality(ToolCalls(q)) <= MaxToolCalls
        BY <2>0 DEF BudgetInv, ToolCallCount, ToolCalls
      <4>4. Cardinality(ToolCalls(p)) \in Nat /\ Cardinality(ToolCalls(q)) \in Nat
        BY <3>2, <3>3, ToolCallsAppend DEF StepTypes, WorkStepTypes
      <4>5. Cardinality(ToolCalls(p)) <= MaxToolCalls
        BY <4>2, <4>3, <4>4, LimitsAssumption
      <4> QED BY <3>4, <4>1, <4>5 DEF BudgetInv, ToolCallCount, ToolCalls
    <3> QED BY <3>6, <3>8, <3>13, <3>14 DEF IInv
  <2>7. CASE UNCHANGED vars
    BY <2>0, <2>7
       DEF vars, IInv, TypeOK, RowsInv, StoredInv, BudgetInv, ToolCallCount, Added, StepRows
  <2> QED BY <2>1, <2>2, <2>3, <2>4, <2>5, <2>6, <2>7 DEF Next
<1> QED BY <1>1, <1>2, PTL DEF Spec

\* _ensure_step_budget bounds the work of the entity and of its rows, whatever
\* is recorded, saved and loaded when: beyond the limit there are only steps that
\* say how the run ended.
THEOREM BudgetHolds == Spec => []BudgetRespected
<1>1. IInv => BudgetRespected
  <2> SUFFICES ASSUME IInv PROVE BudgetRespected OBVIOUS
  <2>1. TypeOK /\ RowsInv /\ StoredInv /\ BudgetInv BY DEF IInv
  <2> DEFINE q == run.steps
             calls == {x \in stored.steps : x.type = "tool_call"}
  <2>2. PICK n \in 0 .. Len(q) : stored.steps = PrefixRows(q, n)
    BY <2>1 DEF RowsInv
  <2>3. q \in Seq(StepTypes) /\ Len(q) \in Nat BY <2>1 DEF TypeOK, Run
  <2>4. \A x \in stored.steps : x.index \in DOMAIN q /\ x = [index |-> x.index, type |-> q[x.index]]
    BY <2>2, <2>3 DEF PrefixRows
  <2>5. \A x \in stored.steps : x.type \in WorkStepTypes => x.index <= stored.maxSteps
    <3>1. CASE stored.status = "absent" BY <2>1, <3>1 DEF StoredInv, NoRun
    <3>2. CASE stored.status # "absent" BY <2>1, <2>4, <3>2 DEF StoredInv, BudgetInv
    <3> QED BY <3>1, <3>2
  <2>6. Cardinality(calls) <= MaxToolCalls
    <3> DEFINE f == [x \in calls |-> x.index]
    <3>1. \A x \in calls : x.index \in ToolCalls(q) BY <2>4 DEF ToolCalls
    <3>2. f \in Injection(calls, ToolCalls(q))
      BY <2>4, <3>1 DEF Injection, IsInjective
    <3>3. IsFiniteSet(ToolCalls(q)) /\ Cardinality(ToolCalls(q)) \in Nat
      BY <2>3, ToolCallsAppend DEF StepTypes, WorkStepTypes
    <3>4. IsFiniteSet(calls) /\ Cardinality(calls) <= Cardinality(ToolCalls(q))
      BY <3>2, <3>3, FS_Injection DEF ExistsInjection
    <3>5. Cardinality(calls) \in Nat BY <3>4, FS_CardinalityType
    <3>6. Cardinality(ToolCalls(q)) <= MaxToolCalls
      BY <2>1 DEF BudgetInv, ToolCallCount, ToolCalls
    <3> QED BY ONLY <3>3, <3>4, <3>5, <3>6, LimitsAssumption
  <2> QED BY <2>1, <2>5, <2>6 DEF BudgetRespected, BudgetInv
<1> QED BY <1>1, IInvInductive, PTL

\* add(), save() and get() keep the rows an unbroken prefix of the steps.
THEOREM StoredStepsHold == Spec => []StoredStepsArePrefix
<1>1. IInv => StoredStepsArePrefix
  <2> SUFFICES ASSUME IInv PROVE StoredStepsArePrefix OBVIOUS
  <2>1. TypeOK /\ RowsInv BY DEF IInv
  <2>2. PICK n \in 0 .. Len(run.steps) : stored.steps = PrefixRows(run.steps, n)
    BY <2>1 DEF RowsInv
  <2>3. n \in Nat /\ Len(run.steps) \in Nat BY <2>1 DEF TypeOK, Run
  <2>4. Gapless(stored) BY <2>2, <2>3, PrefixRowsCount DEF Gapless
  <2>5. \A x \in stored.steps : x.index <= Len(run.steps) /\ run.steps[x.index] = x.type
    BY <2>2, <2>3 DEF PrefixRows
  <2> QED BY <2>4, <2>5 DEF StoredStepsArePrefix
<1> QED BY <1>1, IInvInductive, PTL

\* Once a terminal status is in the database no save() changes the run's rows:
\* a terminal entity never becomes anything else, and one loaded again is equal.
THEOREM StoredEndHolds == Spec => StoredEndIsFinal
<1>1. IInv /\ [Next]_vars => [stored.status \in TerminalStatuses => stored' = stored]_vars
  <2> SUFFICES ASSUME IInv, Next, stored.status \in TerminalStatuses
               PROVE  stored' = stored
    OBVIOUS
  <2>0. TypeOK /\ RowsInv /\ StoredInv BY DEF IInv
  <2>1. stored = Added(run) BY <2>0 DEF StoredInv
  <2>2. stored # NoRun BY DEF NoRun, TerminalStatuses
  <2>3. CASE Save
    <3>1. PICK n \in 0 .. Len(run.steps) : stored.steps = PrefixRows(run.steps, n)
      BY <2>0 DEF RowsInv
    <3>2. run \in Run BY <2>0 DEF TypeOK
    <3>3. stored'.steps = PrefixRows(run.steps, Len(run.steps))
      BY <2>3, <3>1, <3>2, SavedRows DEF Save
    <3> QED BY <2>1, <2>3, <3>2, <3>3, AddedRows DEF Save, Saved, Added
  <2> QED BY <2>2, <2>3 DEF Next, Start, Finish, Fail, RecordStep, Add, Reload
<1> QED BY <1>1, IInvInductive, PTL DEF Spec, StoredEndIsFinal
=============================================================================
