-------------------------- MODULE RunExecutionProofs --------------------------
(***************************************************************************)
(* Proofs about RunExecution, for any definitions, handlers, requests and  *)
(* number of attempts.                                                     *)
(*                                                                         *)
(* None of the properties is inductive.  What carries them is what each    *)
(* handler knows at its pc (HandlerOK): nobody takes the row away from it, *)
(* nor does the row tell it anything after the claim, so the facts are     *)
(* about its own index, the definition and what only ever grows: the       *)
(* approvals and the ledger.                                               *)
(***************************************************************************)
EXTENDS RunExecution, TLAPS

\* Every approval step below j was approved.
Passed(j) == \A i \in StepIndex : i < j /\ IsApproval(i) => i \in approved

\* What holds of handler h at each of its pcs.
HandlerOK(h) ==
  /\ pc[h] \in {"record", "effect", "fetch", "consume", "call", "advance", "await",
                "uncertain", "uncertain_event"} => index[h] \in StepIndex
  /\ pc[h] \in {"effect", "fetch", "consume", "call", "advance",
                "uncertain", "uncertain_event"} => ~IsApproval(index[h])
  /\ pc[h] \in {"fail", "fail_event"} =>
       \/ ReturnsAfterFail(index[h])
       \/ index[h] \in StepIndex /\ ~IsApproval(index[h])
  /\ pc[h] \in {"fetch", "consume", "call"} => ~IsTicket(index[h])
  /\ pc[h] = "record" /\ IsTicket(index[h]) => effects[index[h]] = 1
  /\ pc[h] \in ExecutingPcs => Passed(index[h])

\* What holds of the run's row: it is parked inside the definition, and the
\* approval steps behind it were approved.
RowOK ==
  /\ state # "leased"
  /\ state = "awaiting_approval" => current_step <= StepCount
  /\ Passed(current_step)

\* What holds of the ledger.
LedgerOK ==
  /\ \A i \in StepIndex : effects[i] \in {0, 1}
  /\ ApprovalGate
  /\ LedgerBeforeEvidence

Inv == TypeOK /\ RowOK /\ LedgerOK /\ \A h \in Handlers : HandlerOK(h)

-----------------------------------------------------------------------------
\* The number of steps is a natural number and every step is a record.
LEMMA DefinitionType ==
  ASSUME TypeOK
  PROVE  /\ StepCount \in Nat
         /\ definition.steps \in Seq(Step)
         /\ ApprovalPrecedes(definition.steps)
         /\ StepCount <= MaxSteps
BY DefinitionsAssumption DEF TypeOK, StepCount

\* The effects declared by the definition stand behind an approval step.
LEMMA GateBeforeEffect ==
  ASSUME TypeOK, NEW i \in StepIndex, StepAt(i).sideEffect
  PROVE  i - 1 \in StepIndex /\ IsApproval(i - 1)
BY DefinitionType DEF StepIndex, StepAt, StepCount, IsApproval, ApprovalPrecedes

\* Dispatch sends a handler to a pc that its step allows.
LEMMA DispatchOK ==
  ASSUME TypeOK, NEW i \in 0..(StepCount + 1)
  PROVE  /\ Dispatch(i) \in {"complete", "record", "uncertain", "consume", "effect", "fetch", "fail"}
         /\ Dispatch(i) # "complete" => i \in StepIndex
         /\ Dispatch(i) \in {"effect", "fetch", "consume", "uncertain"} => ~IsApproval(i)
         /\ Dispatch(i) = "fail" => ~IsApproval(i)
         /\ Dispatch(i) \in {"fetch", "consume", "record"} => ~IsTicket(i)
<1> DEFINE step == StepAt(i)
<1>1. CASE i >= StepCount
  BY <1>1, DefinitionType DEF Dispatch
<1>2. CASE ~(i >= StepCount)
  <2>1. i \in StepIndex
    BY <1>2, DefinitionType DEF StepIndex
  <2> QED
    BY <1>2, <2>1 DEF Dispatch, IsApproval, IsTicket
<1> QED BY <1>1, <1>2

\* The run that createRun leaves satisfies the invariant.
LEMMA InitInv == Init => Inv
<1> SUFFICES ASSUME Init PROVE Inv OBVIOUS
<1>1. StepCount \in Nat
  BY DefinitionsAssumption DEF Init, StepCount
<1>2. TypeOK
  <2>1. effects \in [StepIndex -> Nat] /\ lapsed \in BOOLEAN
    BY Zenon DEF Init
  <2>2. 0 \in 0..(StepCount + 1) /\ 0 \in 0..MaxAttempts
    BY <1>1, MaxAttemptsAssumption
  <2> QED
    BY <2>1, <2>2 DEF Init, TypeOK, RunStates, Pcs
<1>3. RowOK /\ LedgerOK
  BY <1>1 DEF Init, RowOK, LedgerOK, Passed, ApprovalGate, LedgerBeforeEvidence, StepIndex
<1>4. \A h \in Handlers : HandlerOK(h)
  BY DEF Init, HandlerOK, ExecutingPcs, FailurePcs
<1> QED BY <1>2, <1>3, <1>4 DEF Inv

\* A handler that does not move keeps what it knows, because approvals and
\* committed effects stay.
LEMMA HandlerFrame ==
  ASSUME NEW g \in Handlers, HandlerOK(g), pc'[g] = pc[g], index'[g] = index[g],
         definition' = definition, approved \subseteq approved',
         \A i \in StepIndex : effects[i] = 1 => effects'[i] = 1
  PROVE  HandlerOK(g)'
BY DEF HandlerOK, ExecutingPcs, FailurePcs, Passed, ReturnsAfterFail, supportedWorkflowSchema,
       StepCount, StepIndex, StepAt, IsApproval, IsTicket

\* The row keeps its invariant when its step stays and it is not parked anew.
LEMMA RowFrame ==
  ASSUME RowOK, UNCHANGED <<definition, current_step, approved>>,
         state' # "leased", state' = "awaiting_approval" => state = "awaiting_approval"
  PROVE  RowOK'
BY DEF RowOK, Passed, StepCount, StepIndex, StepAt, IsApproval

\* The ledger keeps its invariant when no evidence is added.
LEMMA EvidenceFrame ==
  ASSUME LedgerOK, UNCHANGED <<definition, recorded, effects, approved>>
  PROVE  LedgerOK'
BY DEF LedgerOK, ApprovalGate, LedgerBeforeEvidence, StepCount, StepIndex, StepAt, IsTicket

\* Where a handler that stays at its step finds itself after a statement.
LEMMA HandlerMoves ==
  ASSUME NEW h \in Handlers, NEW next, Inv, pc' = [pc EXCEPT ![h] = next],
         UNCHANGED <<definition, index, approved, effects>>, HandlerOK(h)'
  PROVE  \A g \in Handlers : HandlerOK(g)'
<1> SUFFICES ASSUME NEW g \in Handlers, g # h PROVE HandlerOK(g)' OBVIOUS
<1>1. pc'[g] = pc[g]
  BY DEF Inv, TypeOK
<1> QED
  BY <1>1, HandlerFrame DEF Inv

-----------------------------------------------------------------------------
(* Every action preserves the invariant.                                   *)

\* Steps of a handler that change nothing but its pc, and leave it outside
\* the execution of a step.
LEMMA QuietStep ==
  ASSUME Inv, NEW h \in Handlers, Deliver(h) \/ ClaimNoRows(h) \/ DbError(h) \/ Settle(h) \/ Crash(h)
  PROVE  Inv'
<1>1. PICK next \in {"claiming", "ack", "nak", "idle"} :
        /\ Goto(h, next)
        /\ UNCHANGED <<definition, rowVars, evidenceVars, credential, index, request, historyVars>>
  BY DEF Deliver, ClaimNoRows, DbError, Settle, Crash
<1> USE <1>1 DEF Inv, Goto, rowVars, evidenceVars, historyVars
<1>2. TypeOK'
  BY DEF TypeOK, StepCount, StepIndex, Pcs, Statements
<1>3. RowOK' /\ LedgerOK'
  BY RowFrame, EvidenceFrame DEF RowOK
<1>4. \A g \in Handlers : HandlerOK(g)'
  <2>1. pc'[h] = next
    BY DEF TypeOK
  <2>2. HandlerOK(h)'
    BY <2>1 DEF HandlerOK, ExecutingPcs, FailurePcs
  <2> QED BY <2>2, HandlerMoves
<1> QED BY <1>2, <1>3, <1>4

\* The claim gives the handler the row's step, behind which all is approved.
LEMMA ClaimStep ==
  ASSUME Inv, NEW h \in Handlers, Claim(h)
  PROVE  Inv'
<1> DEFINE next == IF supportedWorkflowSchema THEN Dispatch(current_step) ELSE "fail"
<1> USE DEF Inv, Goto, rowVars, evidenceVars, historyVars
<1>1. current_step \in 0..(StepCount + 1) /\ Passed(current_step)
  BY DEF TypeOK, RowOK
<1>2. /\ next \in {"complete", "record", "uncertain", "consume", "effect", "fetch", "fail"}
      /\ next \notin {"complete", "fail"} => current_step \in StepIndex
      /\ next \in {"effect", "fetch", "consume", "uncertain"} => ~IsApproval(current_step)
      /\ next = "fail" => ReturnsAfterFail(current_step)
                           \/ (current_step \in StepIndex /\ ~IsApproval(current_step))
      /\ next \in {"fetch", "consume", "record"} => ~IsTicket(current_step)
  BY <1>1, DispatchOK DEF ReturnsAfterFail
<1>3. /\ pc' = [pc EXCEPT ![h] = next]
      /\ index' = [index EXCEPT ![h] = current_step]
      /\ UNCHANGED <<definition, current_step, approved, effects, recorded>>
  BY DEF Claim
<1> HIDE DEF next
<1>4. TypeOK'
  BY <1>1, <1>2, <1>3, DefinitionType, MaxAttemptsAssumption
  DEF Claim, TypeOK, StepCount, StepIndex, Pcs, Statements, FailurePcs, RunStates
<1>5. RowOK' /\ LedgerOK'
  BY <1>3, RowFrame, EvidenceFrame DEF Claim
<1>6. \A g \in Handlers : HandlerOK(g)'
  <2> SUFFICES ASSUME NEW g \in Handlers PROVE HandlerOK(g)' OBVIOUS
  <2>1. CASE g # h
    BY <1>3, <2>1, HandlerFrame DEF TypeOK
  <2>2. CASE g = h
    <3>1. pc'[g] = next /\ index'[g] = current_step
      BY <1>3, <2>2 DEF TypeOK
    <3> QED
      BY <1>1, <1>2, <1>3, <3>1 DEF HandlerOK, ExecutingPcs, FailurePcs, Passed, ReturnsAfterFail,
           supportedWorkflowSchema, StepCount, StepIndex, StepAt, IsApproval, IsTicket
  <2> QED BY <2>1, <2>2
<1> QED BY <1>4, <1>5, <1>6

\* The evidence of a ticket is behind its insert into the ledger.
LEMMA RecordStep ==
  ASSUME Inv, NEW h \in Handlers, recordStep(h)
  PROVE  Inv'
<1> USE DEF Inv, Goto, rowVars, evidenceVars, historyVars
<1>1. index[h] \in StepIndex /\ (IsTicket(index[h]) => effects[index[h]] = 1)
  BY DEF recordStep, HandlerOK
<1>2. TypeOK'
  BY <1>1 DEF recordStep, TypeOK, StepCount, StepIndex, Pcs, Statements
<1>3. RowOK' /\ LedgerOK'
  <2>1. RowOK'
    BY RowFrame DEF recordStep, RowOK
  <2>2. LedgerOK'
    BY <1>1 DEF recordStep, LedgerOK, ApprovalGate, LedgerBeforeEvidence, StepCount, StepIndex,
           StepAt, IsTicket
  <2> QED BY <2>1, <2>2
<1>4. \A g \in Handlers : HandlerOK(g)'
  <2>1. PICK next \in {"await", "advance"} : /\ pc' = [pc EXCEPT ![h] = next]
                                             /\ next = "advance" => ~IsApproval(index[h])
    BY DEF recordStep
  <2>2. /\ pc[h] = "record" /\ pc'[h] = next
        /\ UNCHANGED <<definition, index, approved, effects>>
    BY <2>1 DEF recordStep, TypeOK
  <2>3. HandlerOK(h)'
    BY <2>1, <2>2 DEF HandlerOK, ExecutingPcs, FailurePcs, Passed, ReturnsAfterFail,
           supportedWorkflowSchema, StepCount, StepIndex, StepAt, IsApproval, IsTicket
  <2> QED BY <2>1, <2>2, <2>3, HandlerMoves
<1> QED BY <1>2, <1>3, <1>4

\* A fetch is recorded or fails.
LEMMA FetchStep ==
  ASSUME Inv, NEW h \in Handlers, fetch(h)
  PROVE  Inv'
<1> USE DEF Inv, Goto, rowVars, evidenceVars, handlerVars, historyVars
<1>2. TypeOK'
  BY DefinitionType DEF fetch, TypeOK, StepCount, StepIndex, Pcs, Statements, FailurePcs, RunStates
<1>3. RowOK' /\ LedgerOK'
  BY RowFrame, EvidenceFrame DEF fetch, RowOK
<1>4. \A g \in Handlers : HandlerOK(g)'
  <2>1. PICK next \in {"record", "fail"} : pc' = [pc EXCEPT ![h] = next]
    BY DEF fetch
  <2>2. /\ pc[h] = "fetch" /\ pc'[h] = next
        /\ UNCHANGED <<definition, index, approved, effects>>
    BY <2>1 DEF fetch, TypeOK
  <2>3. HandlerOK(h)'
    BY <2>2 DEF HandlerOK, ExecutingPcs, FailurePcs, Passed, ReturnsAfterFail,
           supportedWorkflowSchema, StepCount, StepIndex, StepAt, IsApproval, IsTicket
  <2> QED BY <2>1, <2>2, <2>3, HandlerMoves
<1> QED BY <1>2, <1>3, <1>4

\* A credential is consumed or missing.
LEMMA ConsumeStep ==
  ASSUME Inv, NEW h \in Handlers, consumeCredential(h)
  PROVE  Inv'
<1> USE DEF Inv, Goto, rowVars, evidenceVars, handlerVars, historyVars
<1>2. TypeOK'
  BY DefinitionType DEF consumeCredential, TypeOK, StepCount, StepIndex, Pcs, Statements, FailurePcs, RunStates
<1>3. RowOK' /\ LedgerOK'
  BY RowFrame, EvidenceFrame DEF consumeCredential, RowOK
<1>4. \A g \in Handlers : HandlerOK(g)'
  <2> SUFFICES ASSUME NEW g \in Handlers PROVE HandlerOK(g)' OBVIOUS
  <2>1. CASE g # h
    BY <2>1, HandlerFrame DEF consumeCredential, TypeOK
  <2>2. CASE g = h
    <3>1. pc[h] = "consume" /\ pc'[h] \in {"call", "uncertain"}
          /\ UNCHANGED <<definition, index, approved, effects>>
      BY DEF consumeCredential, TypeOK
    <3> QED
      BY <2>2, <3>1 DEF HandlerOK, ExecutingPcs, FailurePcs, Passed, ReturnsAfterFail,
           supportedWorkflowSchema, StepCount, StepIndex, StepAt, IsApproval, IsTicket
  <2> QED BY <2>1, <2>2
<1> QED BY <1>2, <1>3, <1>4

\* A provider call is recorded or uncertain.
LEMMA CallStep ==
  ASSUME Inv, NEW h \in Handlers, callOpenAICompatible(h)
  PROVE  Inv'
<1> USE DEF Inv, Goto, rowVars, evidenceVars, handlerVars, historyVars
<1>2. TypeOK'
  BY DefinitionType DEF callOpenAICompatible, TypeOK, StepCount, StepIndex, Pcs, Statements, FailurePcs, RunStates
<1>3. RowOK' /\ LedgerOK'
  BY RowFrame, EvidenceFrame DEF callOpenAICompatible, RowOK
<1>4. \A g \in Handlers : HandlerOK(g)'
  <2>1. PICK next \in {"record", "uncertain"} : pc' = [pc EXCEPT ![h] = next]
    BY DEF callOpenAICompatible
  <2>2. /\ pc[h] = "call" /\ pc'[h] = next
        /\ UNCHANGED <<definition, index, approved, effects>>
    BY <2>1 DEF callOpenAICompatible, TypeOK
  <2>3. HandlerOK(h)'
    BY <2>2 DEF HandlerOK, ExecutingPcs, FailurePcs, Passed, ReturnsAfterFail,
           supportedWorkflowSchema, StepCount, StepIndex, StepAt, IsApproval, IsTicket
  <2> QED BY <2>1, <2>2, <2>3, HandlerMoves
<1> QED BY <1>2, <1>3, <1>4

\* A failure leaves the handler in its loop.
LEMMA FailStep ==
  ASSUME Inv, NEW h \in Handlers, fail(h)
  PROVE  Inv'
<1> USE DEF Inv, Goto, rowVars, evidenceVars, handlerVars, historyVars
<1>2. TypeOK'
  BY DefinitionType DEF fail, TypeOK, StepCount, StepIndex, Pcs, Statements, FailurePcs, RunStates
<1>3. RowOK' /\ LedgerOK'
  BY RowFrame, EvidenceFrame DEF fail, RowOK
<1>4. \A g \in Handlers : HandlerOK(g)'
  <2>1. PICK next \in {"fail_event"} : pc' = [pc EXCEPT ![h] = next]
    BY DEF fail
  <2>2. /\ pc[h] = "fail" /\ pc'[h] = next
        /\ UNCHANGED <<definition, index, approved, effects>>
    BY <2>1 DEF fail, TypeOK
  <2>3. HandlerOK(h)'
    BY <2>2 DEF HandlerOK, ExecutingPcs, FailurePcs, Passed, ReturnsAfterFail,
           supportedWorkflowSchema, StepCount, StepIndex, StepAt, IsApproval, IsTicket
  <2> QED BY <2>1, <2>2, <2>3, HandlerMoves
<1> QED BY <1>2, <1>3, <1>4

\* So does an uncertain outcome.
LEMMA UncertainStep ==
  ASSUME Inv, NEW h \in Handlers, uncertain(h)
  PROVE  Inv'
<1> USE DEF Inv, Goto, rowVars, evidenceVars, handlerVars, historyVars
<1>2. TypeOK'
  BY DefinitionType DEF uncertain, TypeOK, StepCount, StepIndex, Pcs, Statements, FailurePcs, RunStates
<1>3. RowOK' /\ LedgerOK'
  BY RowFrame, EvidenceFrame DEF uncertain, RowOK
<1>4. \A g \in Handlers : HandlerOK(g)'
  <2>1. PICK next \in {"uncertain_event"} : pc' = [pc EXCEPT ![h] = next]
    BY DEF uncertain
  <2>2. /\ pc[h] = "uncertain" /\ pc'[h] = next
        /\ UNCHANGED <<definition, index, approved, effects>>
    BY <2>1 DEF uncertain, TypeOK
  <2>3. HandlerOK(h)'
    BY <2>2 DEF HandlerOK, ExecutingPcs, FailurePcs, Passed, ReturnsAfterFail,
           supportedWorkflowSchema, StepCount, StepIndex, StepAt, IsApproval, IsTicket
  <2> QED BY <2>1, <2>2, <2>3, HandlerMoves
<1> QED BY <1>2, <1>3, <1>4

\* The completion.
LEMMA CompleteStep ==
  ASSUME Inv, NEW h \in Handlers, complete(h)
  PROVE  Inv'
<1> USE DEF Inv, Goto, rowVars, evidenceVars, handlerVars, historyVars
<1>2. TypeOK'
  BY DefinitionType DEF complete, TypeOK, StepCount, StepIndex, Pcs, Statements, FailurePcs, RunStates
<1>3. RowOK' /\ LedgerOK'
  BY RowFrame, EvidenceFrame DEF complete, RowOK
<1>4. \A g \in Handlers : HandlerOK(g)'
  <2>1. PICK next \in {"complete_event"} : pc' = [pc EXCEPT ![h] = next]
    BY DEF complete
  <2>2. /\ pc[h] = "complete" /\ pc'[h] = next
        /\ UNCHANGED <<definition, index, approved, effects>>
    BY <2>1 DEF complete, TypeOK
  <2>3. HandlerOK(h)'
    BY <2>2 DEF HandlerOK, ExecutingPcs, FailurePcs, Passed, ReturnsAfterFail,
           supportedWorkflowSchema, StepCount, StepIndex, StepAt, IsApproval, IsTicket
  <2> QED BY <2>1, <2>2, <2>3, HandlerMoves
<1> QED BY <1>2, <1>3, <1>4

\* Parking the run moves it to a step the handler had reached.
LEMMA AwaitStep ==
  ASSUME Inv, NEW h \in Handlers, awaitApproval(h)
  PROVE  Inv'
<1> USE DEF Inv, Goto, rowVars, evidenceVars, handlerVars, historyVars
<1>1. pc[h] = "await" /\ index[h] \in StepIndex /\ Passed(index[h])
  BY DEF awaitApproval, HandlerOK, ExecutingPcs
<1>2. TypeOK'
  BY DefinitionType DEF awaitApproval, TypeOK, StepCount, StepIndex, Pcs, Statements, FailurePcs, RunStates
<1>3. RowOK' /\ LedgerOK'
  <2>1. /\ UNCHANGED <<definition, recorded, effects, approved>>
        /\ current_step' = index[h] /\ state' = "awaiting_approval"
    BY DEF awaitApproval
  <2>2. RowOK'
    BY <1>1, <2>1, DefinitionType DEF RowOK, Passed, StepCount, StepIndex, StepAt, IsApproval
  <2> QED BY <2>1, <2>2, EvidenceFrame
<1>4. \A g \in Handlers : HandlerOK(g)'
  <2>1. PICK next \in {"await_event"} : pc' = [pc EXCEPT ![h] = next]
    BY DEF awaitApproval
  <2>2. /\ pc[h] = "await" /\ pc'[h] = next
        /\ UNCHANGED <<definition, index, approved, effects>>
    BY <2>1 DEF awaitApproval, TypeOK
  <2>3. HandlerOK(h)'
    BY <2>2 DEF HandlerOK, ExecutingPcs, FailurePcs, Passed, ReturnsAfterFail,
           supportedWorkflowSchema, StepCount, StepIndex, StepAt, IsApproval, IsTicket
  <2> QED BY <2>1, <2>2, <2>3, HandlerMoves
<1> QED BY <1>2, <1>3, <1>4

\* An effect is committed by a handler that has an approval behind it.
LEMMA CommitStep ==
  ASSUME Inv, NEW h \in Handlers, commitEffect(h)
  PROVE  Inv'
<1> USE DEF Inv, Goto, rowVars, evidenceVars, historyVars
<1>1. pc[h] = "effect" /\ index[h] \in StepIndex /\ Passed(index[h])
  BY DEF commitEffect, HandlerOK, ExecutingPcs
<1>2. /\ effects' \in [StepIndex -> Nat]
      /\ effects'[index[h]] = 1
      /\ \A i \in StepIndex : i # index[h] => effects'[i] = effects[i]
      /\ UNCHANGED <<definition, current_step, state, approved, index, recorded>>
      /\ pc' = [pc EXCEPT ![h] = "record"]
  BY <1>1 DEF commitEffect, TypeOK, LedgerOK
<1>3. TypeOK'
  BY <1>2 DEF commitEffect, TypeOK, StepCount, StepIndex, Pcs, Statements
<1>4. RowOK'
  BY <1>2 DEF RowOK, Passed, StepCount, StepIndex, StepAt, IsApproval
<1>5. LedgerOK'
  <2>1. StepIndex' = StepIndex /\ \A i : StepAt(i)' = StepAt(i)
    BY <1>2 DEF StepIndex, StepCount, StepAt
  <2>2. \A i \in StepIndex : effects'[i] \in {0, 1}
    BY <1>2 DEF LedgerOK
  <2>3. StepAt(index[h]).sideEffect => index[h] - 1 \in approved
    <3>1. index[h] - 1 < index[h]
      BY <1>1 DEF TypeOK
    <3> QED
      BY <1>1, <3>1, GateBeforeEffect DEF Passed
  <2>4. ApprovalGate'
    BY <1>2, <2>1, <2>3 DEF LedgerOK, ApprovalGate
  <2>5. LedgerBeforeEvidence'
    BY <1>2, <2>1 DEF LedgerOK, LedgerBeforeEvidence, IsTicket, TypeOK
  <2> QED
    BY <2>1, <2>2, <2>4, <2>5 DEF LedgerOK
<1>6. \A g \in Handlers : HandlerOK(g)'
  <2> SUFFICES ASSUME NEW g \in Handlers PROVE HandlerOK(g)' OBVIOUS
  <2>1. CASE g # h
    <3>1. \A i \in StepIndex : effects[i] = 1 => effects'[i] = 1
      BY <1>2
    <3> QED
      BY <1>2, <2>1, <3>1, HandlerFrame DEF TypeOK
  <2>2. CASE g = h
    <3>1. pc'[h] = "record" /\ index'[h] = index[h]
      BY <1>2 DEF TypeOK
    <3> QED
      BY <1>1, <1>2, <2>2, <3>1 DEF HandlerOK, ExecutingPcs, FailurePcs, Passed, ReturnsAfterFail,
           supportedWorkflowSchema, StepCount, StepIndex, StepAt, IsApproval, IsTicket
  <2> QED BY <2>1, <2>2
<1> QED BY <1>3, <1>4, <1>5, <1>6

\* The step a handler leaves behind is not an approval step.
LEMMA AdvanceStep ==
  ASSUME Inv, NEW h \in Handlers, advance(h)
  PROVE  Inv'
<1> DEFINE to == index[h] + 1
           next == Dispatch(to)
<1> USE DEF Inv, Goto, rowVars, evidenceVars, historyVars
<1>1. /\ pc[h] = "advance" /\ index[h] \in StepIndex
      /\ ~IsApproval(index[h]) /\ Passed(index[h])
  BY DEF advance, HandlerOK, ExecutingPcs
<1>2. to \in 0..StepCount /\ to \in 0..(StepCount + 1)
  BY <1>1, DefinitionType DEF StepIndex
<1>3. Passed(to)
  BY <1>1, DefinitionType DEF Passed, StepIndex
<1>4. /\ next \in {"complete", "record", "uncertain", "consume", "effect", "fetch", "fail"}
      /\ next # "complete" => to \in StepIndex
      /\ next \in {"effect", "fetch", "consume", "uncertain", "fail"} => ~IsApproval(to)
      /\ next \in {"fetch", "consume", "record"} => ~IsTicket(to)
  BY <1>2, DispatchOK
<1>5. /\ pc' = [pc EXCEPT ![h] = next]
      /\ index' = [index EXCEPT ![h] = to]
      /\ current_step' = to
      /\ UNCHANGED <<definition, state, approved, effects, recorded>>
  BY DEF advance, TypeOK
<1> HIDE DEF next, to
<1>6. TypeOK'
  BY <1>2, <1>4, <1>5 DEF advance, TypeOK, StepCount, StepIndex, Pcs, Statements, FailurePcs
<1>7. RowOK' /\ LedgerOK'
  <2>1. RowOK'
    BY <1>2, <1>3, <1>5, DefinitionType DEF RowOK, Passed, StepCount, StepIndex, StepAt, IsApproval
  <2> QED BY <1>5, <2>1, EvidenceFrame
<1>8. \A g \in Handlers : HandlerOK(g)'
  <2> SUFFICES ASSUME NEW g \in Handlers PROVE HandlerOK(g)' OBVIOUS
  <2>1. CASE g # h
    BY <1>5, <2>1, HandlerFrame DEF TypeOK
  <2>2. CASE g = h
    <3>1. pc'[g] = next /\ index'[g] = to
      BY <1>5, <2>2 DEF TypeOK
    <3> QED
      BY <1>3, <1>4, <1>5, <3>1 DEF HandlerOK, ExecutingPcs, FailurePcs, Passed, ReturnsAfterFail,
           supportedWorkflowSchema, StepCount, StepIndex, StepAt, IsApproval, IsTicket
  <2> QED BY <2>1, <2>2
<1> QED BY <1>6, <1>7, <1>8

\* After an event the handler returns, or goes on past a step that failed.
LEMMA EventStep ==
  ASSUME Inv, NEW h \in Handlers, appendEvent(h)
  PROVE  Inv'
<1> USE DEF Inv, Goto, rowVars, evidenceVars, historyVars
<1>1. /\ pc[h] \in {"await_event", "fail_event", "uncertain_event", "complete_event"}
      /\ pc' = [pc EXCEPT ![h] = AfterEvent(h)]
      /\ events' \subseteq events \cup {"approval_requested", "failed", "uncertain", "succeeded"}
      /\ UNCHANGED <<definition, index, approved, effects>>
  BY DEF appendEvent, EventOf
<1>2. /\ AfterEvent(h) \in {"ack", "advance"}
      /\ AfterEvent(h) = "advance" => /\ index[h] \in StepIndex
                                      /\ ~IsApproval(index[h])
                                      /\ Passed(index[h])
  BY <1>1 DEF AfterEvent, HandlerOK, ExecutingPcs, FailurePcs
<1>3. TypeOK'
  BY <1>1, <1>2 DEF appendEvent, TypeOK, StepCount, StepIndex, Pcs, Statements
<1>4. RowOK' /\ LedgerOK'
  BY RowFrame, EvidenceFrame DEF appendEvent, RowOK
<1>5. \A g \in Handlers : HandlerOK(g)'
  <2> SUFFICES ASSUME NEW g \in Handlers PROVE HandlerOK(g)' OBVIOUS
  <2>1. CASE g # h
    BY <1>1, <2>1, HandlerFrame DEF TypeOK
  <2>2. CASE g = h
    <3>1. pc'[g] = AfterEvent(h) /\ index'[g] = index[h]
      BY <1>1, <2>2 DEF TypeOK
    <3> QED
      BY <1>1, <1>2, <3>1 DEF HandlerOK, ExecutingPcs, FailurePcs, Passed, ReturnsAfterFail,
           supportedWorkflowSchema, StepCount, StepIndex, StepAt, IsApproval, IsTicket
  <2> QED BY <2>1, <2>2
<1> QED BY <1>3, <1>4, <1>5

\* Steps of time and of the API that touch neither the handlers nor what they
\* know.
LEMMA EnvironmentStep ==
  ASSUME Inv,
         \/ LeaseExpires \/ CredentialLost
         \/ \E r \in Requests : \/ CheckApprove(r) \/ CheckCancel(r) \/ Cancel(r)
                              \/ RequestRefused(r) \/ RequestRollsBack(r)
  PROVE  Inv'
<1> USE DEF Inv, rowVars, evidenceVars, handlerVars, historyVars
<1>1. /\ UNCHANGED <<definition, current_step, recorded, effects, approved, pc, index>>
      /\ state' = state \/ state' = "cancelled"
  BY DEF LeaseExpires, CredentialLost, CheckApprove, CheckCancel, Cancel,
     RequestRefused, RequestRollsBack
<1>2. TypeOK'
  <2> USE DEF TypeOK, StepCount, StepIndex
  <2>1. CASE LeaseExpires
    <3>1. lapsed' \in BOOLEAN
      BY <2>1, Zenon DEF LeaseExpires
    <3> QED BY <2>1, <3>1 DEF LeaseExpires
  <2>2. CASE CredentialLost
    BY <2>2 DEF CredentialLost
  <2>3. ASSUME NEW r \in Requests,
             CheckApprove(r) \/ CheckCancel(r) \/ RequestRefused(r) \/ RequestRollsBack(r)
        PROVE  TypeOK'
    BY <2>3 DEF CheckApprove, CheckCancel, RequestRefused, RequestRollsBack
  <2>4. ASSUME NEW r \in Requests, Cancel(r)
        PROVE  TypeOK'
    BY <2>4 DEF Cancel, RunStates
  <2> QED BY <2>1, <2>2, <2>3, <2>4
<1>3. RowOK' /\ LedgerOK'
  BY <1>1, RowFrame, EvidenceFrame DEF RowOK
<1>4. \A g \in Handlers : HandlerOK(g)'
  BY <1>1, HandlerFrame
<1> QED BY <1>2, <1>3, <1>4

\* An approval moves a parked run past the step it approves.
LEMMA ApproveStep ==
  ASSUME Inv, NEW r \in Requests, Approve(r)
  PROVE  Inv'
<1> USE DEF Inv, rowVars, evidenceVars, handlerVars, historyVars
<1>1. state = "awaiting_approval" /\ current_step \in 0..StepCount
  BY DefinitionType DEF Approve, Allowed, allowedTransitions, RunStates, TypeOK, RowOK
<1>2. /\ current_step' = current_step + 1
      /\ approved' = approved \cup {current_step}
      /\ state' = "queued"
      /\ UNCHANGED <<definition, recorded, effects, pc, index>>
  BY DEF Approve
<1>3. TypeOK'
  BY <1>1, <1>2, DefinitionType DEF Approve, TypeOK, RunStates, StepCount, StepIndex
<1>4. RowOK' /\ LedgerOK'
  <2>1. RowOK'
    BY <1>1, <1>2, DefinitionType DEF RowOK, Passed, StepCount, StepIndex, StepAt, IsApproval
  <2>2. LedgerOK'
    BY <1>2 DEF LedgerOK, ApprovalGate, LedgerBeforeEvidence, StepCount, StepIndex, StepAt, IsTicket
  <2> QED BY <2>1, <2>2
<1>5. \A g \in Handlers : HandlerOK(g)'
  BY <1>2, HandlerFrame
<1> QED BY <1>3, <1>4, <1>5
-----------------------------------------------------------------------------
\* The invariant is inductive: one case for each disjunct of Next.
LEMMA NextInv == Inv /\ [Next]_vars => Inv'
<1> SUFFICES ASSUME Inv, [Next]_vars PROVE Inv' OBVIOUS
<1>1. ASSUME NEW h \in Handlers,
             Deliver(h) \/ ClaimNoRows(h) \/ DbError(h) \/ Settle(h) \/ Crash(h)
      PROVE  Inv'
  BY <1>1, QuietStep
<1>2. ASSUME NEW h \in Handlers, HandlerStep(h) PROVE Inv'
  BY <1>1, <1>2, ClaimStep, RecordStep, CommitStep, FetchStep, ConsumeStep, CallStep,
     AdvanceStep, AwaitStep, FailStep, UncertainStep, CompleteStep, EventStep
  DEF HandlerStep
<1>3. ASSUME NEW r \in Requests, RequestStep(r) PROVE Inv'
  BY <1>3, ApproveStep, EnvironmentStep DEF RequestStep
<1>4. CASE LeaseExpires \/ CredentialLost
  BY <1>4, EnvironmentStep
<1>5. CASE UNCHANGED vars
  <2> USE DEF Inv, vars, rowVars, evidenceVars, handlerVars, historyVars
  <2>1. TypeOK'
    BY <1>5 DEF TypeOK, StepCount, StepIndex
  <2>2. RowOK' /\ LedgerOK'
    BY <1>5, RowFrame, EvidenceFrame DEF RowOK
  <2>3. \A g \in Handlers : HandlerOK(g)'
    BY <1>5, HandlerFrame
  <2> QED BY <2>1, <2>2, <2>3
<1> QED BY <1>1, <1>2, <1>3, <1>4, <1>5 DEF Next

\* The invariant holds of every behaviour of the handlers and requests.
LEMMA Invariance == Spec => []Inv
<1>1. Inv /\ [Next]_vars => Inv'
  BY NextInv
<1> QED BY InitInv, <1>1, PTL DEF Spec

\* Type correctness: whatever handlers and requests interleave, no update
\* takes current_step or a loop index out of the range of the definition.
THEOREM TypeCorrect == Spec => []TypeOK
<1>1. Inv => TypeOK
  BY DEF Inv
<1> QED BY Invariance, <1>1, PTL

\* No declared side effect of any definition is committed before the approval
\* step in front of it was approved, for any number of handlers, lapsed
\* leases, redeliveries, crashes and concurrent requests.
THEOREM EffectsAreApproved == Spec => []ApprovalGate
<1>1. Inv => ApprovalGate
  BY DEF Inv, LedgerOK
<1> QED BY Invariance, <1>1, PTL

\* A recorded ticket step has its one row in the ledger.
THEOREM EvidenceIsBacked == Spec => []LedgerBeforeEvidence
<1>1. Inv => LedgerBeforeEvidence
  BY DEF Inv, LedgerOK
<1> QED BY Invariance, <1>1, PTL
-----------------------------------------------------------------------------
(* Facts about the row alone.                                              *)

\* A running row has a lease, so that claim can take it over when the lease
\* runs out, whichever handler last wrote the row.
THEOREM RunningIsLeased == Spec => []RunningHasLease
<1> USE DEF RunningHasLease, rowVars
<1>1. Init => RunningHasLease
  BY DEF Init
<1>2. RunningHasLease /\ [Next]_vars => RunningHasLease'
  <2> SUFFICES ASSUME RunningHasLease, [Next]_vars PROVE RunningHasLease' OBVIOUS
  <2>1. ASSUME NEW h \in Handlers,
               Deliver(h) \/ DbError(h) \/ Settle(h) \/ Crash(h) \/ HandlerStep(h)
        PROVE  RunningHasLease'
    BY <2>1 DEF Deliver, DbError, Settle, Crash, HandlerStep, Claim, ClaimNoRows, recordStep,
         commitEffect, fetch, consumeCredential, callOpenAICompatible, advance, awaitApproval,
         fail, uncertain, complete, appendEvent
  <2>2. ASSUME NEW r \in Requests, RequestStep(r)
        PROVE  RunningHasLease'
    BY <2>2 DEF RequestStep, CheckApprove, CheckCancel, Approve, Cancel, RequestRefused,
         RequestRollsBack
  <2>3. CASE LeaseExpires \/ CredentialLost \/ UNCHANGED vars
    BY <2>3 DEF LeaseExpires, CredentialLost, vars
  <2> QED BY <2>1, <2>2, <2>3 DEF Next
<1> QED BY <1>1, <1>2, PTL DEF Spec

\* An approval that was checked before a cancellation never puts the cancelled
\* run back to work, because transition reads the state again under its lock.
THEOREM CancelledIsNotRequeued == Spec => CancelBeatsApprove
<1> DEFINE NotRequeued == state = "cancelled" => state' # "queued"
<1>1. [Next]_vars => [NotRequeued]_vars
  <2> SUFFICES ASSUME [Next]_vars, state = "cancelled", state' = "queued", vars' # vars
               PROVE  FALSE
    OBVIOUS
  <2> USE DEF rowVars
  <2>1. ASSUME NEW h \in Handlers,
               Deliver(h) \/ DbError(h) \/ Settle(h) \/ Crash(h) \/ HandlerStep(h)
        PROVE  state' # "queued"
    BY <2>1 DEF Deliver, DbError, Settle, Crash, HandlerStep, Claim, ClaimNoRows, recordStep,
         commitEffect, fetch, consumeCredential, callOpenAICompatible, advance, awaitApproval,
         fail, uncertain, complete, appendEvent
  <2>2. ASSUME NEW r \in Requests, RequestStep(r)
        PROVE  state' # "queued"
    BY <2>2 DEF RequestStep, CheckApprove, CheckCancel, Approve, Cancel, RequestRefused,
         RequestRollsBack, Allowed, allowedTransitions, RunStates
  <2>3. CASE LeaseExpires \/ CredentialLost
    BY <2>3 DEF LeaseExpires, CredentialLost
  <2> QED BY <2>1, <2>2, <2>3 DEF Next
<1> QED BY <1>1, PTL DEF Spec, CancelBeatsApprove

-----------------------------------------------------------------------------
(* The run's effects implement the abstract ledger.                        *)

\* Only an approval and an insert into effect_commits move the ledger.
LEMMA LedgerFrame ==
  ASSUME [Next]_vars,
         \A h \in Handlers : ~commitEffect(h), \A r \in Requests : ~Approve(r)
  PROVE  UNCHANGED <<definition, approved, effects>>
<1> USE DEF vars, rowVars, evidenceVars, handlerVars, historyVars
<1>1. ASSUME NEW h \in Handlers, HandlerStep(h)
      PROVE  UNCHANGED <<definition, approved, effects>>
  BY <1>1 DEF HandlerStep, Claim, ClaimNoRows, recordStep, fetch, consumeCredential,
     callOpenAICompatible, advance, awaitApproval, fail, uncertain, complete, appendEvent
<1>2. ASSUME NEW h \in Handlers, Deliver(h) \/ DbError(h) \/ Settle(h) \/ Crash(h)
      PROVE  UNCHANGED <<definition, approved, effects>>
  BY <1>2 DEF Deliver, DbError, Settle, Crash
<1>3. ASSUME NEW r \in Requests, RequestStep(r)
      PROVE  UNCHANGED <<definition, approved, effects>>
  BY <1>3 DEF RequestStep, CheckApprove, CheckCancel, Cancel,
     RequestRefused, RequestRollsBack
<1>4. CASE LeaseExpires \/ CredentialLost \/ UNCHANGED vars
  BY <1>4 DEF LeaseExpires, CredentialLost
<1> QED BY <1>1, <1>2, <1>3, <1>4 DEF Next

\* Every step has a key.
LEMMA StepsAreKeys ==
  ASSUME TypeOK
  PROVE  StepIndex \subseteq StepKeys
<1>1. definition \in Definitions
  BY DEF TypeOK
<1> QED BY <1>1 DEF StepKeys, StepIndex, StepCount

\* Every key is an integer.
LEMMA KeysAreIntegers == StepKeys \subseteq Int
BY DEF StepKeys

\* Every step of the run is a step of the ledger or leaves it alone: Approve
\* grants the next key, commitEffect commits a key the first time.
LEMMA LedgerNextStep ==
  ASSUME Inv, [Next]_vars
  PROVE  [Ledger!LedgerNext]_(Ledger!ledgerVars)
<1> DEFINE keys == StepKeys
           needs == {i \in StepIndex : StepAt(i).sideEffect}
           grants == {k \in keys : k - 1 \in approved}
           rows == [k \in keys |-> IF k \in StepIndex THEN effects[k] ELSE 0]
<1> USE DEF Inv
<1>1. StepIndex \subseteq keys
  BY StepsAreKeys DEF Inv
<1>2. CASE UNCHANGED <<definition, approved, effects>>
  BY <1>2 DEF Ledger!ledgerVars, StepIndex, StepCount, StepAt
<1>3. ASSUME NEW h \in Handlers, commitEffect(h)
      PROVE  Ledger!LedgerNext \/ UNCHANGED Ledger!ledgerVars
  <2>1. PICK k \in StepIndex : k = index[h] /\ Passed(k)
    BY <1>3 DEF commitEffect, HandlerOK, ExecutingPcs
  <2>2. UNCHANGED <<definition, approved>>
    BY <1>3 DEF commitEffect, historyVars
  <2>3. CASE effects[k] # 0
    BY <1>2, <1>3, <2>1, <2>2, <2>3 DEF commitEffect
  <2>4. CASE effects[k] = 0
    <3>1. StepIndex' = StepIndex /\ needs' = needs /\ grants' = grants
      BY <2>2 DEF StepIndex, StepCount, StepAt
    <3>2. effects' = [effects EXCEPT ![k] = 1]
      BY <1>3, <2>1, <2>4 DEF commitEffect, TypeOK
    <3>3. rows[k] = 0 /\ rows' = [rows EXCEPT ![k] = 1]
      BY <1>1, <2>1, <2>4, <3>1, <3>2 DEF TypeOK
    <3>4. k \in needs => k \in grants
      <4> SUFFICES ASSUME k \in needs PROVE k - 1 \in approved
        BY <1>1, <2>1
      <4>1. k - 1 < k
        BY <2>1 DEF TypeOK
      <4> QED
        BY <2>1, <4>1, GateBeforeEffect DEF Passed
    <3>5. Ledger!Commit(k)
      BY <3>1, <3>3, <3>4 DEF Ledger!Commit
    <3> QED
      BY <1>1, <2>1, <3>5 DEF Ledger!LedgerNext
  <2> QED BY <2>3, <2>4
<1>4. ASSUME NEW r \in Requests, Approve(r)
      PROVE  Ledger!LedgerNext \/ UNCHANGED Ledger!ledgerVars
  <2>0. PICK k \in Int : k - 1 = current_step /\ k = current_step + 1
    BY DefinitionType DEF TypeOK
  <2>1. /\ UNCHANGED <<definition, effects>>
        /\ approved' = approved \cup {k - 1}
    BY <1>4, <2>0 DEF Approve
  <2>2. StepIndex' = StepIndex /\ needs' = needs /\ rows' = rows
    BY <2>1 DEF StepIndex, StepCount, StepAt
  <2>3. ASSUME NEW i \in keys
        PROVE  i - 1 \in approved' <=> i - 1 \in approved \/ i = k
    BY <2>0, <2>1, KeysAreIntegers
  <2>4. CASE k \in keys
    <3>1. grants' = grants \cup {k}
      BY <2>4, <2>3
    <3>2. Ledger!Grant(k)
      BY <2>2, <3>1 DEF Ledger!Grant
    <3> QED
      BY <2>4, <3>2 DEF Ledger!LedgerNext
  <2>5. CASE k \notin keys
    <3>1. grants' = grants
      BY <2>5, <2>3
    <3> QED
      BY <2>2, <3>1 DEF Ledger!ledgerVars
  <2> QED BY <2>4, <2>5
<1> QED BY <1>2, <1>3, <1>4, LedgerFrame

\* The run that createRun leaves has an empty ledger.
LEMMA LedgerInitially == Init => Ledger!LedgerInit
<1> SUFFICES ASSUME Init PROVE Ledger!LedgerInit OBVIOUS
<1>1. TypeOK
  BY InitInv DEF Inv
<1>2. StepIndex \subseteq StepKeys
  BY <1>1, StepsAreKeys
<1> QED
  BY <1>2 DEF Init, Ledger!LedgerInit

\* Over all deliveries, retries and overlapping handlers, the rows of
\* effect_commits behave like the abstract ledger: one insert for each step,
\* and for a declared side effect only after its approval.
THEOREM RunImplementsLedger == Spec => ImplementsLedger
<1>1. Init => Ledger!LedgerInit
  BY LedgerInitially
<1>2. Inv /\ [Next]_vars => [Ledger!LedgerNext]_(Ledger!ledgerVars)
  BY LedgerNextStep
<1> QED BY Invariance, <1>1, <1>2, PTL DEF Spec, ImplementsLedger, Ledger!LedgerSpec
=============================================================================
