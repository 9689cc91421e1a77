---------------------------- MODULE RunLeaseProofs ----------------------------
(***************************************************************************)
(* What the lease and the credential broker promise, proved for any        *)
(* definitions, handlers, requests and number of attempts.                 *)
(*                                                                         *)
(* The lease protects a run only until it runs out under a running row.    *)
(* Up to then the row tells whether somebody executes it, although fail,   *)
(* uncertain and cancel leave the executor at work behind a terminal       *)
(* state: nobody does while the row is queued, parked or succeeded         *)
(* (Excluded), and whoever executes it stands at the row's own step        *)
(* (Aligned), with the evidence of its pc on record (Evident).             *)
(***************************************************************************)
EXTENDS RunExecutionProofs, FiniteSetTheorems

\* At most one handler executes, none while the row invites a claim or an
\* approval or has succeeded, and a running row cannot be claimed.
Excluded ==
  ~lapsed =>
    /\ \A g, h \in Handlers :
         pc[g] \in ExecutingPcs /\ pc[h] \in ExecutingPcs => g = h
    /\ \A h \in Handlers :
         pc[h] \in ExecutingPcs => state \notin {"queued", "awaiting_approval", "succeeded"}
    /\ state = "running" => lease = "live"

\* A run whose success is on record, or about to be, has succeeded.
Final ==
  ~lapsed =>
    /\ "succeeded" \in events => state = "succeeded"
    /\ \A h \in Handlers : pc[h] = "complete_event" => state = "succeeded"

\* The executor's loop index is the row's step, and it leaves the loop only
\* at the end of the definition.
Aligned ==
  ~lapsed => \A h \in Handlers :
    /\ pc[h] \in ExecutingPcs => index[h] = current_step
    /\ pc[h] = "complete" => index[h] >= StepCount

\* What is on record when the executor is about to leave a step, behind the
\* row, and at a parked row.
Evident ==
  ~lapsed =>
    /\ \A h \in Handlers :
         /\ pc[h] = "await" => index[h] \in recorded /\ IsApproval(index[h])
         /\ pc[h] = "advance" => index[h] \in recorded \/ last_error_code # "none"
         /\ pc[h] \in {"fail_event", "uncertain_event"} => last_error_code # "none"
    /\ last_error_code = "none" =>
         /\ \A i \in StepIndex : i < current_step => i \in recorded
         /\ state = "succeeded" => recorded = StepIndex
    /\ state = "awaiting_approval" =>
         current_step \in recorded /\ IsApproval(current_step)

LeaseInv == Inv /\ Excluded /\ Final /\ Aligned /\ Evident

\* The credential is handed out once: nobody is about to call the provider
\* before, one handler at most is after, and the call ends that.
Spent ==
  /\ credential # "gone" => providerCalls = 0 /\ \A h \in Handlers : pc[h] # "call"
  /\ \A g, h \in Handlers : pc[g] = "call" /\ pc[h] = "call" => g = h
  /\ \A h \in Handlers : pc[h] = "call" => providerCalls = 0
  /\ providerCalls <= 1

-----------------------------------------------------------------------------
(* What a step of a handler changes, as far as the lease is concerned.     *)

\* The executor goes on: the row is not parked, queued or succeeded by it.
GoesOn(h) ==
  /\ pc[h] \in ExecutingPcs
  /\ state' \in {state, "failed", "uncertain"}
  /\ state' = "running" => lease' = "live" \/ lease' = lease

\* A handler that does not execute leaves the row alone.
Outside(h) ==
  /\ pc'[h] \notin ExecutingPcs
  /\ UNCHANGED <<state, lease>>

\* The executor parks or completes the run and executes it no more.
Leaves(h) ==
  /\ pc[h] \in ExecutingPcs
  /\ pc'[h] \notin ExecutingPcs
  /\ state' \in {"awaiting_approval", "succeeded"}

\* Every step of a handler but the claim is of one of these kinds.
LEMMA HandlerKinds ==
  ASSUME Inv, NEW h \in Handlers,
         \/ Deliver(h) \/ DbError(h) \/ Settle(h) \/ Crash(h)
         \/ HandlerStep(h) /\ ~Claim(h)
  PROVE  /\ GoesOn(h) \/ Outside(h) \/ Leaves(h)
         /\ lapsed' = lapsed
         /\ \A g \in Handlers : g # h => pc'[g] = pc[g]
<1> USE DEF Inv, TypeOK, Goto, rowVars, historyVars
<1>1. CASE Deliver(h) \/ DbError(h) \/ Settle(h) \/ Crash(h) \/ ClaimNoRows(h)
  BY <1>1 DEF Deliver, DbError, Settle, Crash, ClaimNoRows, Outside, ExecutingPcs, FailurePcs
<1>2. CASE recordStep(h) \/ commitEffect(h) \/ fetch(h)
  BY <1>2 DEF recordStep, commitEffect, fetch, GoesOn, ExecutingPcs
<1>3. CASE consumeCredential(h) \/ callOpenAICompatible(h) \/ advance(h)
  BY <1>3 DEF consumeCredential, callOpenAICompatible, advance, GoesOn, ExecutingPcs
<1>4. CASE fail(h) \/ uncertain(h)
  BY <1>4 DEF fail, uncertain, GoesOn, ExecutingPcs, FailurePcs
<1>5. CASE awaitApproval(h) \/ complete(h)
  BY <1>5 DEF awaitApproval, complete, Leaves, ExecutingPcs, FailurePcs
<1>6. CASE appendEvent(h)
  <2>1. pc'[h] = AfterEvent(h) /\ UNCHANGED <<state, lease>>
    BY <1>6 DEF appendEvent
  <2>2. CASE pc[h] \in FailurePcs
    BY <1>6, <2>1, <2>2 DEF appendEvent, GoesOn, ExecutingPcs
  <2>3. CASE pc[h] \notin FailurePcs
    <3>1. AfterEvent(h) = "ack"
      BY <1>6, <2>3 DEF appendEvent, EventOf, AfterEvent, FailurePcs
    <3> QED BY <1>6, <2>1, <3>1 DEF appendEvent, Outside, ExecutingPcs, FailurePcs
  <2> QED BY <1>6, <2>2, <2>3 DEF appendEvent
<1> QED BY <1>1, <1>2, <1>3, <1>4, <1>5, <1>6 DEF HandlerStep

\* The states that the second transaction of a request can change.
LEMMA TransitionsFrom ==
  ASSUME Inv
  PROVE  /\ Allowed(state, "queued") => state = "awaiting_approval"
         /\ Allowed(state, "cancelled") => state # "succeeded"
BY DEF Inv, TypeOK, RowOK, Allowed, allowedTransitions, RunStates

-----------------------------------------------------------------------------
(* Exclusion.                                                              *)

\* The row tells whether it is executed, whatever a handler or a request does.
LEMMA ExcludedStep ==
  ASSUME Inv, Excluded, [Next]_vars
  PROVE  Excluded'
<1> SUFFICES ASSUME ~lapsed' PROVE Excluded'
  BY DEF Excluded
<1>1. ASSUME NEW h \in Handlers, Claim(h) PROVE Excluded'
  <2>1. /\ ~lapsed /\ state' = "running" /\ lease' = "live"
        /\ \A g \in Handlers : g # h => pc'[g] = pc[g]
    BY <1>1 DEF Claim, historyVars, Goto, Inv, TypeOK
  <2>2. \A g \in Handlers : pc[g] \notin ExecutingPcs
    BY <1>1, <2>1 DEF Claim, Claimable, Excluded, Inv, RowOK
  <2> QED BY <2>1, <2>2 DEF Excluded
<1>2. ASSUME NEW h \in Handlers,
             \/ Deliver(h) \/ DbError(h) \/ Settle(h) \/ Crash(h)
             \/ HandlerStep(h) /\ ~Claim(h)
      PROVE  Excluded'
  <2>1. /\ GoesOn(h) \/ Outside(h) \/ Leaves(h)
        /\ ~lapsed
        /\ \A g \in Handlers : g # h => pc'[g] = pc[g]
    BY <1>2, HandlerKinds
  <2>2. CASE GoesOn(h)
    BY <2>1, <2>2 DEF Excluded, GoesOn
  <2>3. CASE Outside(h)
    BY <2>1, <2>3 DEF Excluded, Outside
  <2>4. CASE Leaves(h)
    BY <2>1, <2>4 DEF Excluded, Leaves
  <2> QED BY <2>1, <2>2, <2>3, <2>4
<1>3. ASSUME NEW r \in Requests, RequestStep(r) PROVE Excluded'
  <2> USE DEF rowVars, handlerVars, historyVars
  <2>1. CASE Approve(r)
    <3>1. state = "awaiting_approval"
      BY <2>1, TransitionsFrom DEF Approve
    <3> QED BY <2>1, <3>1 DEF Approve, Excluded
  <2>2. CASE Cancel(r)
    BY <2>2 DEF Cancel, Excluded
  <2>3. CASE CheckApprove(r) \/ CheckCancel(r) \/ RequestRefused(r) \/ RequestRollsBack(r)
    BY <2>3 DEF CheckApprove, CheckCancel, RequestRefused, RequestRollsBack, Excluded
  <2> QED BY <1>3, <2>1, <2>2, <2>3 DEF RequestStep
<1>4. CASE LeaseExpires \/ CredentialLost \/ UNCHANGED vars
  BY <1>4 DEF LeaseExpires, CredentialLost, vars, rowVars, handlerVars, historyVars, Excluded
<1> QED BY <1>1, <1>2, <1>3, <1>4 DEF Next

\* As long as no lease ran out, an executor that has not left is alone, and
\* the row is neither succeeded nor parked.
LEMMA Alone ==
  ASSUME Excluded, ~lapsed, NEW h \in Handlers, pc[h] \in ExecutingPcs
  PROVE  /\ state \notin {"queued", "awaiting_approval", "succeeded"}
         /\ \A g \in Handlers : g # h => pc[g] \notin ExecutingPcs
BY DEF Excluded

-----------------------------------------------------------------------------
(* Success is final.                                                       *)

\* A succeeded row is neither claimed, approved nor cancelled, and nobody is
\* left to write it.
LEMMA FinalStep ==
  ASSUME Inv, Excluded, Final, [Next]_vars
  PROVE  Final'
<1> SUFFICES ASSUME ~lapsed' PROVE Final'
  BY DEF Final
<1>1. ASSUME NEW h \in Handlers, Claim(h) PROVE Final'
  <2>1. ~lapsed /\ (\A g \in Handlers : pc'[g] = "complete_event" => pc[g] = "complete_event")
    <3>1. current_step \in 0..(StepCount + 1)
      BY DEF Inv, TypeOK
    <3>2. pc'[h] # "complete_event"
      BY <1>1, <3>1, DispatchOK DEF Claim, Goto, Inv, TypeOK
    <3> QED BY <1>1, <3>2 DEF Claim, historyVars, Goto, Inv, TypeOK
  <2>2. state # "succeeded"
    BY <1>1 DEF Claim, Claimable
  <2> QED BY <1>1, <2>1, <2>2 DEF Claim, Final
<1>2. ASSUME NEW h \in Handlers, complete(h) PROVE Final'
  BY <1>2 DEF complete, Final, Goto
<1>3. ASSUME NEW h \in Handlers,
             \/ Deliver(h) \/ DbError(h) \/ Settle(h) \/ Crash(h)
             \/ HandlerStep(h) /\ ~Claim(h) /\ ~complete(h)
      PROVE  Final'
  <2>1. /\ GoesOn(h) \/ Outside(h) \/ Leaves(h)
        /\ ~lapsed
        /\ \A g \in Handlers : g # h => pc'[g] = pc[g]
    BY <1>3, HandlerKinds
  <2>2. state = "succeeded" => state' = "succeeded"
    BY <2>1, Alone DEF GoesOn, Outside, Leaves
  <2>3. pc'[h] # "complete_event"
    <3>1. CASE advance(h)
      <4>1. index[h] + 1 \in 0..(StepCount + 1)
        BY <3>1, DefinitionType DEF advance, Inv, HandlerOK, StepIndex
      <4> QED BY <3>1, <4>1, DispatchOK DEF advance, Goto, Inv, TypeOK
    <3>2. CASE ~advance(h)
      BY <1>3, <3>2 DEF Deliver, DbError, Settle, Crash, HandlerStep, ClaimNoRows, recordStep,
         commitEffect, fetch, consumeCredential, callOpenAICompatible, awaitApproval,
         fail, uncertain, appendEvent, AfterEvent, Goto, Inv, TypeOK
    <3> QED BY <3>1, <3>2
  <2>4. "succeeded" \in events' => "succeeded" \in events \/ pc[h] = "complete_event"
    BY <1>3 DEF Deliver, DbError, Settle, Crash, HandlerStep, ClaimNoRows, recordStep,
       commitEffect, fetch, consumeCredential, callOpenAICompatible, advance, awaitApproval,
       fail, uncertain, appendEvent, EventOf, evidenceVars
  <2> QED BY <2>1, <2>2, <2>3, <2>4 DEF Final
<1>4. ASSUME NEW r \in Requests, RequestStep(r) PROVE Final'
  <2>1. /\ state = "succeeded" => state' = "succeeded"
        /\ lapsed' = lapsed /\ pc' = pc
        /\ "succeeded" \in events' => "succeeded" \in events
    BY <1>4, TransitionsFrom DEF RequestStep, CheckApprove, CheckCancel, Approve, Cancel,
       RequestRefused, RequestRollsBack, rowVars, evidenceVars, handlerVars, historyVars
  <2> QED BY <2>1 DEF Final
<1>5. CASE LeaseExpires \/ CredentialLost \/ UNCHANGED vars
  BY <1>5 DEF LeaseExpires, CredentialLost, vars, rowVars, evidenceVars, handlerVars,
     historyVars, Final
<1> QED BY <1>1, <1>2, <1>3, <1>4, <1>5 DEF Next

-----------------------------------------------------------------------------
(* The executor and the row stand at the same step.                        *)

\* Dispatch leaves the loop only at the end of the definition.
LEMMA DispatchEnds ==
  ASSUME TypeOK, NEW i \in 0..(StepCount + 1), Dispatch(i) = "complete"
  PROVE  i >= StepCount
<1> SUFFICES ASSUME ~(i >= StepCount) PROVE Dispatch(i) # "complete"
  OBVIOUS
<1> QED BY DEF Dispatch

\* A handler that dispatches knows the step it dispatches from.
LEMMA NextIndex ==
  ASSUME Inv, NEW h \in Handlers
  PROVE  /\ current_step \in 0..(StepCount + 1)
         /\ pc[h] = "advance" => index[h] + 1 \in 0..(StepCount + 1)
BY DefinitionType DEF Inv, TypeOK, HandlerOK, StepIndex

\* A claim starts at the row's step, an advance moves both, and only a parked
\* row, which nobody executes, is moved by a request.
LEMMA AlignedStep ==
  ASSUME Inv, Excluded, Aligned, [Next]_vars
  PROVE  Aligned'
<1> SUFFICES ASSUME ~lapsed' PROVE Aligned'
  BY DEF Aligned
<1>1. ASSUME NEW h \in Handlers, Claim(h) PROVE Aligned'
  <2>1. /\ ~lapsed /\ current_step' = current_step /\ definition' = definition
        /\ index'[h] = current_step
        /\ \A g \in Handlers : g # h => pc'[g] = pc[g] /\ index'[g] = index[g]
    BY <1>1 DEF Claim, historyVars, Goto, Inv, TypeOK
  <2>2. pc'[h] = "complete" => current_step >= StepCount
    BY <1>1, NextIndex, DispatchEnds DEF Claim, Goto, Inv, TypeOK
  <2> QED BY <2>1, <2>2 DEF Aligned, StepCount
<1>2. ASSUME NEW h \in Handlers, advance(h) PROVE Aligned'
  <2>1. /\ ~lapsed /\ current_step' = index[h] + 1 /\ definition' = definition
        /\ index'[h] = index[h] + 1
        /\ \A g \in Handlers : g # h => pc'[g] = pc[g] /\ index'[g] = index[g]
    BY <1>2 DEF advance, historyVars, Goto, Inv, TypeOK
  <2>2. pc'[h] = "complete" => index[h] + 1 >= StepCount
    BY <1>2, NextIndex, DispatchEnds DEF advance, Goto, Inv, TypeOK
  <2>3. \A g \in Handlers : g # h => pc[g] \notin ExecutingPcs
    BY <1>2, <2>1, Alone DEF advance, ExecutingPcs
  <2> QED BY <2>1, <2>2, <2>3 DEF Aligned, StepCount, ExecutingPcs
<1>3. ASSUME NEW h \in Handlers,
             \/ Deliver(h) \/ DbError(h) \/ Settle(h) \/ Crash(h)
             \/ HandlerStep(h) /\ ~Claim(h) /\ ~advance(h)
      PROVE  Aligned'
  <2>1. /\ lapsed' = lapsed /\ definition' = definition /\ index' = index
        /\ \A g \in Handlers : g # h => pc'[g] = pc[g]
        /\ pc'[h] \in ExecutingPcs => pc[h] \in ExecutingPcs
        /\ pc'[h] # "complete"
    <3> USE DEF historyVars, Goto, Inv, TypeOK
    <3>1. CASE appendEvent(h)
      BY <3>1 DEF appendEvent, EventOf, AfterEvent, ExecutingPcs, FailurePcs
    <3>2. CASE ~appendEvent(h)
      BY <1>3, <3>2 DEF Deliver, DbError, Settle, Crash, HandlerStep, ClaimNoRows, recordStep,
         commitEffect, fetch, consumeCredential, callOpenAICompatible, awaitApproval,
         fail, uncertain, complete, ExecutingPcs, FailurePcs
    <3> QED BY <3>1, <3>2
  <2>2. current_step' = current_step \/ awaitApproval(h)
    BY <1>3 DEF Deliver, DbError, Settle, Crash, HandlerStep, ClaimNoRows, recordStep,
       commitEffect, fetch, consumeCredential, callOpenAICompatible,
       fail, uncertain, complete, appendEvent, rowVars
  <2>3. current_step' = current_step
    BY <2>1, <2>2 DEF awaitApproval, Aligned, ExecutingPcs
  <2> QED BY <2>1, <2>3 DEF Aligned, StepCount
<1>4. ASSUME NEW r \in Requests, Approve(r) PROVE Aligned'
  <2>1. state = "awaiting_approval"
    BY <1>4, TransitionsFrom DEF Approve
  <2>2. ~lapsed /\ UNCHANGED <<pc, index, definition>>
    BY <1>4 DEF Approve, handlerVars
  <2>3. \A h \in Handlers : pc[h] \notin ExecutingPcs
    BY <2>1, <2>2, Alone
  <2> QED BY <2>2, <2>3 DEF Aligned, ExecutingPcs
<1>5. ASSUME NEW r \in Requests, RequestStep(r), ~Approve(r) PROVE Aligned'
  BY <1>5 DEF RequestStep, CheckApprove, CheckCancel, Cancel, RequestRefused, RequestRollsBack,
     rowVars, handlerVars, historyVars, Aligned, StepCount
<1>6. CASE LeaseExpires \/ CredentialLost \/ UNCHANGED vars
  BY <1>6 DEF LeaseExpires, CredentialLost, vars, rowVars, handlerVars, historyVars, Aligned,
     StepCount
<1> QED BY <1>1, <1>2, <1>3, <1>4, <1>5, <1>6 DEF Next

-----------------------------------------------------------------------------
(* Evidence keeps up with the row.                                         *)

\* Evident survives a step that touches neither the row's step nor evidence,
\* parks or completes nothing and takes no handler to the end of a step.
LEMMA EvidentFrame ==
  ASSUME Evident, UNCHANGED <<definition, current_step, last_error_code, recorded, lapsed>>,
         state' \in {"awaiting_approval", "succeeded"} => state' = state,
         \A g \in Handlers :
           \/ pc'[g] = pc[g] /\ index'[g] = index[g]
           \/ pc'[g] \notin {"await", "advance", "fail_event", "uncertain_event"}
  PROVE  Evident'
BY DEF Evident, StepIndex, StepCount, StepAt, IsApproval

\* No statement of the executor leaves a step that is not on record, unless
\* the step failed and the row says so.
LEMMA EvidentStep ==
  ASSUME Inv, Excluded, Aligned, Evident, [Next]_vars
  PROVE  Evident'
<1> SUFFICES ASSUME ~lapsed' PROVE Evident'
  BY DEF Evident
<1> USE DEF rowVars, evidenceVars, historyVars, Goto
<1>1. ASSUME NEW h \in Handlers, Claim(h) PROVE Evident'
  <2>1. pc'[h] \notin {"await", "advance", "fail_event", "uncertain_event"}
    BY <1>1, NextIndex, DispatchOK DEF Claim, Inv, TypeOK
  <2>2. \A g \in Handlers : g # h => pc'[g] = pc[g] /\ index'[g] = index[g]
    BY <1>1 DEF Claim, Inv, TypeOK
  <2> QED BY <1>1, <2>1, <2>2, EvidentFrame DEF Claim
<1>2. ASSUME NEW h \in Handlers,
             \/ Deliver(h) \/ DbError(h) \/ Settle(h) \/ Crash(h) \/ ClaimNoRows(h)
             \/ commitEffect(h) \/ fetch(h) \/ consumeCredential(h)
             \/ callOpenAICompatible(h)
      PROVE  Evident'
  <2>1. /\ UNCHANGED <<definition, state, current_step, last_error_code, recorded, lapsed, index>>
        /\ \A g \in Handlers :
             \/ pc'[g] = pc[g]
             \/ pc'[g] \notin {"await", "advance", "fail_event", "uncertain_event"}
    BY <1>2 DEF Deliver, DbError, Settle, Crash, ClaimNoRows, commitEffect, fetch,
       consumeCredential, callOpenAICompatible, Inv, TypeOK
  <2> QED BY <2>1, EvidentFrame
<1>3. ASSUME NEW h \in Handlers, recordStep(h) PROVE Evident'
  <2>1. /\ UNCHANGED <<definition, state, current_step, last_error_code, lapsed, index>>
        /\ recorded' = recorded \cup {index[h]}
        /\ pc'[h] \in {"await", "advance"}
        /\ pc'[h] = "await" => IsApproval(index[h])
        /\ \A g \in Handlers : g # h => pc'[g] = pc[g]
    BY <1>3 DEF recordStep, Inv, TypeOK
  <2>2. state \notin {"awaiting_approval", "succeeded"}
    BY <1>3, <2>1, Alone DEF recordStep, ExecutingPcs
  <2> QED BY <2>1, <2>2 DEF Evident, StepIndex, StepCount, StepAt, IsApproval
<1>4. ASSUME NEW h \in Handlers, appendEvent(h) PROVE Evident'
  <2>1. /\ UNCHANGED <<definition, state, current_step, last_error_code, recorded, lapsed, index>>
        /\ pc[h] \in {"await_event", "complete_event", "fail_event", "uncertain_event"}
        /\ pc'[h] \in {"ack", "advance"}
        /\ pc'[h] = "advance" => pc[h] \in {"fail_event", "uncertain_event"}
        /\ \A g \in Handlers : g # h => pc'[g] = pc[g]
    BY <1>4 DEF appendEvent, EventOf, AfterEvent, Inv, TypeOK
  <2> QED BY <2>1 DEF Evident, StepIndex, StepCount, StepAt, IsApproval
<1>5. ASSUME NEW h \in Handlers, advance(h) PROVE Evident'
  <2>1. /\ UNCHANGED <<definition, state, last_error_code, recorded, lapsed>>
        /\ current_step' = index[h] + 1
        /\ \A g \in Handlers : g # h => pc'[g] = pc[g] /\ index'[g] = index[g]
    BY <1>5 DEF advance, Inv, TypeOK
  <2>2. pc'[h] \notin {"await", "advance", "fail_event", "uncertain_event"}
    BY <1>5, NextIndex, DispatchOK DEF advance, Inv, TypeOK
  <2>3. /\ index[h] = current_step
        /\ state \notin {"awaiting_approval", "succeeded"}
        /\ index[h] \in recorded \/ last_error_code # "none"
    BY <1>5, <2>1, Alone DEF advance, ExecutingPcs, Aligned, Evident
  <2>4. last_error_code = "none" => \A i \in StepIndex : i < index[h] + 1 => i \in recorded
    BY <2>1, <2>3 DEF Evident, Inv, TypeOK, StepIndex
  <2> QED BY <2>1, <2>2, <2>3, <2>4 DEF Evident, StepIndex, StepCount, StepAt, IsApproval
<1>6. ASSUME NEW h \in Handlers, awaitApproval(h) PROVE Evident'
  <2>1. /\ UNCHANGED <<definition, last_error_code, recorded, lapsed, index>>
        /\ pc[h] = "await" /\ pc'[h] = "await_event"
        /\ state' = "awaiting_approval" /\ current_step' = index[h]
        /\ \A g \in Handlers : g # h => pc'[g] = pc[g]
    BY <1>6 DEF awaitApproval, Inv, TypeOK
  <2>2. /\ index[h] = current_step
        /\ index[h] \in recorded /\ IsApproval(index[h])
    BY <2>1 DEF ExecutingPcs, Aligned, Evident
  <2> QED BY <2>1, <2>2 DEF Evident, StepIndex, StepCount, StepAt, IsApproval
<1>7. ASSUME NEW h \in Handlers, fail(h) \/ uncertain(h) PROVE Evident'
  <2>1. /\ UNCHANGED <<definition, current_step, recorded, lapsed, index>>
        /\ last_error_code' # "none"
        /\ pc'[h] \in {"fail_event", "uncertain_event"}
        /\ state' \in {"failed", "uncertain"}
        /\ \A g \in Handlers : g # h => pc'[g] = pc[g]
    BY <1>7 DEF fail, uncertain, Inv, TypeOK
  <2> QED BY <2>1 DEF Evident, StepIndex, StepCount, StepAt, IsApproval
<1>8. ASSUME NEW h \in Handlers, complete(h) PROVE Evident'
  <2>1. /\ UNCHANGED <<definition, current_step, last_error_code, recorded, lapsed, index>>
        /\ pc[h] = "complete" /\ pc'[h] = "complete_event"
        /\ state' = "succeeded"
        /\ \A g \in Handlers : g # h => pc'[g] = pc[g]
    BY <1>8 DEF complete, Inv, TypeOK
  <2>2. current_step >= StepCount
    BY <2>1 DEF Aligned, ExecutingPcs
  <2>3. \A i \in StepIndex : i < current_step
    BY <2>2, DefinitionType DEF StepIndex, Inv, TypeOK
  <2>4. last_error_code = "none" => recorded = StepIndex
    BY <2>1, <2>3 DEF Evident, Inv, TypeOK
  <2> QED BY <2>1, <2>4 DEF Evident, StepIndex, StepCount, StepAt, IsApproval
<1>9. ASSUME NEW r \in Requests, Approve(r) PROVE Evident'
  <2>1. /\ state = "awaiting_approval" /\ state' = "queued"
        /\ current_step' = current_step + 1
        /\ UNCHANGED <<definition, last_error_code, recorded, lapsed, pc, index>>
    BY <1>9, TransitionsFrom DEF Approve, handlerVars
  <2>2. last_error_code = "none" => \A i \in StepIndex : i < current_step + 1 => i \in recorded
    BY <2>1 DEF Evident, Inv, TypeOK, StepIndex
  <2> QED BY <2>1, <2>2 DEF Evident, StepIndex, StepCount, StepAt, IsApproval
<1>10. ASSUME NEW r \in Requests, RequestStep(r), ~Approve(r) PROVE Evident'
  <2>1. /\ UNCHANGED <<definition, current_step, last_error_code, recorded, lapsed, pc, index>>
        /\ state' \in {state, "cancelled"}
    BY <1>10 DEF RequestStep, CheckApprove, CheckCancel, Cancel, RequestRefused,
       RequestRollsBack, handlerVars
  <2> QED BY <2>1, EvidentFrame
<1>11. CASE LeaseExpires \/ CredentialLost \/ UNCHANGED vars
  <2>1. /\ UNCHANGED <<definition, state, current_step, last_error_code, recorded, pc, index>>
        /\ ~lapsed
    <3>1. ~lapsed
      BY <1>11, Zenon DEF LeaseExpires, CredentialLost, vars
    <3> QED BY <1>11, <3>1 DEF LeaseExpires, CredentialLost, vars, handlerVars
  <2> QED BY <2>1 DEF Evident, StepIndex, StepCount, StepAt, IsApproval
<1>12. ASSUME NEW h \in Handlers, HandlerStep(h) PROVE Evident'
  BY <1>1, <1>2, <1>3, <1>4, <1>5, <1>6, <1>7, <1>8, <1>12 DEF HandlerStep
<1> QED BY <1>2, <1>9, <1>10, <1>11, <1>12 DEF Next

-----------------------------------------------------------------------------
\* The run that createRun leaves satisfies the invariant.
LEMMA LeaseInitially == Init => LeaseInv
<1> SUFFICES ASSUME Init PROVE LeaseInv OBVIOUS
<1>1. Excluded /\ Final /\ Aligned
  BY DEF Init, Excluded, Final, Aligned, ExecutingPcs, FailurePcs
<1>2. StepCount \in Nat
  BY InitInv, DefinitionType DEF Inv
<1>3. Evident
  BY <1>2 DEF Init, Evident, StepIndex
<1> QED BY <1>1, <1>3, InitInv DEF LeaseInv

\* The invariant holds of every behaviour of the handlers and requests.
LEMMA LeaseInvariance == Spec => []LeaseInv
<1>1. LeaseInv /\ [Next]_vars => LeaseInv'
  BY NextInv, ExcludedStep, FinalStep, AlignedStep, EvidentStep DEF LeaseInv
<1> QED BY LeaseInitially, <1>1, PTL DEF Spec

\* As long as no lease runs out under a running row, one handler at most is
\* between a claim and its last update of the row, for any number of handlers,
\* redeliveries, approvals and cancellations: the where clause of claim is
\* all the mutual exclusion there is, and it suffices.
THEOREM LeaseExcludes == Spec => []OneExecutorWhileLeased
<1>1. LeaseInv => OneExecutorWhileLeased
  <2> SUFFICES ASSUME LeaseInv, ~lapsed PROVE Cardinality(Executors) <= 1
    BY DEF OneExecutorWhileLeased
  <2>1. CASE Executors = {}
    BY <2>1, FS_EmptySet
  <2>2. ASSUME NEW h \in Executors PROVE Cardinality(Executors) <= 1
    <3>1. Executors = {h}
      BY <2>2 DEF Executors, LeaseInv, Excluded
    <3>2. Cardinality({h}) = 1
      BY FS_Singleton, Zenon
    <3> QED BY <3>1, <3>2
  <2> QED BY <2>1, <2>2
<1> QED BY LeaseInvariance, <1>1, PTL

\* Without a lapse, every step behind the row is on record unless one failed,
\* success means that all are, and a parked run stands at a recorded approval
\* step: no interleaving of the separate statements of recordStep, advance,
\* awaitApproval and approve shows otherwise.
THEOREM EvidenceKeepsUp == Spec => []RecordedPrefix
<1>1. LeaseInv => RecordedPrefix
  BY DEF LeaseInv, Evident, RecordedPrefix
<1> QED BY LeaseInvariance, <1>1, PTL

\* Without a lapse, a run whose success is on record stays succeeded, although
\* the event is a statement of its own and a cancellation may be in flight.
THEOREM SuccessStays == Spec => []SuccessIsFinal
<1>1. LeaseInv => SuccessIsFinal
  BY DEF LeaseInv, Final, SuccessIsFinal
<1> QED BY LeaseInvariance, <1>1, PTL

-----------------------------------------------------------------------------
(* The credential, whether or not leases run out.                          *)

\* Only the handler that took the credential comes to call the provider, and
\* it calls once.
LEMMA SpentStep ==
  ASSUME TypeOK, Spent, [Next]_vars
  PROVE  Spent'
<1>1. ASSUME NEW h \in Handlers, consumeCredential(h) PROVE Spent'
  BY <1>1 DEF consumeCredential, Goto, historyVars, Spent, TypeOK
<1>2. ASSUME NEW h \in Handlers, callOpenAICompatible(h) PROVE Spent'
  <2>1. /\ pc[h] = "call" /\ pc'[h] # "call"
        /\ \A g \in Handlers : g # h => pc'[g] = pc[g]
        /\ credential' = credential /\ providerCalls' = providerCalls + 1
    BY <1>2 DEF callOpenAICompatible, Goto, TypeOK
  <2> QED BY <2>1 DEF Spent
<1>3. ASSUME NEW h \in Handlers,
             \/ Deliver(h) \/ DbError(h) \/ Settle(h) \/ Crash(h)
             \/ HandlerStep(h) /\ ~consumeCredential(h) /\ ~callOpenAICompatible(h)
      PROVE  Spent'
  <2>1. /\ UNCHANGED <<credential, providerCalls>>
        /\ \A g \in Handlers : g # h => pc'[g] = pc[g]
    BY <1>3 DEF Deliver, DbError, Settle, Crash, HandlerStep, Claim, ClaimNoRows, recordStep,
       commitEffect, fetch, advance, awaitApproval, fail, uncertain, complete, appendEvent,
       historyVars, Goto, TypeOK
  <2>2. pc'[h] # "call"
    <3>1. \A i : Dispatch(i) # "call"
      BY DEF Dispatch
    <3> QED
      BY <1>3, <3>1 DEF Deliver, DbError, Settle, Crash, HandlerStep, Claim, ClaimNoRows,
         recordStep, commitEffect, fetch, advance, awaitApproval, fail, uncertain, complete,
         appendEvent, AfterEvent, Goto, TypeOK
  <2> QED BY <2>1, <2>2 DEF Spent
<1>4. ASSUME NEW r \in Requests, RequestStep(r) PROVE Spent'
  BY <1>4 DEF RequestStep, CheckApprove, CheckCancel, Approve, Cancel, RequestRefused,
     RequestRollsBack, handlerVars, historyVars, Spent
<1>5. CASE LeaseExpires \/ CredentialLost \/ UNCHANGED vars
  BY <1>5 DEF LeaseExpires, CredentialLost, vars, handlerVars, historyVars, Spent
<1> QED BY <1>1, <1>2, <1>3, <1>4, <1>5 DEF Next

\* The broker hands the credential out once, so all the attempts of a run
\* together call the provider once at most, lapsed leases and overlapping
\* handlers included.
THEOREM ProviderIsCalledOnce == Spec => []ProviderCalledOnce
<1>1. Init => Spent
  BY DEF Init, Spent
<1>2. Inv /\ Spent /\ [Next]_vars => Spent'
  BY SpentStep DEF Inv
<1>3. Spent => ProviderCalledOnce
  BY DEF Spent, ProviderCalledOnce
<1> QED BY Invariance, <1>1, <1>2, <1>3, PTL DEF Spec
=============================================================================
