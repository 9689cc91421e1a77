----------------------------- MODULE RunExecution -----------------------------
(***************************************************************************)
(* One workflow run executed by concurrent worker handlers while operators *)
(* approve and cancel it through the API.                                  *)
(*                                                                         *)
(* Shared state is the run's row in workflow_runs and the rows of the      *)
(* other tables that belong to it.  A handler is one goroutine of a worker *)
(* process working on one delivery (services/worker/main.go, process and   *)
(* execute).  Each SQL statement of a handler is an action of its own,     *)
(* because the handler runs them outside any transaction; claim and the    *)
(* API's transition are transactions and are one action each.              *)
(*                                                                         *)
(* Deliveries are at least once: while a row of workflow_outbox exists for *)
(* the run, a free handler may be given its message at any time.  Module   *)
(* Runtime restricts this to what the publisher and JetStream deliver.     *)
(*                                                                         *)
(* lease_owner and terminal_evidence are written and never read by any     *)
(* statement, so they are left out, as are inputs, outputs and budgets.    *)
(* Steps are numbered from 0, as current_step and step_index are.          *)
(***************************************************************************)
EXTENDS Contracts, FiniteSets

CONSTANTS
  Definitions,  \* workflow definitions the run may have been created from
  Handlers,     \* worker goroutines, of any number of worker processes
  Requests,     \* concurrent approve and cancel requests
  MaxAttempts   \* bound on the number of claims explored

ASSUME DefinitionsAssumption ==
  \A d \in Definitions : /\ d.schemaVersion \in STRING
                         /\ d.steps \in Seq(Step)
                         /\ Len(d.steps) <= MaxSteps
                         /\ ApprovalPrecedes(d.steps)

ASSUME MaxAttemptsAssumption == MaxAttempts \in Nat

VARIABLES
  definition,       \* workflow_definitions.definition of the run's workflow
  state,            \* workflow_runs.state
  current_step,     \* workflow_runs.current_step
  lease,            \* workflow_runs.lease_expires_at: null, ahead of now, past
  attempt_count,    \* workflow_runs.attempt_count
  last_error_code,  \* workflow_runs.last_error_code
  recorded,         \* step_index of the rows of run_step_results
  effects,          \* number of rows of effect_commits for each step
  events,           \* event_types present in run_events
  outbox,           \* number of rows of workflow_outbox for the run
  credential,       \* the run's handle in the control plane's broker
  pc,               \* the statement each handler is about to execute
  index,            \* each handler's loop variable in execute
  request,          \* the transition each API request is about to make
  approved,         \* history: current_step of every approve transition
  lapsed,           \* history: a lease has expired while the run was running
  providerCalls     \* history: requests sent to the model provider

rowVars == <<state, current_step, lease, attempt_count, last_error_code>>
evidenceVars == <<recorded, effects, events, outbox>>
handlerVars == <<pc, index>>
historyVars == <<approved, lapsed, providerCalls>>
vars == <<definition, rowVars, evidenceVars, credential, handlerVars, request, historyVars>>

-----------------------------------------------------------------------------
(* The workflow definition.                                                *)

StepCount == Len(definition.steps)
StepIndex == 0..(StepCount - 1)
StepAt(i) == definition.steps[i + 1]
IsApproval(i) == StepAt(i).kind = "approval"
IsTicket(i) == StepAt(i).kind = "tool" /\ StepAt(i).op = "mock_ticket_write"

supportedWorkflowSchema == definition.schemaVersion \in {"", "1"}

-----------------------------------------------------------------------------
(* Program counters of a handler.  The pcs in Statements are about to run  *)
(* a SQL statement; "fetch", "consume" and "call" are HTTP requests; "ack" *)
(* and "nak" are the answers to JetStream.                                 *)

FailurePcs == {"fail", "fail_event", "uncertain", "uncertain_event"}

Statements == {"claiming", "record", "effect", "advance", "await", "await_event",
               "complete", "complete_event"} \cup FailurePcs

Pcs == Statements \cup {"idle", "fetch", "consume", "call", "ack", "nak"}

\* The pcs from which a handler still goes on to update the run's row.
ExecutingPcs ==
  {"record", "effect", "fetch", "consume", "call", "advance", "await", "complete"}
    \cup FailurePcs

Executors == {h \in Handlers : pc[h] \in ExecutingPcs}

\* Mutant: a ticket is recorded without its insert into the ledger.
DispatchSkipsLedger(i) ==
  IF i >= StepCount THEN "complete" ELSE "record"

\* The head of execute's loop: the first statement of the step at i, or of
\* the completion.  A step that does not unmarshal has kind "malformed".
Dispatch(i) ==
  IF i >= StepCount THEN "complete"
  ELSE LET step == StepAt(i) IN
       CASE step.kind = "approval" -> "record"
         [] step.kind = "model" /\ step.op = "mock" -> "record"
         [] step.kind = "model" /\ step.op = "openai_compatible" ->
              IF credential = "none" THEN "uncertain" ELSE "consume"
         [] step.kind = "transform" /\ step.op \in {"extract_json", "template"} -> "record"
         [] step.kind = "tool" /\ step.op = "mock_data_read" -> "record"
         [] step.kind = "tool" /\ step.op = "mock_ticket_write" -> "effect"
         [] step.kind = "tool" /\ step.op = "allowlisted_http_fetch" -> "fetch"
         [] OTHER -> "fail"

\* Where execute goes once fail has returned nil.  Only an unsupported schema
\* and a malformed step return from execute; every other call of fail or
\* uncertain leaves stepErr nil, and the loop advances past the step.
ReturnsAfterFail(i) ==
  \/ ~supportedWorkflowSchema
  \/ i \in StepIndex /\ StepAt(i).kind = "malformed"

Goto(h, next) == pc' = [pc EXCEPT ![h] = next]

-----------------------------------------------------------------------------
(* The run as createRun's transaction leaves it.                           *)

Init ==
  /\ definition \in Definitions
  /\ state = "queued"
  /\ current_step = 0
  /\ lease = "none"
  /\ attempt_count = 0
  /\ last_error_code = "none"
  /\ recorded = {}
  /\ effects = [i \in StepIndex |-> 0]
  /\ events = {"created"}
  /\ outbox = 1
  /\ credential \in {"none", "held"}
  /\ pc = [h \in Handlers |-> "idle"]
  /\ index = [h \in Handlers |-> 0]
  /\ request = [r \in Requests |-> "none"]
  /\ approved = {}
  /\ lapsed = FALSE
  /\ providerCalls = 0

-----------------------------------------------------------------------------
(* Delivery and claim.                                                     *)

\* A worker goroutine receives a message for this run.
Deliver(h) ==
  /\ pc[h] = "idle"
  /\ outbox > 0
  /\ Goto(h, "claiming")
  /\ UNCHANGED <<definition, rowVars, evidenceVars, credential, index, request, historyVars>>

\* Mutant: an active run is claimed without looking at its lease.
ClaimableIgnoresLease == state \in {"queued", "leased", "running"}

\* Mutant: only a queued run is claimed.
ClaimableQueuedOnly == state = "queued"

\* The where clause of claim's select: a queued run, or an active one whose
\* lease has run out.
Claimable == state = "queued" \/ (state \in {"leased", "running"} /\ lease = "expired")

\* Mutant: the claim does not set lease_expires_at.
ClaimWithoutLease(h) ==
  /\ pc[h] = "claiming"
  /\ Claimable
  /\ attempt_count < MaxAttempts
  /\ state' = "running"
  /\ attempt_count' = attempt_count + 1
  /\ events' = events \cup {"leased", "started"}
  /\ index' = [index EXCEPT ![h] = current_step]
  /\ Goto(h, IF supportedWorkflowSchema THEN Dispatch(current_step) ELSE "fail")
  /\ UNCHANGED <<definition, current_step, lease, last_error_code, recorded, effects, outbox,
                 credential, request, historyVars>>

\* The claim transaction, and the entry of execute.
Claim(h) ==
  /\ pc[h] = "claiming"
  /\ Claimable
  /\ attempt_count < MaxAttempts
  /\ state' = "running"
  /\ lease' = "live"
  /\ attempt_count' = attempt_count + 1
  /\ events' = events \cup {"leased", "started"}
  /\ index' = [index EXCEPT ![h] = current_step]
  /\ Goto(h, IF supportedWorkflowSchema THEN Dispatch(current_step) ELSE "fail")
  /\ UNCHANGED <<definition, current_step, last_error_code, recorded, effects, outbox,
                 credential, request, historyVars>>

\* Some transaction holds a lock on the run's row at this moment: another
\* handler or a request is in the middle of a statement that updates the row
\* or inserts a row that references it.
RowLocked(h) ==
  \/ \E g \in Handlers \ {h} : pc[g] \in Statements
  \/ \E r \in Requests : request[r] # "none"

\* The claim's select returns no row, because of its where clause or because
\* of skip locked; process returns nil and the message is acknowledged.
ClaimNoRows(h) ==
  /\ pc[h] = "claiming"
  /\ ~Claimable \/ RowLocked(h)
  /\ Goto(h, "ack")
  /\ UNCHANGED <<definition, rowVars, evidenceVars, credential, index, request, historyVars>>

-----------------------------------------------------------------------------
(* The steps of a workflow.                                                *)

\* Mutant: an approval step is recorded like any other and not waited for.
recordStepWithoutApproval(h) ==
  /\ pc[h] = "record"
  /\ recorded' = recorded \cup {index[h]}
  /\ Goto(h, "advance")
  /\ UNCHANGED <<definition, rowVars, effects, events, outbox, credential, index, request,
                 historyVars>>

\* recordStep: the first evidence of a step is kept (on conflict do nothing).
recordStep(h) ==
  /\ pc[h] = "record"
  /\ recorded' = recorded \cup {index[h]}
  /\ Goto(h, IF IsApproval(index[h]) THEN "await" ELSE "advance")
  /\ UNCHANGED <<definition, rowVars, effects, events, outbox, credential, index, request,
                 historyVars>>

\* Mutant: no on-conflict clause and no unique key.
commitEffectAgain(h) ==
  /\ pc[h] = "effect"
  /\ effects' = [effects EXCEPT ![index[h]] = @ + 1]
  /\ Goto(h, "record")
  /\ UNCHANGED <<definition, rowVars, recorded, events, outbox, credential, index, request,
                 historyVars>>

\* The insert into effect_commits; a row with the same key is left alone.
commitEffect(h) ==
  /\ pc[h] = "effect"
  /\ effects' = IF effects[index[h]] = 0
                  THEN [effects EXCEPT ![index[h]] = @ + 1] ELSE effects
  /\ Goto(h, "record")
  /\ UNCHANGED <<definition, rowVars, recorded, events, outbox, credential, index, request,
                 historyVars>>

\* The allow-listed fetch is recorded, or the url, the exchange or the body
\* is refused.
fetch(h) ==
  /\ pc[h] = "fetch"
  /\ \E next \in {"record", "fail"} : Goto(h, next)
  /\ UNCHANGED <<definition, rowVars, evidenceVars, credential, index, request, historyVars>>

\* Mutant: the broker keeps the credential it hands out.
consumeCredentialKept(h) ==
  /\ pc[h] = "consume"
  /\ credential = "held"
  /\ \E next \in {"call", "uncertain"} : Goto(h, next)
  /\ UNCHANGED <<definition, rowVars, evidenceVars, credential, index, request, historyVars>>

\* executeProviderModel asks the control plane for the credential.  The
\* broker forgets it when it answers; the answer may be lost, the broker may
\* not be reached, and the provider may not be configured.
consumeCredential(h) ==
  /\ pc[h] = "consume"
  /\ \/ /\ credential = "held"
        /\ credential' = "gone"
        /\ \E next \in {"call", "uncertain"} : Goto(h, next)
     \/ /\ Goto(h, "uncertain")
        /\ UNCHANGED credential
  /\ UNCHANGED <<definition, rowVars, evidenceVars, index, request, historyVars>>

callOpenAICompatible(h) ==
  /\ pc[h] = "call"
  /\ providerCalls' = providerCalls + 1
  /\ \E next \in {"record", "uncertain"} : Goto(h, next)
  /\ UNCHANGED <<definition, rowVars, evidenceVars, credential, index, request, approved, lapsed>>

\* The end of the loop body.  The update has no condition but the run's id.
advance(h) ==
  /\ pc[h] = "advance"
  /\ current_step' = index[h] + 1
  /\ lease' = "live"
  /\ index' = [index EXCEPT ![h] = @ + 1]
  /\ Goto(h, Dispatch(index[h] + 1))
  /\ UNCHANGED <<definition, state, attempt_count, last_error_code, evidenceVars, credential,
                 request, historyVars>>

\* Mutant: the run is parked after the approval step instead of at it.
awaitApprovalPastStep(h) ==
  /\ pc[h] = "await"
  /\ state' = "awaiting_approval"
  /\ lease' = "none"
  /\ current_step' = index[h] + 1
  /\ Goto(h, "await_event")
  /\ UNCHANGED <<definition, attempt_count, last_error_code, evidenceVars, credential, index,
                 request, historyVars>>

\* awaitApproval after its recordStep.
awaitApproval(h) ==
  /\ pc[h] = "await"
  /\ state' = "awaiting_approval"
  /\ lease' = "none"
  /\ current_step' = index[h]
  /\ Goto(h, "await_event")
  /\ UNCHANGED <<definition, attempt_count, last_error_code, evidenceVars, credential, index,
                 request, historyVars>>

fail(h) ==
  /\ pc[h] = "fail"
  /\ state' = "failed"
  /\ lease' = "none"
  /\ last_error_code' = "failed"
  /\ Goto(h, "fail_event")
  /\ UNCHANGED <<definition, current_step, attempt_count, evidenceVars, credential, index,
                 request, historyVars>>

uncertain(h) ==
  /\ pc[h] = "uncertain"
  /\ state' = "uncertain"
  /\ lease' = "none"
  /\ last_error_code' = "uncertain"
  /\ Goto(h, "uncertain_event")
  /\ UNCHANGED <<definition, current_step, attempt_count, evidenceVars, credential, index,
                 request, historyVars>>

complete(h) ==
  /\ pc[h] = "complete"
  /\ state' = "succeeded"
  /\ lease' = "none"
  /\ Goto(h, "complete_event")
  /\ UNCHANGED <<definition, current_step, attempt_count, last_error_code, evidenceVars,
                 credential, index, request, historyVars>>

\* The run_events insert that follows a state change, outside its statement.
EventOf ==
  [await_event |-> "approval_requested", fail_event |-> "failed",
   uncertain_event |-> "uncertain", complete_event |-> "succeeded"]

\* Mutant: the handler goes on after the event that ends its work.
AfterEventGoesOn(h) == "advance"

AfterEvent(h) ==
  CASE pc[h] \in {"await_event", "complete_event"} -> "ack"
    [] pc[h] = "fail_event" /\ ReturnsAfterFail(index[h]) -> "ack"
    [] OTHER -> "advance"

appendEvent(h) ==
  /\ pc[h] \in DOMAIN EventOf
  /\ events' = events \cup {EventOf[pc[h]]}
  /\ Goto(h, AfterEvent(h))
  /\ UNCHANGED <<definition, rowVars, recorded, effects, outbox, credential, index, request,
                 historyVars>>

-----------------------------------------------------------------------------
(* The ways a handler stops.                                               *)

\* A statement of the handler reports an error: it was not executed, or it
\* was and its reply was lost (the error is then reported at the next pc).
DbError(h) ==
  /\ pc[h] \in Statements \cup {"fetch", "consume", "ack"}
  /\ Goto(h, "nak")
  /\ UNCHANGED <<definition, rowVars, evidenceVars, credential, index, request, historyVars>>

\* The handler acknowledges the message, positively or negatively.
Settle(h) ==
  /\ pc[h] \in {"ack", "nak"}
  /\ Goto(h, "idle")
  /\ UNCHANGED <<definition, rowVars, evidenceVars, credential, index, request, historyVars>>

\* The worker process dies; a process started later takes its place.
Crash(h) ==
  /\ pc[h] # "idle"
  /\ Goto(h, "idle")
  /\ UNCHANGED <<definition, rowVars, evidenceVars, credential, index, request, historyVars>>

HandlerStep(h) ==
  \/ Claim(h) \/ ClaimNoRows(h)
  \/ recordStep(h) \/ commitEffect(h) \/ fetch(h)
  \/ consumeCredential(h) \/ callOpenAICompatible(h)
  \/ advance(h) \/ awaitApproval(h) \/ fail(h) \/ uncertain(h) \/ complete(h)
  \/ appendEvent(h)

-----------------------------------------------------------------------------
(* Time, and the control plane.                                            *)

LeaseExpires ==
  /\ lease = "live"
  /\ lease' = "expired"
  /\ lapsed' = (lapsed \/ state = "running")
  /\ UNCHANGED <<definition, state, current_step, attempt_count, last_error_code, evidenceVars,
                 credential, handlerVars, request, approved, providerCalls>>

\* The broker's entry expires, or the control plane restarts.
CredentialLost ==
  /\ credential = "held"
  /\ credential' = "gone"
  /\ UNCHANGED <<definition, rowVars, evidenceVars, handlerVars, request, historyVars>>

\* The approve and cancel handlers read the run in one transaction ...
CheckApprove(r) ==
  /\ request[r] = "none"
  /\ state = "awaiting_approval"
  /\ request' = [request EXCEPT ![r] = "approve"]
  /\ UNCHANGED <<definition, rowVars, evidenceVars, credential, handlerVars, historyVars>>

CheckCancel(r) ==
  /\ request[r] = "none"
  /\ state \notin TerminalStates
  /\ request' = [request EXCEPT ![r] = "cancel"]
  /\ UNCHANGED <<definition, rowVars, evidenceVars, credential, handlerVars, historyVars>>

\* Mutants: the second transaction relies on the state read by the first.
ApproveUnchecked(r) ==
  /\ request[r] = "approve"
  /\ state' = "queued"
  /\ current_step' = current_step + 1
  /\ events' = events \cup {"approved"}
  /\ outbox' = outbox + 1
  /\ approved' = approved \cup {current_step}
  /\ request' = [request EXCEPT ![r] = "none"]
  /\ UNCHANGED <<definition, lease, attempt_count, last_error_code, recorded, effects,
                 credential, handlerVars, lapsed, providerCalls>>

CancelUnchecked(r) ==
  /\ request[r] = "cancel"
  /\ state' = "cancelled"
  /\ events' = events \cup {"cancelled"}
  /\ request' = [request EXCEPT ![r] = "none"]
  /\ UNCHANGED <<definition, current_step, lease, attempt_count, last_error_code, recorded,
                 effects, outbox, credential, handlerVars, historyVars>>

\* ... and change it in a second one, which locks the row and reads it again.
Approve(r) ==
  /\ request[r] = "approve"
  /\ Allowed(state, "queued")
  /\ state' = "queued"
  /\ current_step' = current_step + 1
  /\ events' = events \cup {"approved"}
  /\ outbox' = outbox + 1
  /\ approved' = approved \cup {current_step}
  /\ request' = [request EXCEPT ![r] = "none"]
  /\ UNCHANGED <<definition, lease, attempt_count, last_error_code, recorded, effects,
                 credential, handlerVars, lapsed, providerCalls>>

Cancel(r) ==
  /\ request[r] = "cancel"
  /\ Allowed(state, "cancelled")
  /\ state' = "cancelled"
  /\ events' = events \cup {"cancelled"}
  /\ request' = [request EXCEPT ![r] = "none"]
  /\ UNCHANGED <<definition, current_step, lease, attempt_count, last_error_code, recorded,
                 effects, outbox, credential, handlerVars, historyVars>>

\* assertTransition throws.
RequestRefused(r) ==
  /\ \/ request[r] = "approve" /\ ~Allowed(state, "queued")
     \/ request[r] = "cancel" /\ ~Allowed(state, "cancelled")
  /\ request' = [request EXCEPT ![r] = "none"]
  /\ UNCHANGED <<definition, rowVars, evidenceVars, credential, handlerVars, historyVars>>

\* The second transaction rolls back because of an error of the database.
RequestRollsBack(r) ==
  /\ request[r] # "none"
  /\ request' = [request EXCEPT ![r] = "none"]
  /\ UNCHANGED <<definition, rowVars, evidenceVars, credential, handlerVars, historyVars>>

RequestStep(r) ==
  \/ CheckApprove(r) \/ CheckCancel(r)
  \/ Approve(r) \/ Cancel(r) \/ RequestRefused(r) \/ RequestRollsBack(r)

Next ==
  \/ \E h \in Handlers :
       Deliver(h) \/ HandlerStep(h) \/ DbError(h) \/ Settle(h) \/ Crash(h)
  \/ \E r \in Requests : RequestStep(r)
  \/ LeaseExpires
  \/ CredentialLost

Spec == Init /\ [][Next]_vars
-----------------------------------------------------------------------------
(* Correctness.                                                            *)

\* Every variable has its type; in particular no order of advances, parks and
\* approvals moves a run's current_step, or a handler's loop index, further
\* than one past the end of the definition.
TypeOK ==
  /\ definition \in Definitions
  /\ state \in RunStates
  /\ current_step \in 0..(StepCount + 1)
  /\ lease \in {"none", "live", "expired"}
  /\ attempt_count \in 0..MaxAttempts
  /\ last_error_code \in {"none", "failed", "uncertain"}
  /\ recorded \subseteq StepIndex
  /\ effects \in [StepIndex -> Nat]
  /\ events \subseteq {"created", "leased", "started", "approval_requested", "approved",
                       "failed", "uncertain", "succeeded", "cancelled"}
  /\ outbox \in Nat
  /\ credential \in {"none", "held", "gone"}
  /\ pc \in [Handlers -> Pcs]
  /\ index \in [Handlers -> 0..(StepCount + 1)]
  /\ request \in [Requests -> {"none", "approve", "cancel"}]
  /\ approved \subseteq 0..StepCount
  /\ lapsed \in BOOLEAN
  /\ providerCalls \in Nat

\* A declared side effect is in the ledger only if an operator approved the
\* run while it stood at the approval step right before it (executeTool behind
\* awaitApproval and approve), whatever leases lapse and handlers overlap.
ApprovalGate ==
  \A i \in StepIndex :
    effects[i] > 0 /\ StepAt(i).sideEffect => i - 1 \in approved

\* The steps a run can have, as keys of the ledger.
StepKeys == UNION {0..(Len(d.steps) - 1) : d \in Definitions}

\* The run's effects behave like the abstract ledger: one insert per key over
\* all deliveries, retries and overlapping handlers, and a gated key only
\* after its grant (the on-conflict clause of executeTool's insert).
Ledger ==
  INSTANCE EffectLedger WITH
    Keys     <- StepKeys,
    gated    <- {i \in StepIndex : StepAt(i).sideEffect},
    granted  <- {k \in StepKeys : k - 1 \in approved},
    inserted <- [k \in StepKeys |-> IF k \in StepIndex THEN effects[k] ELSE 0]

ImplementsLedger == Ledger!LedgerSpec

\* A ticket step with a row in run_step_results has its row in the ledger: no
\* crash, error or replay leaves evidence of an effect that did not happen.
LedgerBeforeEvidence ==
  \A i \in recorded : IsTicket(i) => effects[i] = 1

\* The where clause of claim: as long as no lease ran out, one handler at most
\* executes the run, however many deliveries, approvals and cancellations.
OneExecutorWhileLeased ==
  ~lapsed => Cardinality(Executors) <= 1

\* Without a lapse, evidence keeps up with the row.  If no step failed, every
\* step below current_step is recorded, also when two approvals race, and a
\* succeeded run has recorded all of its steps; and a run waits for an approval
\* only at an approval step whose request is on record.
RecordedPrefix ==
  ~lapsed =>
    /\ last_error_code = "none" =>
         /\ \A i \in StepIndex : i < current_step => i \in recorded
         /\ state = "succeeded" => recorded = StepIndex
    /\ state = "awaiting_approval" =>
         current_step \in recorded /\ IsApproval(current_step)

\* A running row always has a lease that can run out, so claim can take it
\* over, although every handler clears or renews the lease of any other.
RunningHasLease == state = "running" => lease # "none"

\* The broker hands the credential out once: the provider is called at most
\* once per run, by all attempts together (executeProviderModel).
ProviderCalledOnce == providerCalls <= 1

\* transition reads the state again under the row lock: an approval that was
\* checked before a cancellation never puts the cancelled run back to work.
CancelBeatsApprove == [][state = "cancelled" => state' # "queued"]_vars

\* Without a lapse, a run whose success is on record stays succeeded: a cancel
\* that was checked while the run was still active is refused.
SuccessIsFinal == ~lapsed /\ "succeeded" \in events => state = "succeeded"

-----------------------------------------------------------------------------
(* What the documentation says and the code does not do.                   *)

\* docs/architecture.md draws succeeded, failed, cancelled and uncertain as
\* final, and the contract's table allows no transition out of them.
TerminalIsFinal == [][(state \in TerminalStates) => state' = state]_vars

\* The console's notice after a cancellation: "No new work will be leased."
NoLeaseAfterCancel ==
  [][attempt_count' > attempt_count => "cancelled" \notin events]_vars
=============================================================================
