------------------------------ MODULE Contracts ------------------------------
(***************************************************************************)
(* The shared contract package (packages/contracts/src/index.ts): the run  *)
(* states, the transition table that assertTransition consults, and the    *)
(* schema every workflow definition must satisfy before the control plane  *)
(* stores it.                                                              *)
(***************************************************************************)
EXTENDS Integers, Sequences

RunStates ==
  {"queued", "leased", "running", "awaiting_approval",
   "succeeded", "failed", "cancelled", "uncertain"}

TerminalStates == {"succeeded", "failed", "cancelled", "uncertain"}

\* allowedTransitions[s] is the set of states a run in s may be moved to.
allowedTransitions ==
  [s \in RunStates |->
     CASE s = "queued"            -> {"leased", "cancelled"}
       [] s = "leased"            -> {"running", "queued", "failed", "uncertain", "cancelled"}
       [] s = "running"           -> {"awaiting_approval", "succeeded", "failed",
                                      "uncertain", "cancelled"}
       [] s = "awaiting_approval" -> {"queued", "cancelled"}
       [] OTHER                   -> {}]

\* assertTransition does not throw.
Allowed(from, to) == to \in allowedTransitions[from]

(***************************************************************************)
(* A step is a record [kind, op, sideEffect]: op stands for the provider   *)
(* of a model step, the operation of a transform and the tool of a tool    *)
(* step.  Prompts, transform inputs and approval reasons are abstracted.   *)
(***************************************************************************)
Step == [kind : STRING, op : STRING, sideEffect : BOOLEAN]

workflowStepSchema ==
  [kind : {"model"}, op : {"mock", "openai_compatible"}, sideEffect : {FALSE}]
    \cup [kind : {"transform"}, op : {"extract_json", "template"}, sideEffect : {FALSE}]
    \cup [kind : {"tool"}, sideEffect : BOOLEAN,
          op : {"allowlisted_http_fetch", "mock_ticket_write", "mock_data_read"}]
    \cup [kind : {"approval"}, op : {"none"}, sideEffect : {FALSE}]

\* The superRefine clause: a step declared to have a side effect comes
\* immediately after an approval step.
ApprovalPrecedes(steps) ==
  \A i \in 1..Len(steps) :
    steps[i].sideEffect => i > 1 /\ steps[i - 1].kind = "approval"

\* A definition has between 1 and MaxSteps steps.
MaxSteps == 20

workflowDefinitionSchema(d) ==
  /\ d.schemaVersion = "1"
  /\ Len(d.steps) \in 1..MaxSteps
  /\ \A i \in 1..Len(d.steps) : d.steps[i] \in workflowStepSchema
  /\ ApprovalPrecedes(d.steps)
=============================================================================
