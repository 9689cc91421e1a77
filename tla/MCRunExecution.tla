---------------------------- MODULE MCRunExecution ----------------------------
(***************************************************************************)
(* Small instances of RunExecution: the workflow definitions and the       *)
(* symmetry of handlers and requests.                                      *)
(***************************************************************************)
EXTENDS RunExecution, TLC

mock == [kind |-> "model", op |-> "mock", sideEffect |-> FALSE]
openai == [kind |-> "model", op |-> "openai_compatible", sideEffect |-> FALSE]
template == [kind |-> "transform", op |-> "template", sideEffect |-> FALSE]
read == [kind |-> "tool", op |-> "mock_data_read", sideEffect |-> FALSE]
get == [kind |-> "tool", op |-> "allowlisted_http_fetch", sideEffect |-> FALSE]
ticket == [kind |-> "tool", op |-> "mock_ticket_write", sideEffect |-> TRUE]
undeclaredTicket == [ticket EXCEPT !.sideEffect = FALSE]
approval == [kind |-> "approval", op |-> "none", sideEffect |-> FALSE]

Workflow(steps) == [schemaVersion |-> "1", steps |-> steps]

\* Two gated effects, the second one at the last step.
GatedTwice == {Workflow(<<approval, ticket, approval, ticket>>)}

\* A step that can fail or be left uncertain before a gated effect, a gated
\* effect followed by one that is not declared as a side effect, and workflows
\* of an older and of an unknown schema version.
Fallible ==
  {Workflow(<<get, approval, ticket>>),
   Workflow(<<approval, ticket, undeclaredTicket>>),
   Workflow(<<openai, openai>>),
   [schemaVersion |-> "2", steps |-> <<mock, undeclaredTicket>>],
   [schemaVersion |-> "", steps |-> <<template, undeclaredTicket>>]}

\* A step that can fail, and one after it.
FetchThenRead == {Workflow(<<get, read>>)}

SchemaAssumption ==
  \A d \in GatedTwice \cup FetchThenRead : workflowDefinitionSchema(d)

ASSUME SchemaAssumption

HandlerSymmetry == Permutations(Handlers)
Symmetry == HandlerSymmetry \cup Permutations(Requests)
=============================================================================
