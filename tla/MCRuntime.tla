------------------------------- MODULE MCRuntime -------------------------------
(***************************************************************************)
(* Small instances of Runtime.                                             *)
(***************************************************************************)
EXTENDS Runtime, TLC

fetchStep == [kind |-> "tool", op |-> "allowlisted_http_fetch", sideEffect |-> FALSE]
ticketStep == [kind |-> "tool", op |-> "mock_ticket_write", sideEffect |-> FALSE]
approvalStep == [kind |-> "approval", op |-> "none", sideEffect |-> FALSE]
openaiStep == [kind |-> "model", op |-> "openai_compatible", sideEffect |-> FALSE]

Ungated == {[schemaVersion |-> "1", steps |-> <<openaiStep, ticketStep>>],
            [schemaVersion |-> "1", steps |-> <<fetchStep>>]}
Gated == {[schemaVersion |-> "1", steps |-> <<approvalStep>>]}

HandlerSymmetry == Permutations(Handlers)

ASSUME SchemaAssumption ==
  \A d \in Ungated \cup Gated : workflowDefinitionSchema(d)
=============================================================================
