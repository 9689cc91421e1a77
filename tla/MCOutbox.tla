------------------------------- MODULE MCOutbox -------------------------------
(***************************************************************************)
(* A small outbox: more rows than fit in a batch.                          *)
(***************************************************************************)
EXTENDS Outbox

ASSUME BatchIsSmaller == limit < Cardinality(Rows)
=============================================================================
