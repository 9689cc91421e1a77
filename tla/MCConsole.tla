------------------------------ MODULE MCConsole ------------------------------
(***************************************************************************)
(* A small console.  Slots are interchangeable, but the liveness property  *)
(* is checked without symmetry.                                            *)
(***************************************************************************)
EXTENDS Console, FiniteSets

ASSUME RequestsOverlap == Cardinality(Slots) > 1
=============================================================================
