--------------------------- MODULE MCControlPlane ---------------------------
(***************************************************************************)
(* Small instances of ControlPlane; tenants, API keys and requests are     *)
(* interchangeable.                                                        *)
(***************************************************************************)
EXTENDS ControlPlane, TLC

Symmetry ==
  Permutations(Tenants) \cup Permutations(ApiKeys) \cup Permutations(Requests)
=============================================================================
