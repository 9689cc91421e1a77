---------------------------- MODULE MCRunCreation ----------------------------
(***************************************************************************)
(* Small instances of RunCreation; clients, keys and handles are           *)
(* interchangeable.                                                        *)
(***************************************************************************)
EXTENDS RunCreation, TLC

Symmetry ==
  Permutations(Clients) \cup Permutations(Keys) \cup Permutations(Handles)
=============================================================================
