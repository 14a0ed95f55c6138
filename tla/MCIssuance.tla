------------------------------ MODULE MCIssuance ------------------------------
(***************************************************************************)
(* Issuance for TLC: triggers (all with data), tokens and requests are     *)
(* interchangeable.                                                        *)
(***************************************************************************)
EXTENDS Issuance, TLC

Symmetry == Permutations(Triggers) \cup Permutations(Tokens) \cup Permutations(Requests)
=============================================================================
