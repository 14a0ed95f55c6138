--------------------------- MODULE MCRegistryCache ---------------------------
(***************************************************************************)
(* RegistryCache for TLC: two configured schemes, looked up in order.      *)
(***************************************************************************)
EXTENDS RegistryCache

CONSTANTS s1, s2

TwoSchemes == <<s1, s2>>
=============================================================================
