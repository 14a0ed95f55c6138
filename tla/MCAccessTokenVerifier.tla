------------------------ MODULE MCAccessTokenVerifier ------------------------
(***************************************************************************)
(* AccessTokenVerifier for TLC: one token that passes every check of its   *)
(* own, whose key the AS may withdraw and whose jti it may revoke.         *)
(***************************************************************************)
EXTENDS AccessTokenVerifier

CONSTANTS k1, a

OneGoodToken == {[jti |-> a, key |-> k1, shape |-> "ok"]}
=============================================================================
