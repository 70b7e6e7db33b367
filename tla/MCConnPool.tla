----------------------------- MODULE MCConnPool -----------------------------
(***************************************************************************)
(* Instances of ConnPool for TLC: the clients are model values, which the  *)
(* liveness properties do not allow to permute.                            *)
(***************************************************************************)
EXTENDS ConnPool
=============================================================================
