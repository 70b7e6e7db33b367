---------------------------- MODULE MCRedisPool -----------------------------
(***************************************************************************)
(* Instances of RedisPool for TLC.                                         *)
(***************************************************************************)
EXTENDS RedisPool, TLC

ClientSymmetry == Permutations(Clients \ Keepers)
=============================================================================
