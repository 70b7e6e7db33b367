----------------------------- MODULE MCProducer -----------------------------
(***************************************************************************)
(* An instance of Producer for TLC.                                        *)
(***************************************************************************)
EXTENDS Producer
=============================================================================
