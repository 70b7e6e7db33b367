------------------------------ MODULE MCIngest ------------------------------
(***************************************************************************)
(* Instances of Ingest for TLC.  The record at offset 1 is blank.          *)
(***************************************************************************)
EXTENDS Ingest

MCBlank == {1}
=============================================================================
