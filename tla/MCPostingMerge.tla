--------------------------- MODULE MCPostingMerge ---------------------------
(***************************************************************************)
(* Every sorted list over three pages and two offsets, merged with every   *)
(* sorted list of one of the pages.                                        *)
(***************************************************************************)
EXTENDS PostingMerge
=============================================================================
