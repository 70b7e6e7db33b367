------------------------------ MODULE MCSearch ------------------------------
(***************************************************************************)
(* Instances of Search for TLC.  Offsets 0 and 20, and 20 and 50, are less *)
(* than match_delta apart, 0 and 50 are not.  Wrap is far above the sum of *)
(* the largest offset and match_delta, which is all that 2^32 is here.     *)
(***************************************************************************)
EXTENDS Search

AllQueries ==
    {<<"a">>, <<"a", "b">>, <<"a", "b", "c">>, <<"a", "a", "b">>, <<"a", "b", "a">>}
=============================================================================
