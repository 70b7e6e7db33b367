------------------------------ MODULE MCQuery -------------------------------
(***************************************************************************)
(* An instance of Query for TLC.                                           *)
(***************************************************************************)
EXTENDS Query, TLC

CONSTANTS q1, q2, x, y

MCTopics == {"API2WordSplit", "WordSplit2Searcher"}

\* A query of one word, and one of two.
MCKeysOf == (q1 :> <<x>>) @@ (q2 :> <<x, y>>)

\* One word may be indexed, and again; the other has no list.
MCMaxVersion == (x :> 2) @@ (y :> 0)
=============================================================================
