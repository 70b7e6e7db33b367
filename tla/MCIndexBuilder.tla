--------------------------- MODULE MCIndexBuilder ---------------------------
(***************************************************************************)
(* An instance of IndexBuilder for TLC.  Page 1 comes in two versions that *)
(* share a key, page 2 shares a list with both: "foo" and "Foo" are one    *)
(* row under MySQL's default collation.                                    *)
(***************************************************************************)
EXTENDS IndexBuilder, TLC

MCKeys == {"foo", "Foo", "bar"}
MCRowOf == [k \in MCKeys |-> IF k = "bar" THEN "bar" ELSE "foo"]
MCMessages ==
    {[id |-> 1, version |-> 1, keys |-> {"foo", "bar"}],
     [id |-> 1, version |-> 2, keys |-> {"foo"}],
     [id |-> 2, version |-> 1, keys |-> {"Foo"}]}

\* The builders are the same program; no liveness is checked.
BuilderSymmetry == Permutations(Builders)
=============================================================================
