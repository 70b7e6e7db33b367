---------------------------- MODULE MCEvaluator -----------------------------
(***************************************************************************)
(* An instance of Evaluator for TLC.                                       *)
(***************************************************************************)
EXTENDS Evaluator, TLC

CONSTANTS a, b

MCUrls == {a, b}

\* A page is delivered twice, with two links to the same page and with one, and
\* this page once.  All but the first delivery have a title that is refused.
MCMessages ==
    {[url |-> a, links |-> <<b, b>>, short |-> FALSE],
     [url |-> a, links |-> <<b>>, short |-> TRUE],
     [url |-> b, links |-> <<>>, short |-> TRUE]}

EvaluatorSymmetry == Permutations(Evaluators)
=============================================================================
