------------------------------ MODULE MCCrawl -------------------------------
(***************************************************************************)
(* An instance of Crawl for TLC.                                           *)
(***************************************************************************)
EXTENDS Crawl

CONSTANTS a, b, c, d, other, relative, nocolon

MCTopics == {"Crawler2WordSplit", "Crawler2Evaluator"}

MCKind ==
    [u \in Urls |-> CASE u \in {a, b, c, d} -> "csdn"
                      [] u = other -> "other"
                      [] u = relative -> "relative"
                      [] u = nocolon -> "nocolon"]

\* More links than the spider's queue has room for, some twice, to the page
\* itself and back to the first.
MCLinks ==
    [u \in Urls |-> CASE u = a -> <<b, c, a, b, other>>
                      [] u = b -> <<relative, a, c>>
                      [] u = c -> <<d, b>>
                      [] u = d -> <<nocolon, b>>
                      [] OTHER -> <<>>]

MCSeeds == <<a>>
=============================================================================
