---------------------------- MODULE PostingLists ----------------------------
(***************************************************************************)
(* The inverted lists (InvertedIndex.h) that the index builder merges      *)
(* (PostingMerge) and the searcher intersects (Search).                    *)
(***************************************************************************)
EXTENDS Naturals, FiniteSets

CONSTANTS Pages, Offsets

\* Both are unsigned int.
ASSUME PostingListsAssumption ==
    /\ Pages \subseteq Nat /\ IsFiniteSet(Pages)
    /\ Offsets \subseteq Nat /\ IsFiniteSet(Offsets)

Nodes == [idWebPage : Pages, offset : Offsets]

PagesOf(S) == {n.idWebPage : n \in S}

cmp_list_node(a, b) ==
    \/ a.idWebPage < b.idWebPage
    \/ a.idWebPage = b.idWebPage /\ a.offset < b.offset

\* The lists the program can hold: preprocess sorts what it builds, and two
\* occurrences of a key never start at one offset.
Sorted(s) == \A m, n \in DOMAIN s : m < n => cmp_list_node(s[m], s[n])
SortedSeq(S) == CHOOSE s \in [1 .. Cardinality(S) -> S] : Sorted(s)
=============================================================================
