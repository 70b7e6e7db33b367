---------------------------- MODULE PostingMerge ----------------------------
(***************************************************************************)
(* The loops of the index builder's worker (indexBuilder.cpp:299-332) that *)
(* erase a page's postings from a list read from disk and merge its new    *)
(* ones into it, one iteration per step.  IndexBuilder takes the result of *)
(* all of them as one operator, Merge; here is why it may.                 *)
(***************************************************************************)
EXTENDS PostingLists, Sequences, SequencesExt

VARIABLES
    id,        \* the page that is being indexed
    pre,       \* pre_proc_list.list
    old,       \* existsed_list.list as it was read
    list,      \* existsed_list.list
    page_set,  \* existsed_list.page_set
    it, it_pre,  \* where it is in list and in pre, from 1
    loop       \* the loop it is in: "erase", "merge", "append", or "done"

mergeVars == <<id, pre, old, list, page_set, it, it_pre, loop>>
given == <<id, pre, old>>

MergeInit ==
    /\ id \in Pages
    /\ \E S \in SUBSET {n \in Nodes : n.idWebPage = id} : S # {} /\ pre = SortedSeq(S)
    /\ \E S \in SUBSET Nodes : old = SortedSeq(S) /\ page_set = PagesOf(S)
    /\ list = old
    /\ it = 1 /\ it_pre = 1
    /\ loop = "erase"

Erase ==
    /\ loop = "erase"
    /\ it <= Len(list)
    /\ IF list[it].idWebPage = id
       THEN list' = RemoveAt(list, it) /\ UNCHANGED it
       ELSE it' = it + 1 /\ UNCHANGED list
    /\ UNCHANGED <<given, page_set, it_pre, loop>>

Erased ==
    /\ loop = "erase"
    /\ it > Len(list)
    /\ page_set' = page_set \ {id}
    /\ it' = 1
    /\ loop' = "merge"
    /\ UNCHANGED <<given, list, it_pre>>

\* Not in the code: the comparison is the wrong way round.
BugMergeOrder ==
    /\ loop = "merge"
    /\ it_pre <= Len(pre) /\ it <= Len(list)
    /\ IF cmp_list_node(list[it], pre[it_pre])
       THEN /\ list' = InsertAt(list, it, pre[it_pre])
            /\ it_pre' = it_pre + 1
            /\ UNCHANGED it
       ELSE it' = it + 1 /\ UNCHANGED <<list, it_pre>>
    /\ UNCHANGED <<given, page_set, loop>>

\* vector::insert returns the inserted element: it stays where it is.
MergeStep ==
    /\ loop = "merge"
    /\ it_pre <= Len(pre) /\ it <= Len(list)
    /\ IF cmp_list_node(pre[it_pre], list[it])
       THEN /\ list' = InsertAt(list, it, pre[it_pre])
            /\ it_pre' = it_pre + 1
            /\ UNCHANGED it
       ELSE /\ it' = it + 1
            /\ UNCHANGED <<list, it_pre>>
    /\ UNCHANGED <<given, page_set, loop>>

Merged ==
    /\ loop = "merge"
    /\ it_pre > Len(pre) \/ it > Len(list)
    /\ loop' = "append"
    /\ UNCHANGED <<given, list, page_set, it, it_pre>>

AppendRest ==
    /\ loop = "append"
    /\ it_pre <= Len(pre)
    /\ list' = Append(list, pre[it_pre])
    /\ it_pre' = it_pre + 1
    /\ UNCHANGED <<given, page_set, it, loop>>

\* Not in the code: the page is not put into page_set.
BugAppended ==
    /\ loop = "append"
    /\ it_pre > Len(pre)
    /\ loop' = "done"
    /\ UNCHANGED <<given, list, page_set, it, it_pre>>

Appended ==
    /\ loop = "append"
    /\ it_pre > Len(pre)
    /\ page_set' = page_set \cup {id}
    /\ loop' = "done"
    /\ UNCHANGED <<given, list, it, it_pre>>

MergeNext == Erase \/ Erased \/ MergeStep \/ Merged \/ AppendRest \/ Appended

MergeSpec == MergeInit /\ [][MergeNext]_mergeVars
\* The loops run in one thread that nothing blocks.
FairMergeSpec == MergeSpec /\ WF_mergeVars(MergeNext)

-----------------------------------------------------------------------------
MergeTypeOK ==
    /\ id \in Pages
    /\ pre \in Seq(Nodes) /\ old \in Seq(Nodes) /\ list \in Seq(Nodes)
    /\ page_set \subseteq Pages
    /\ it \in 1 .. Len(list) + 1
    /\ it_pre \in 1 .. Len(pre) + 1
    /\ loop \in {"erase", "merge", "append", "done"}

\* The outcome, without the loops: what other pages had, and the page's new
\* postings, in the order of cmp_list_node and each of them once.
MergeIsSortedUnion ==
    loop = "done" =>
        /\ Sorted(list)
        /\ ToSet(list) = {n \in ToSet(old) : n.idWebPage # id} \cup ToSet(pre)

PageSetIsTrue == loop = "done" => page_set = PagesOf(ToSet(list))

\* The searcher intersects page_sets and then looks the pages up in the lists: the
\* loops end, although the merge inserts into the list it walks, and page_set is
\* exactly the pages of the list then.
PageSetMatches == <>[](loop = "done" /\ PageSetIsTrue)

-----------------------------------------------------------------------------
(***************************************************************************)
(* The inductive invariant behind MergeIsSortedUnion.                      *)
(***************************************************************************)
Others == {n \in ToSet(old) : n.idWebPage # id}

InputsInv ==
    /\ id \in Pages
    /\ pre \in Seq({n \in Nodes : n.idWebPage = id}) /\ Sorted(pre) /\ pre # <<>>
    /\ old \in Seq(Nodes) /\ Sorted(old)

\* What the list lacks of old is the page's; what was looked at is not the page's.
EraseInv ==
    loop = "erase" =>
        /\ Others \subseteq ToSet(list) /\ ToSet(list) \subseteq ToSet(old)
        /\ \A m \in 1 .. it - 1 : list[m].idWebPage # id
        /\ it_pre = 1

\* Before position n of the list, everything comes before the postings not merged yet.
Behind(n) == \A l \in 1 .. n, m \in it_pre .. Len(pre) : cmp_list_node(list[l], pre[m])

MergedInv ==
    loop # "erase" =>
        ToSet(list) = Others \cup {pre[m] : m \in 1 .. it_pre - 1}

\* page_set goes through the same changes as the pages of the list.
PageSetInv ==
    /\ loop = "erase" => page_set = PagesOf(ToSet(old))
    /\ loop \in {"merge", "append"} => page_set = PagesOf(Others)
    /\ loop = "done" => page_set = PagesOf(Others) \cup {id}

MergeInv ==
    /\ InputsInv
    /\ list \in Seq(Nodes) /\ Sorted(list)
    /\ it \in 1 .. Len(list) + 1 /\ it_pre \in 1 .. Len(pre) + 1
    /\ EraseInv /\ MergedInv
    /\ loop = "merge" => Behind(it - 1)
    /\ loop = "append" => Behind(Len(list))
    /\ loop = "done" => it_pre = Len(pre) + 1
=============================================================================
