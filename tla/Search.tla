------------------------------- MODULE Search -------------------------------
(***************************************************************************)
(* One query in searcher.cpp: searcher::run reads the keywords' inverted   *)
(* lists, keeps the pages they share (and, at random, a few others), and   *)
(* dfs_check_relationship looks in each page for the keywords in their     *)
(* order.  A keyword is read in one step: what reading and answering do    *)
(* to the connection pools is not part of this module.                     *)
(***************************************************************************)
EXTENDS PostingLists, Sequences, SequencesExt, FiniteSetsExt

CONSTANTS
    Keys,
    MaxList,      \* bound on the length of a list
    Queries,      \* sequences of keys, as the word splitter sends them
    MatchDelta,   \* match_delta, 33
    Wrap          \* 2^32 in the code: offsets are unsigned int

ASSUME SearchAssumption ==
    /\ Wrap \in Nat \ {0} /\ Offsets \subseteq 0 .. Wrap - 1
    /\ MatchDelta \in 0 .. Wrap - 1 /\ MaxList \in Nat
    /\ Queries \subseteq Seq(Keys) \ {<<>>}

VARIABLES
    index,        \* index[k]: the nodes of k's list on disk; its pages are page_set
    query,        \* key_arr
    i,            \* the keyword the first loop is at
    inv_map,      \* the keywords whose list was read and is not empty
    key_arr_size,
    working_set,  \* working_set[0], working_set[1]
    set_flag,
    flag_init,
    nodes,        \* inv_node_map
    its,          \* its[j]: where the list of the j-th keyword is
    todo,         \* the pages the last loop has not reached
    pid,          \* the page it is at
    key_num,      \* dfs: the keyword it looks for, from 1
    base_offset,  \* dfs: where the one before was found
    result,       \* result_page_id_set
    pc

input == <<index, query>>
merging == <<i, inv_map, key_arr_size, working_set, set_flag, flag_init>>
dfs == <<key_num, base_offset>>
vars == <<input, merging, nodes, its, todo, pid, dfs, result, pc>>

Init ==
    /\ index \in [Keys -> {S \in SUBSET Nodes : Cardinality(S) <= MaxList}]
    /\ query \in Queries
    /\ i = 1 /\ inv_map = {} /\ key_arr_size = 0
    /\ working_set = [s \in {0, 1} |-> {}]
    /\ set_flag = 1 /\ flag_init = TRUE
    /\ nodes = [k \in Keys |-> <<>>]
    /\ its = <<>>
    /\ todo = {} /\ pid = 0
    /\ key_num = 1 /\ base_offset = 0
    /\ result = {}
    /\ pc = "read"

(***************************************************************************)
(* The lists are read and their pages intersected.                         *)
(***************************************************************************)
AlreadyRead ==
    /\ pc = "read"
    /\ i <= Len(query)
    /\ query[i] \in inv_map
    /\ i' = i + 1
    /\ UNCHANGED <<input, inv_map, key_arr_size, working_set, set_flag, flag_init,
                   nodes, its, todo, pid, dfs, result, pc>>

\* A keyword without a list is counted and otherwise passed over.
ReadEmpty ==
    /\ pc = "read"
    /\ i <= Len(query)
    /\ query[i] \notin inv_map
    /\ index[query[i]] = {}
    /\ i' = i + 1
    /\ key_arr_size' = key_arr_size + 1
    /\ UNCHANGED <<input, inv_map, working_set, set_flag, flag_init,
                   nodes, its, todo, pid, dfs, result, pc>>

\* Not in the code: the set just filled is the one that is cleared.
BugIntersect(pages) ==
    working_set' = [working_set EXCEPT ![set_flag] = {}]

\* Whom randInt, which is not asked about the others, lets in: each of them or not.
Lucky(pages) == SUBSET pages

\* The pages of the list that are in the other set, and the lucky ones.
Intersect(pages) ==
    \E lucky \in Lucky(pages \ working_set[1 - set_flag]) :
        working_set' = [working_set EXCEPT
            ![set_flag] = @ \cup (pages \cap working_set[1 - set_flag]) \cup lucky,
            ![1 - set_flag] = {}]

ReadList ==
    /\ pc = "read"
    /\ i <= Len(query)
    /\ query[i] \notin inv_map
    /\ index[query[i]] # {}
    /\ i' = i + 1
    /\ key_arr_size' = key_arr_size + 1
    /\ inv_map' = inv_map \cup {query[i]}
    /\ IF flag_init
       THEN /\ flag_init' = FALSE
            /\ working_set' = [working_set EXCEPT ![0] = PagesOf(index[query[i]])]
            /\ UNCHANGED set_flag
       ELSE /\ Intersect(PagesOf(index[query[i]]))
            /\ set_flag' = 1 - set_flag
            /\ UNCHANGED flag_init
    /\ UNCHANGED <<input, nodes, its, todo, pid, dfs, result, pc>>

\* The nodes of the candidates, list by list.  How often a page has the
\* keywords is counted for the order of the output and left out.
Candidates == working_set[1 - set_flag]

NodesOf(k) == SortedSeq({n \in index[k] : n.idWebPage \in Candidates})

Extract ==
    /\ pc = "read"
    /\ i > Len(query)
    /\ nodes' = [k \in Keys |-> IF k \in ToSet(query) THEN NodesOf(k) ELSE <<>>]
    /\ its' = [j \in 1 .. key_arr_size |-> 1]
    /\ todo' = Candidates
    /\ pc' = "page"
    /\ UNCHANGED <<input, merging, pid, dfs, result>>

(***************************************************************************)
(* The candidates, in ascending order, go through dfs_check_relationship.  *)
(* What it returns is TRUE from Succeed and FALSE from Fail: a level that  *)
(* got FALSE from the next one returns FALSE itself.                       *)
(***************************************************************************)
CheckPage ==
    /\ pc = "page"
    /\ todo # {}
    /\ pid' = Min(todo)
    /\ todo' = todo \ {Min(todo)}
    /\ key_num' = 1
    /\ base_offset' = 0
    /\ pc' = "dfs"
    /\ UNCHANGED <<input, merging, nodes, its, result>>

List(j) == nodes[query[j]]
AtPage(j) == its[j] <= Len(List(j)) /\ List(j)[its[j]].idWebPage = pid
Offset(j) == List(j)[its[j]].offset

\* Not in the code: the difference is taken as signed.
BugNear(j) == j = 1 \/ Offset(j) <= base_offset + MatchDelta

\* The difference of two unsigned ints is one: an offset before base_offset is
\* far away.
Near(j) == j = 1 \/ (Offset(j) + Wrap - base_offset) % Wrap <= MatchDelta

Match ==
    /\ pc = "dfs" /\ key_num <= key_arr_size
    /\ AtPage(key_num)
    /\ Near(key_num)
    /\ base_offset' = Offset(key_num)
    /\ key_num' = key_num + 1
    /\ UNCHANGED <<input, merging, nodes, its, todo, pid, result, pc>>

\* The code moves a copy of its[key_num]; all of them are moved on by LeavePage
\* before they are used again.
Skip ==
    /\ pc = "dfs" /\ key_num <= key_arr_size
    /\ AtPage(key_num)
    /\ ~ Near(key_num)
    /\ Offset(key_num) < base_offset
    /\ its' = [its EXCEPT ![key_num] = @ + 1]
    /\ UNCHANGED <<input, merging, nodes, todo, pid, dfs, result, pc>>

Fail ==
    /\ pc = "dfs" /\ key_num <= key_arr_size
    /\ AtPage(key_num) => ~ Near(key_num) /\ Offset(key_num) > base_offset
    /\ pc' = "leave"
    /\ UNCHANGED <<input, merging, nodes, its, todo, pid, dfs, result>>

Succeed ==
    /\ pc = "dfs" /\ key_num > key_arr_size
    /\ result' = result \cup {pid}
    /\ pc' = "leave"
    /\ UNCHANGED <<input, merging, nodes, its, todo, pid, dfs>>

\* Not in the code: only the first keyword's iterator is moved on.
BugLeavePage ==
    /\ pc = "leave"
    /\ its' = [its EXCEPT ![1] =
           Min({m \in its[1] .. Len(List(1)) + 1 :
                   m > Len(List(1)) \/ List(1)[m].idWebPage # pid})]
    /\ pc' = "page"
    /\ UNCHANGED <<input, merging, nodes, todo, pid, dfs, result>>

\* All iterators are moved to the next page.
LeavePage ==
    /\ pc = "leave"
    /\ its' = [j \in DOMAIN its |->
           Min({m \in its[j] .. Len(List(j)) + 1 :
                   m > Len(List(j)) \/ List(j)[m].idWebPage # pid})]
    /\ pc' = "page"
    /\ UNCHANGED <<input, merging, nodes, todo, pid, dfs, result>>

Finish ==
    /\ pc = "page"
    /\ todo = {}
    /\ pc' = "done"
    /\ UNCHANGED <<input, merging, nodes, its, todo, pid, dfs, result>>

Next ==
    \/ AlreadyRead \/ ReadEmpty \/ ReadList \/ Extract
    \/ CheckPage \/ Match \/ Skip \/ Fail \/ Succeed \/ LeavePage \/ Finish

Spec == Init /\ [][Next]_vars
\* One thread, which nothing here blocks.
FairSpec == Spec /\ WF_vars(Next)

-----------------------------------------------------------------------------
TypeOK ==
    /\ i \in 1 .. Len(query) + 1
    /\ inv_map \subseteq ToSet(query)
    /\ key_arr_size \in 0 .. Len(query)
    /\ working_set \in [{0, 1} -> SUBSET Pages]
    /\ set_flag \in {0, 1} /\ flag_init \in BOOLEAN
    /\ \A k \in Keys : ToSet(nodes[k]) \subseteq index[k]
    /\ \A j \in DOMAIN its : its[j] \in 1 .. Len(List(j)) + 1
    /\ todo \subseteq Pages /\ result \subseteq Pages
    /\ pid \in Pages \cup {0}
    /\ key_num \in 1 .. key_arr_size + 1
    /\ base_offset \in Offsets \cup {0}
    /\ pc \in {"read", "page", "dfs", "leave", "done"}

\* The first n keywords follow one another in page p, each at most MatchDelta
\* after the one before.
Chain(p, n) ==
    \E f \in [1 .. n -> Offsets] :
        /\ \A j \in 1 .. n : [idWebPage |-> p, offset |-> f[j]] \in index[query[j]]
        /\ \A j \in 2 .. n : f[j - 1] <= f[j] /\ f[j] <= f[j - 1] + MatchDelta

\* A page in the result has the keywords near one another and in their order,
\* whatever pages randInt let into the working set.  key_arr_size, the number of
\* keywords looked for, is the length of a query that repeats no keyword.
SearchSound ==
    \A p \in result :
        /\ Chain(p, key_arr_size)
        /\ IsInjective(query) => Chain(p, Len(query))

\* When dfs starts on a page every iterator is at the page's first node, or
\* past where it would be: no page is judged by nodes of another.
PageAligned ==
    pc = "dfs" /\ key_num = 1 =>
        \A j \in DOMAIN its : \A m \in DOMAIN List(j) :
            m < its[j] <=> List(j)[m].idWebPage < pid

\* The search ends, and has found each page that has each keyword once, in order.
OnceFound ==
    <>[](pc = "done" /\ \A p \in Pages :
        /\ \A k \in ToSet(query) : Cardinality({n \in index[k] : n.idWebPage = p}) = 1
        /\ Chain(p, Len(query))
        => p \in result)

-----------------------------------------------------------------------------
(***************************************************************************)
(* The inductive invariant behind SearchSound and PageAligned.             *)
(***************************************************************************)

\* The loop that reads: the keywords counted are among those it has passed, and
\* all of them if none is repeated.
ReadInv ==
    /\ index \in [Keys -> SUBSET Nodes] /\ query \in Queries
    /\ i \in 1 .. Len(query) + 1
    /\ key_arr_size \in 0 .. i - 1
    /\ inv_map \subseteq {query[j] : j \in 1 .. i - 1}
    /\ IsInjective(query) => key_arr_size = i - 1
    /\ working_set \in [{0, 1} -> SUBSET Pages] /\ set_flag \in {0, 1}
    /\ pc = "read" => result = {}
    /\ pc # "read" => i = Len(query) + 1

\* The lists are sorted, of the index, and of candidates only.
ListsInv ==
    pc # "read" =>
        /\ DOMAIN its = 1 .. key_arr_size
        /\ \A j \in 1 .. key_arr_size :
               /\ List(j) \in Seq({n \in index[query[j]] : n.idWebPage \in Candidates})
               /\ Sorted(List(j))
               /\ its[j] \in 1 .. Len(List(j)) + 1
        /\ todo \subseteq Candidates /\ result \subseteq Pages

PageAt(j, m) == List(j)[m].idWebPage

\* Between two pages the iterators are behind the pages that were looked at.
BetweenPages ==
    pc = "page" =>
        /\ \A p \in Candidates \ todo, t \in todo : p < t
        /\ \A j \in DOMAIN its : \A m \in DOMAIN List(j) :
               m < its[j] <=> PageAt(j, m) \notin todo

\* While a page is looked at they are behind those before it and not beyond it.
OnPage ==
    pc \in {"dfs", "leave"} =>
        /\ pid \in Candidates \ todo
        /\ \A t \in todo : pid < t
        /\ \A p \in Candidates \ todo : p <= pid
        /\ \A j \in DOMAIN its : \A m \in DOMAIN List(j) :
               /\ PageAt(j, m) < pid => m < its[j]
               /\ m < its[j] => PageAt(j, m) <= pid
        /\ pc = "dfs" => key_num \in 1 .. key_arr_size + 1

\* The keywords found so far follow one another up to base_offset.
ChainTo(p, n, last) ==
    \E f \in [1 .. n -> Offsets] :
        /\ \A j \in 1 .. n : [idWebPage |-> p, offset |-> f[j]] \in index[query[j]]
        /\ \A j \in 2 .. n : f[j - 1] <= f[j] /\ f[j] <= f[j - 1] + MatchDelta
        /\ n > 0 => f[n] = last

FoundInv ==
    /\ pc = "dfs" => ChainTo(pid, key_num - 1, base_offset)
    /\ \A p \in result : Chain(p, key_arr_size)

AlignInv ==
    /\ ReadInv
    /\ ListsInv
    /\ BetweenPages
    /\ OnPage
    /\ PageAligned

SearchInv == AlignInv /\ FoundInv
=============================================================================
