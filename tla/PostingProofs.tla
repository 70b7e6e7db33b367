---------------------------- MODULE PostingProofs ---------------------------
(***************************************************************************)
(* Proofs about the inverted lists, for every number of pages and offsets. *)
(* PostingMerge: the worker's loops leave a sorted list of what it should  *)
(* have.  Search, for every index, query and match distance: no page is    *)
(* judged by the nodes of another, and what a search returns has the       *)
(* keywords near one another and in their order.                           *)
(***************************************************************************)
EXTENDS Search, PostingMerge, FiniteSetTheorems, SequenceTheorems,
        WellFoundedInduction, TLAPS

\* Every set of naturals has a least element: induction over the naturals, in a
\* form without an operator parameter.
LEMMA Least ==
  ASSUME NEW T \in SUBSET Nat, T # {}
  PROVE  \E n \in T : \A m \in T : n <= m
<1> DEFINE R == OpToRel(<, Nat)
<1>1. IsWellFoundedOn(R, Nat)
  BY NatLessThanWellFounded
<1>2. \A x, y \in Nat : x < y => <<x, y>> \in R
  BY DEF OpToRel
<1> HIDE DEF R
<1>3. PICK n \in T : \A m \in T : ~ (<<m, n>> \in R)
  BY <1>1, WFMin
<1>4. ASSUME NEW m \in T  PROVE n <= m
  <2>1. m \in Nat /\ n \in Nat
    OBVIOUS
  <2>2. ~ (m < n)
    BY <1>2, <1>3, <2>1
  <2>3. QED
    BY <2>1, <2>2
<1>5. QED
  BY <1>4

LEMMA MinIsLeast ==
  ASSUME NEW T \in SUBSET Nat, T # {}
  PROVE  Min(T) \in T /\ \A t \in T : Min(T) <= t
BY Least DEF Min

\* A remainder modulo w, of a number below twice w.
LEMMA Remainder ==
  ASSUME NEW w \in Nat \ {0}, NEW x \in Nat, x < w
  PROVE  x % w = x /\ (x + w) % w = x
OBVIOUS

LEMMA NodesFinite == IsFiniteSet(Nodes)
<1> DEFINE f == [x \in Pages \X Offsets |-> [idWebPage |-> x[1], offset |-> x[2]]]
<1>1. IsFiniteSet(Pages) /\ IsFiniteSet(Offsets)
  BY PostingListsAssumption
<1>2. IsFiniteSet(Pages \X Offsets)
  BY <1>1, FS_Product
<1>3. f \in [Pages \X Offsets -> Nodes]
  BY DEF Nodes
<1>4. \A n \in Nodes : \E x \in Pages \X Offsets : f[x] = n
  <2>1. SUFFICES ASSUME NEW n \in Nodes  PROVE \E x \in Pages \X Offsets : f[x] = n
    OBVIOUS
  <2>2. <<n.idWebPage, n.offset>> \in Pages \X Offsets
    BY DEF Nodes
  <2>3. f[<<n.idWebPage, n.offset>>] = n
    BY <2>2 DEF Nodes
  <2>4. QED
    BY <2>2, <2>3
<1> HIDE DEF f
<1>5. f \in Surjection(Pages \X Offsets, Nodes)
  BY <1>3, <1>4 DEF Surjection
<1>6. QED
  BY <1>2, <1>5, FS_Surjection

\* Pages and offsets are naturals, and make up a node.
LEMMA NodeTypes ==
  /\ \A n \in Nodes : n.idWebPage \in Pages /\ n.offset \in Offsets
                      /\ n.idWebPage \in Nat /\ n.offset \in Nat
  /\ \A n, g \in Nodes : n.idWebPage = g.idWebPage /\ n.offset = g.offset => n = g
<1>1. \A p \in Pages : p \in Nat
  BY PostingListsAssumption
<1>2. \A o \in Offsets : o \in Nat
  BY PostingListsAssumption
<1>3. \A n \in Nodes : n.idWebPage \in Pages /\ n.offset \in Offsets
                      /\ n = [idWebPage |-> n.idWebPage, offset |-> n.offset]
  BY DEF Nodes
<1>4. QED
  BY <1>1, <1>2, <1>3

\* The first node of a set of nodes.
LEMMA FirstNode ==
  ASSUME NEW S \in SUBSET Nodes, S # {}
  PROVE  \E g \in S : \A n \in S \ {g} : cmp_list_node(g, n)
<1>1. PICK p \in PagesOf(S) : \A q \in PagesOf(S) : p <= q
  <2>1. PagesOf(S) \subseteq Nat /\ PagesOf(S) # {}
    BY PostingListsAssumption DEF PagesOf, Nodes
  <2>2. QED
    BY <2>1, Least
<1> DEFINE there == {n.offset : n \in {x \in S : x.idWebPage = p}}
<1>2. PICK o \in there : \A q \in there : o <= q
  <2>1. there \subseteq Nat /\ there # {}
    <3>1. PICK n \in S : n.idWebPage = p
      BY DEF PagesOf
    <3>2. n.offset \in there
      BY <3>1
    <3>3. QED
      BY <3>2, NodeTypes
  <2> HIDE DEF there
  <2>2. QED
    BY <2>1, Least
<1>3. PICK g \in S : g.idWebPage = p /\ g.offset = o
  BY <1>2
<1>4. ASSUME NEW n \in S \ {g}  PROVE cmp_list_node(g, n)
  <2>1. /\ n.idWebPage \in Nat /\ n.offset \in Nat /\ g.idWebPage \in Nat /\ g.offset \in Nat
        /\ n.idWebPage # g.idWebPage \/ n.offset # g.offset
    BY NodeTypes
  <2>2. g.idWebPage <= n.idWebPage
    BY <1>1, <1>3 DEF PagesOf
  <2>3. n.idWebPage = g.idWebPage => g.offset <= n.offset
    BY <1>2, <1>3
  <2>4. QED
    BY <2>1, <2>2, <2>3 DEF cmp_list_node
<1>5. QED
  BY <1>4

\* Each finite set of nodes can be written as a sorted list: the first node, and
\* the list of the others.
LEMMA SortedExists ==
  ASSUME NEW S0 \in SUBSET Nodes, IsFiniteSet(S0)
  PROVE  \E s \in [1 .. Cardinality(S0) -> S0] : Sorted(s)
<1> DEFINE Can(S) == \E s \in [1 .. Cardinality(S) -> S] : Sorted(s)
           bad == {n \in Nat : \E S \in SUBSET Nodes :
                                   IsFiniteSet(S) /\ Cardinality(S) = n /\ ~ Can(S)}
<1>1. SUFFICES bad = {}
  <2>1. Cardinality(S0) \in Nat
    BY FS_CardinalityType
  <2>2. QED
    BY <2>1
<1>2. SUFFICES ASSUME bad # {}  PROVE FALSE
  OBVIOUS
<1>3. PICK n \in bad : \A m \in bad : n <= m
  <2>1. bad \subseteq Nat
    OBVIOUS
  <2> HIDE DEF bad
  <2>2. QED
    BY <1>2, <2>1, Least
<1>4. PICK S \in SUBSET Nodes : IsFiniteSet(S) /\ Cardinality(S) = n /\ ~ Can(S)
  OBVIOUS
<1>5. n \in Nat
  OBVIOUS
<1>6. CASE S = {}
  <2>1. Cardinality(S) = 0
    BY <1>6, FS_EmptySet, Zenon
  <2>2. [x \in 1 .. 0 |-> x] \in [1 .. 0 -> {}] /\ Sorted([x \in 1 .. 0 |-> x])
    BY DEF Sorted
  <2>3. Can(S)
    BY <1>6, <2>1, <2>2
  <2>4. QED
    BY <1>4, <2>3
<1>7. CASE S # {}
  <2>1. PICK g \in S : \A x \in S \ {g} : cmp_list_node(g, x)
    BY <1>7, FirstNode
  <2> DEFINE S1 == S \ {g}
  <2>2. IsFiniteSet(S1) /\ Cardinality(S1) = n - 1
    BY <1>4, FS_RemoveElement, Zenon
  <2>3. Cardinality(S1) \in Nat
    BY <2>2, FS_CardinalityType
  <2>4. n - 1 \in Nat /\ n - 1 \notin bad
    <3>1. n - 1 \in Nat
      BY <2>2, <2>3
    <3> HIDE DEF bad
    <3>2. QED
      BY <1>3, <1>5, <3>1
  <2>5. S1 \in SUBSET Nodes
    OBVIOUS
  <2>6. Can(S1)
    BY <2>2, <2>4, <2>5
  <2>7. PICK s1 \in [1 .. n - 1 -> S1] : Sorted(s1)
    BY <2>2, <2>6
  <2> DEFINE s == [m \in 1 .. n |-> IF m = 1 THEN g ELSE s1[m - 1]]
  <2>8. /\ s[1] = g
        /\ \A m \in 1 .. n : m # 1 => m - 1 \in 1 .. n - 1 /\ s[m] = s1[m - 1]
    BY <1>5, <2>4
  <2>9. s \in [1 .. n -> S] /\ DOMAIN s = 1 .. n
    BY <2>8
  <2> HIDE DEF s
  <2>10. ASSUME NEW a \in 1 .. n, NEW b \in 1 .. n, a < b  PROVE cmp_list_node(s[a], s[b])
    <3>1. b # 1 /\ s[b] = s1[b - 1] /\ b - 1 \in 1 .. n - 1
      BY <1>5, <2>8, <2>10
    <3>2. CASE a = 1
      BY <2>1, <2>7, <2>8, <3>1, <3>2
    <3>3. CASE a # 1
      <4>1. s[a] = s1[a - 1] /\ a - 1 \in 1 .. n - 1 /\ a - 1 < b - 1
        BY <1>5, <2>8, <2>10, <3>3
      <4>2. QED
        BY <2>7, <3>1, <4>1 DEF Sorted
    <3>4. QED
      BY <3>2, <3>3
  <2>11. Can(S)
    BY <1>4, <2>9, <2>10 DEF Sorted
  <2>12. QED
    BY <1>4, <2>11
<1>8. QED
  BY <1>6, <1>7

\* The list of a set of nodes is sorted,
LEMMA SortedSeqSorts ==
  ASSUME NEW S \in SUBSET Nodes
  PROVE  SortedSeq(S) \in Seq(S) /\ Sorted(SortedSeq(S))
<1>1. IsFiniteSet(S)
  BY NodesFinite, FS_Subset
<1>2. SortedSeq(S) \in [1 .. Cardinality(S) -> S] /\ Sorted(SortedSeq(S))
  BY <1>1, SortedExists DEF SortedSeq
<1>3. Cardinality(S) \in Nat
  BY <1>1, FS_CardinalityType
<1>4. QED
  BY <1>2, <1>3

\* and it holds all of them: strictly ascending, it names none twice.
LEMMA SortedSeqHasAll ==
  ASSUME NEW S \in SUBSET Nodes
  PROVE  ToSet(SortedSeq(S)) = S
<1> DEFINE s == SortedSeq(S)
           n == Cardinality(S)
<1>1. IsFiniteSet(S) /\ n \in Nat
  BY NodesFinite, FS_Subset, FS_CardinalityType
<1>2. s \in [1 .. n -> S] /\ Sorted(s)
  BY <1>1, SortedExists DEF SortedSeq
<1>3. Cardinality(1 .. n) = n
  <2>1. 1 \in Int /\ n \in Int
    BY <1>1
  <2>2. Cardinality(1 .. n) = IF 1 > n THEN 0 ELSE n - 1 + 1
    BY <2>1, FS_Interval, Zenon
  <2> HIDE DEF n
  <2>3. QED
    BY <1>1, <2>2
<1> HIDE DEF s, n
<1>4. IsInjective(s)
  <2>1. SUFFICES ASSUME NEW l \in 1 .. n, NEW m \in 1 .. n, s[l] = s[m]  PROVE l = m
    BY <1>2 DEF IsInjective
  <2>2. ~ (l < m) /\ ~ (m < l)
    <3>1. s[l] \in Nodes /\ ~ cmp_list_node(s[l], s[l])
      BY <1>2, NodeTypes DEF cmp_list_node
    <3>2. DOMAIN s = 1 .. n
      BY <1>2
    <3>3. QED
      BY <1>2, <2>1, <3>1, <3>2 DEF Sorted
  <2>3. QED
    BY <1>1, <2>2
<1>5. s \in Injection(1 .. n, S)
  BY <1>2, <1>4 DEF Injection
<1>6. s \in Surjection(1 .. n, S)
  <2>1. Cardinality(1 .. n) = Cardinality(S)
    BY <1>3 DEF n
  <2>2. QED
    BY <1>1, <1>5, <2>1, FS_Injection, Zenon
<1>7. QED
  BY <1>2, <1>6 DEF Surjection, ToSet, s

-----------------------------------------------------------------------------
(***************************************************************************)
(* The iterators.                                                          *)
(***************************************************************************)
LEMMA QueryTypes ==
  ASSUME ReadInv
  PROVE  /\ query \in Seq(Keys) /\ Len(query) \in Nat /\ i \in Nat /\ key_arr_size \in Nat
         /\ key_arr_size <= Len(query)
         /\ \A j \in 1 .. Len(query) : query[j] \in Keys /\ index[query[j]] \subseteq Nodes
         /\ Candidates \subseteq Pages /\ Candidates \subseteq Nat
<1>1. query \in Seq(Keys)
  BY SearchAssumption DEF ReadInv
<1>2. Candidates \subseteq Pages
  <2>1. 1 - set_flag \in {0, 1}
    BY DEF ReadInv
  <2>2. QED
    BY <2>1 DEF ReadInv, Candidates
<1>3. Candidates \subseteq Nat
  BY <1>2, PostingListsAssumption
<1>4. QED
  BY <1>1, <1>2, <1>3 DEF ReadInv

LEMMA InitAlign == Init => AlignInv
<1> SUFFICES ASSUME Init  PROVE AlignInv
  OBVIOUS
<1>1. query \in Seq(Keys) /\ Len(query) \in Nat /\ pc = "read"
  BY SearchAssumption DEF Init
<1>2. ReadInv
  <2>1. index \in [Keys -> SUBSET Nodes] /\ query \in Queries
    BY DEF Init
  <2>2. QED
    BY <1>1, <2>1 DEF Init, ReadInv
<1>3. QED
  BY <1>1, <1>2 DEF AlignInv, ListsInv, BetweenPages, OnPage, PageAligned

\* The loop that reads passes the next keyword, and counts it unless it was there.
LEMMA ReadKeeps ==
  ASSUME AlignInv, AlreadyRead \/ ReadEmpty \/ ReadList
  PROVE  AlignInv'
<1>1. /\ pc = "read" /\ pc' = "read" /\ i' = i + 1 /\ i \in 1 .. Len(query)
      /\ result' = result /\ index' = index /\ query' = query
  BY QueryTypes DEF AlreadyRead, ReadEmpty, ReadList, input, AlignInv, ReadInv
<1>2. /\ key_arr_size' = IF query[i] \in inv_map THEN key_arr_size ELSE key_arr_size + 1
      /\ inv_map' \subseteq inv_map \cup {query[i]}
  BY DEF AlreadyRead, ReadEmpty, ReadList
<1>3. key_arr_size' \in 0 .. i' - 1 /\ i' \in 1 .. Len(query') + 1
  BY <1>1, <1>2, QueryTypes DEF AlignInv, ReadInv
<1>4. inv_map' \subseteq {query'[j] : j \in 1 .. i' - 1}
  <2>1. inv_map \subseteq {query[j] : j \in 1 .. i - 1}
    BY DEF AlignInv, ReadInv
  <2>2. 1 .. i - 1 \subseteq 1 .. i' - 1 /\ i \in 1 .. i' - 1
    BY <1>1, QueryTypes DEF AlignInv
  <2>3. QED
    BY <1>1, <1>2, <2>1, <2>2
<1>5. IsInjective(query') => key_arr_size' = i' - 1
  <2>1. SUFFICES ASSUME IsInjective(query)  PROVE key_arr_size' = i' - 1
    BY <1>1
  <2>2. query[i] \notin inv_map
    <3>1. SUFFICES ASSUME query[i] \in inv_map  PROVE FALSE
      OBVIOUS
    <3>2. PICK j \in 1 .. i - 1 : query[j] = query[i]
      BY <3>1 DEF AlignInv, ReadInv
    <3>3. j \in DOMAIN query /\ i \in DOMAIN query /\ i # j
      BY <1>1, <3>2, QueryTypes DEF AlignInv
    <3>4. QED
      BY <2>1, <3>2, <3>3 DEF IsInjective
  <2>3. QED
    BY <1>1, <1>2, <2>1, <2>2, QueryTypes DEF AlignInv, ReadInv
<1>6. working_set' \in [{0, 1} -> SUBSET Pages] /\ set_flag' \in {0, 1}
  <2>1. CASE AlreadyRead \/ ReadEmpty
    BY <2>1 DEF AlreadyRead, ReadEmpty, AlignInv, ReadInv
  <2>2. CASE ReadList
    <3>1. PagesOf(index[query[i]]) \subseteq Pages
      BY <1>1, QueryTypes, NodeTypes DEF PagesOf, AlignInv
    <3>2. CASE flag_init
      BY <2>2, <3>1, <3>2 DEF ReadList, AlignInv, ReadInv
    <3>3. CASE ~ flag_init
      <4>1. set_flag' = 1 - set_flag /\ set_flag \in {0, 1}
        BY <2>2, <3>3 DEF ReadList, AlignInv, ReadInv
      <4>2. PICK lucky \in SUBSET (PagesOf(index[query[i]]) \ working_set[1 - set_flag]) :
                working_set' = [working_set EXCEPT
                    ![set_flag] = @ \cup (PagesOf(index[query[i]]) \cap working_set[1 - set_flag])
                                    \cup lucky,
                    ![1 - set_flag] = {}]
        BY <2>2, <3>3 DEF ReadList, Intersect, Lucky
      <4>3. QED
        BY <3>1, <4>1, <4>2 DEF AlignInv, ReadInv
    <3>4. QED
      BY <3>2, <3>3
  <2>3. QED
    BY <2>1, <2>2
<1>7. ReadInv'
  BY <1>1, <1>3, <1>4, <1>5, <1>6 DEF AlignInv, ReadInv
<1>8. QED
  BY <1>1, <1>7 DEF AlignInv, ListsInv, BetweenPages, OnPage, PageAligned

\* The lists are copied; every iterator is at the start.
LEMMA ExtractKeeps ==
  ASSUME AlignInv, Extract
  PROVE  AlignInv'
<1>1. /\ pc = "read" /\ pc' = "page" /\ i > Len(query)
      /\ UNCHANGED <<index, query, i, inv_map, key_arr_size, working_set, set_flag, result>>
      /\ its' = [j \in 1 .. key_arr_size |-> 1] /\ todo' = Candidates
      /\ Candidates' = Candidates
  BY DEF Extract, input, merging, Candidates
<1>2. ReadInv'
  BY <1>1, QueryTypes DEF AlignInv, ReadInv
<1>3. ASSUME NEW j \in 1 .. key_arr_size
      PROVE  /\ List(j)' \in Seq({n \in index[query[j]] : n.idWebPage \in Candidates})
             /\ Sorted(List(j)')
             /\ its'[j] = 1
  <2>1. j \in 1 .. Len(query) /\ query[j] \in Keys /\ index[query[j]] \subseteq Nodes
    BY QueryTypes DEF AlignInv
  <2>2. query[j] \in ToSet(query)
    BY <2>1, QueryTypes DEF ToSet, AlignInv
  <2>3. List(j)' = NodesOf(query[j])
    BY <1>1, <2>1, <2>2 DEF Extract, List
  <2>4. {n \in index[query[j]] : n.idWebPage \in Candidates} \in SUBSET Nodes
    BY <2>1
  <2>5. QED
    BY <1>1, <2>3, <2>4, SortedSeqSorts DEF NodesOf
<1>4. ListsInv'
  <2>1. ASSUME NEW j \in 1 .. key_arr_size
        PROVE  /\ List(j)' \in Seq({n \in index[query[j]] : n.idWebPage \in Candidates})'
               /\ Sorted(List(j))'
               /\ its'[j] \in 1 .. Len(List(j)') + 1
    <3>1. List(j)' \in Seq({n \in index[query[j]] : n.idWebPage \in Candidates})
      BY <1>3
    <3>2. Len(List(j)') \in Nat
      BY <3>1
    <3>3. QED
      BY <1>1, <1>3, <3>1, <3>2 DEF Sorted
  <2>2. DOMAIN its' = 1 .. key_arr_size' /\ todo' \subseteq Candidates' /\ result' \subseteq Pages
    BY <1>1 DEF AlignInv, ReadInv
  <2>3. QED
    BY <1>1, <2>1, <2>2 DEF ListsInv
<1>5. BetweenPages'
  <2>1. ASSUME NEW j \in 1 .. key_arr_size, NEW m \in DOMAIN List(j)'
        PROVE  ~ (m < its'[j]) /\ PageAt(j, m)' \in todo'
    <3>1. List(j)' \in Seq({n \in index[query[j]] : n.idWebPage \in Candidates}) /\ its'[j] = 1
      BY <1>3
    <3>2. m \in 1 .. Len(List(j)') /\ Len(List(j)') \in Nat
      BY <3>1
    <3>3. List(j)'[m].idWebPage \in Candidates
      BY <3>1, <3>2
    <3>4. QED
      BY <1>1, <3>1, <3>2, <3>3 DEF PageAt
  <2>2. QED
    BY <1>1, <2>1 DEF BetweenPages
<1>6. QED
  BY <1>1, <1>2, <1>4, <1>5 DEF AlignInv, OnPage, PageAligned

LEMMA ListFacts ==
  ASSUME AlignInv, pc # "read", NEW j \in DOMAIN its
  PROVE  /\ j \in 1 .. key_arr_size /\ query[j] \in Keys
         /\ Len(List(j)) \in Nat /\ DOMAIN List(j) = 1 .. Len(List(j))
         /\ its[j] \in 1 .. Len(List(j)) + 1
         /\ \A m \in DOMAIN List(j) :
                /\ List(j)[m] \in index[query[j]] /\ List(j)[m] \in Nodes
                /\ PageAt(j, m) \in Candidates /\ PageAt(j, m) \in Nat
         /\ \A m, n \in DOMAIN List(j) : m < n => PageAt(j, m) <= PageAt(j, n)
<1>1. j \in 1 .. key_arr_size /\ j \in 1 .. Len(query)
  BY QueryTypes DEF AlignInv, ListsInv
<1>2. /\ List(j) \in Seq({n \in index[query[j]] : n.idWebPage \in Candidates})
      /\ Sorted(List(j)) /\ its[j] \in 1 .. Len(List(j)) + 1
  BY <1>1 DEF AlignInv, ListsInv
<1>3. query[j] \in Keys /\ index[query[j]] \subseteq Nodes
  BY <1>1, QueryTypes DEF AlignInv
<1>4. Len(List(j)) \in Nat /\ DOMAIN List(j) = 1 .. Len(List(j))
  BY <1>2
<1>5. ASSUME NEW m \in DOMAIN List(j)
      PROVE  /\ List(j)[m] \in index[query[j]] /\ List(j)[m] \in Nodes
             /\ PageAt(j, m) \in Candidates /\ PageAt(j, m) \in Nat
  <2>1. List(j)[m] \in {n \in index[query[j]] : n.idWebPage \in Candidates}
    BY <1>2, <1>4
  <2>2. QED
    BY <1>3, <2>1, NodeTypes DEF PageAt
<1>6. ASSUME NEW m \in DOMAIN List(j), NEW n \in DOMAIN List(j), m < n
      PROVE  PageAt(j, m) <= PageAt(j, n)
  <2>1. cmp_list_node(List(j)[m], List(j)[n])
    BY <1>2, <1>6 DEF Sorted
  <2>2. PageAt(j, m) \in Nat /\ PageAt(j, n) \in Nat
    BY <1>5
  <2>3. QED
    BY <2>1, <2>2 DEF cmp_list_node, PageAt
<1>7. QED
  BY <1>1, <1>2, <1>3, <1>4, <1>5, <1>6

\* The lists stay, and with them what says nothing of the iterators' places.
LEMMA ListsStay ==
  ASSUME AlignInv, pc # "read", pc' # "read", UNCHANGED <<input, merging, nodes>>,
         DOMAIN its' = DOMAIN its,
         \A j \in DOMAIN its : its'[j] \in 1 .. Len(List(j)) + 1,
         todo' \subseteq todo, result' \subseteq Pages
  PROVE  /\ ReadInv' /\ ListsInv' /\ Candidates' = Candidates
         /\ \A j : List(j)' = List(j)
         /\ \A j, m : PageAt(j, m)' = PageAt(j, m)
<1>1. UNCHANGED <<index, query, i, inv_map, key_arr_size, working_set, set_flag, nodes>>
  BY DEF input, merging
<1>2. Candidates' = Candidates
  BY <1>1 DEF Candidates
<1>3. \A j : List(j)' = List(j)
  BY <1>1 DEF List
<1>4. \A j, m : PageAt(j, m)' = PageAt(j, m)
  BY <1>3 DEF PageAt
<1>5. ReadInv'
  BY <1>1 DEF AlignInv, ReadInv
<1>6. ListsInv'
  <2>1. DOMAIN its = 1 .. key_arr_size /\ todo \subseteq Candidates
    BY DEF AlignInv, ListsInv
  <2>2. ASSUME NEW j \in 1 .. key_arr_size
        PROVE  /\ List(j)' \in Seq({n \in index[query[j]] : n.idWebPage \in Candidates})'
               /\ Sorted(List(j))'
    BY <1>1, <1>2, <1>3 DEF AlignInv, ListsInv, Sorted
  <2>3. QED
    BY <1>1, <1>2, <1>3, <2>1, <2>2 DEF ListsInv
<1>7. QED
  BY <1>2, <1>3, <1>4, <1>5, <1>6

\* The next page is the first one left; behind every iterator are the pages before.
LEMMA CheckPageKeeps ==
  ASSUME AlignInv, CheckPage
  PROVE  AlignInv'
<1>1. /\ pc = "page" /\ pc' = "dfs" /\ todo # {} /\ pid' = Min(todo)
      /\ todo' = todo \ {Min(todo)} /\ key_num' = 1 /\ its' = its /\ result' = result
      /\ UNCHANGED <<input, merging, nodes>>
  BY DEF CheckPage
<1>2. todo \subseteq Candidates /\ todo \subseteq Nat
  BY <1>1, QueryTypes DEF AlignInv, ListsInv
<1>3. PICK p \in todo : p = Min(todo) /\ \A t \in todo : p <= t
  BY <1>1, <1>2, MinIsLeast
<1>4. \A j \in DOMAIN its : its[j] \in 1 .. Len(List(j)) + 1
  BY <1>1, ListFacts
<1>5. /\ ReadInv' /\ ListsInv' /\ Candidates' = Candidates
      /\ \A j : List(j)' = List(j)
      /\ \A j, m : PageAt(j, m)' = PageAt(j, m)
  BY <1>1, <1>4, ListsStay DEF AlignInv, ListsInv
<1>6. ASSUME NEW j \in DOMAIN its, NEW m \in DOMAIN List(j)
      PROVE  m < its[j] <=> PageAt(j, m) < p
  <2>1. m < its[j] <=> PageAt(j, m) \notin todo
    BY <1>1 DEF AlignInv, BetweenPages
  <2>2. PageAt(j, m) \in Candidates /\ PageAt(j, m) \in Nat
    BY <1>1, ListFacts
  <2>3. PageAt(j, m) \notin todo => PageAt(j, m) < p
    BY <1>1, <2>2 DEF AlignInv, BetweenPages
  <2>4. PageAt(j, m) \in todo => p <= PageAt(j, m)
    BY <1>3
  <2>5. QED
    BY <1>2, <2>1, <2>2, <2>3, <2>4
<1>7. PageAligned'
  <2>1. ASSUME NEW j \in DOMAIN its, NEW m \in DOMAIN List(j)
        PROVE  m < its'[j] <=> List(j)'[m].idWebPage < pid'
    BY <1>1, <1>3, <1>5, <1>6 DEF PageAt
  <2>2. QED
    BY <1>1, <1>5, <2>1 DEF PageAligned
<1>8. OnPage'
  <2>1. p \in Candidates \ todo' /\ \A t \in todo' : p < t
    BY <1>1, <1>2, <1>3
  <2>2. \A q \in Candidates \ todo' : q <= p
    <3>1. SUFFICES ASSUME NEW q \in Candidates, q \notin todo'  PROVE q <= p
      OBVIOUS
    <3>2. q = p \/ q \notin todo
      BY <1>1, <1>3, <3>1
    <3>3. q \notin todo => q < p
      BY <1>1, <1>3 DEF AlignInv, BetweenPages
    <3>4. q \in Nat /\ p \in Nat
      BY <1>2, QueryTypes DEF AlignInv
    <3>5. QED
      BY <3>2, <3>3, <3>4
  <2>3. ASSUME NEW j \in DOMAIN its, NEW m \in DOMAIN List(j)
        PROVE  /\ PageAt(j, m) < p => m < its[j]
               /\ m < its[j] => PageAt(j, m) <= p
    <3>1. PageAt(j, m) \in Nat /\ p \in Nat
      BY <1>1, <1>2, ListFacts
    <3>2. QED
      BY <1>6, <3>1
  <2>4. key_num' \in 1 .. key_arr_size' + 1
    BY <1>1, QueryTypes DEF AlignInv, merging
  <2>5. QED
    BY <1>1, <1>3, <1>5, <2>1, <2>2, <2>3, <2>4 DEF OnPage
<1>9. QED
  BY <1>1, <1>5, <1>7, <1>8 DEF AlignInv, BetweenPages

\* A step within a page that leaves the iterators where they are.
LEMMA WithinPage ==
  ASSUME AlignInv, pc = "dfs", pc' \in {"dfs", "leave"},
         UNCHANGED <<input, merging, nodes, its, todo, pid>>, result' \subseteq Pages,
         pc' = "dfs" => key_num' \in 2 .. key_arr_size + 1
  PROVE  AlignInv'
<1>1. \A j \in DOMAIN its : its[j] \in 1 .. Len(List(j)) + 1
  BY ListFacts
<1>2. /\ ReadInv' /\ ListsInv' /\ Candidates' = Candidates
      /\ \A j : List(j)' = List(j)
      /\ \A j, m : PageAt(j, m)' = PageAt(j, m)
  BY <1>1, ListsStay
<1>3. OnPage'
  <2>1. key_arr_size' = key_arr_size /\ key_arr_size \in Nat
    BY QueryTypes DEF AlignInv, merging
  <2>2. pc' = "dfs" => key_num' \in 1 .. key_arr_size' + 1
    BY <2>1
  <2>3. QED
    BY <1>2, <2>2 DEF AlignInv, OnPage
<1>4. pc' = "dfs" => key_num' # 1
  BY QueryTypes DEF AlignInv
<1>5. QED
  BY <1>2, <1>3, <1>4 DEF AlignInv, BetweenPages, PageAligned

LEMMA MatchKeeps == AlignInv /\ Match => AlignInv'
<1> SUFFICES ASSUME AlignInv, Match  PROVE AlignInv'
  OBVIOUS
<1>1. key_num' \in 2 .. key_arr_size + 1 /\ result \subseteq Pages
  BY QueryTypes DEF Match, AlignInv, ListsInv, OnPage
<1>2. QED
  BY <1>1, WithinPage DEF Match

LEMMA FailKeeps == AlignInv /\ Fail => AlignInv'
<1> SUFFICES ASSUME AlignInv, Fail  PROVE AlignInv'
  OBVIOUS
<1>1. result \subseteq Pages
  BY DEF Fail, AlignInv, ListsInv
<1>2. QED
  BY <1>1, WithinPage DEF Fail

LEMMA SucceedKeeps == AlignInv /\ Succeed => AlignInv'
<1> SUFFICES ASSUME AlignInv, Succeed  PROVE AlignInv'
  OBVIOUS
<1>1. pid \in Pages /\ result \subseteq Pages
  BY QueryTypes DEF Succeed, AlignInv, ListsInv, OnPage
<1>2. QED
  BY <1>1, WithinPage DEF Succeed

\* An iterator moves over a node of the page only.
LEMMA SkipKeeps == AlignInv /\ Skip => AlignInv'
<1> SUFFICES ASSUME AlignInv, Skip  PROVE AlignInv'
  OBVIOUS
<1>1. /\ pc = "dfs" /\ pc' = "dfs" /\ key_num <= key_arr_size /\ AtPage(key_num)
      /\ ~ Near(key_num) /\ its' = [its EXCEPT ![key_num] = @ + 1]
      /\ UNCHANGED <<input, merging, nodes, todo, dfs, pid, result>>
  BY DEF Skip
<1>2. key_num \in DOMAIN its /\ key_num' = key_num /\ key_num # 1
      /\ DOMAIN its = 1 .. key_arr_size
  BY <1>1, QueryTypes DEF AlignInv, OnPage, ListsInv, Near, dfs
<1>3. its'[key_num] = its[key_num] + 1 /\ DOMAIN its' = DOMAIN its
      /\ \A j \in DOMAIN its : j # key_num => its'[j] = its[j]
  BY <1>1, <1>2
<1>4. /\ its[key_num] \in DOMAIN List(key_num) /\ PageAt(key_num, its[key_num]) = pid
      /\ its[key_num] <= Len(List(key_num))
  BY <1>1, <1>2, ListFacts DEF AtPage, PageAt
<1>5. \A j \in DOMAIN its : its'[j] \in 1 .. Len(List(j)) + 1
  BY <1>1, <1>2, <1>3, <1>4, ListFacts
<1>6. /\ ReadInv' /\ ListsInv' /\ Candidates' = Candidates
      /\ \A j : List(j)' = List(j)
      /\ \A j, m : PageAt(j, m)' = PageAt(j, m)
  BY <1>1, <1>3, <1>5, ListsStay DEF AlignInv, ListsInv
<1>7. ASSUME NEW j \in DOMAIN its, NEW m \in DOMAIN List(j)
      PROVE  /\ PageAt(j, m) < pid => m < its'[j]
             /\ m < its'[j] => PageAt(j, m) <= pid
  <2>1. /\ PageAt(j, m) < pid => m < its[j]
        /\ m < its[j] => PageAt(j, m) <= pid
    BY <1>1 DEF AlignInv, OnPage
  <2>2. CASE j # key_num
    BY <1>3, <2>1, <2>2
  <2>3. CASE j = key_num
    <3>1. m \in Nat /\ its[j] \in Nat /\ its'[j] = its[j] + 1 /\ PageAt(j, m) \in Nat
      BY <1>1, <1>3, <2>3, ListFacts
    <3>2. m < its'[j] => m < its[j] \/ m = its[j]
      BY <3>1
    <3>3. m = its[j] => PageAt(j, m) = pid
      BY <1>4, <2>3
    <3>4. pid \in Nat
      BY <1>1, QueryTypes DEF AlignInv, OnPage
    <3>5. QED
      BY <2>1, <3>1, <3>2, <3>3, <3>4
  <2>4. QED
    BY <2>2, <2>3
<1>8. OnPage'
  <2>1. key_num' \in 1 .. key_arr_size' + 1
    BY <1>1, <1>2 DEF AlignInv, OnPage, merging
  <2>2. QED
    BY <1>1, <1>3, <1>6, <1>7, <2>1 DEF AlignInv, OnPage
<1>9. QED
  BY <1>1, <1>2, <1>6, <1>8 DEF AlignInv, BetweenPages, PageAligned

\* All iterators are moved behind the page.
LEMMA LeavePageKeeps == AlignInv /\ LeavePage => AlignInv'
<1> SUFFICES ASSUME AlignInv, LeavePage  PROVE AlignInv'
  OBVIOUS
<1> DEFINE Ahead(j) == {m \in its[j] .. Len(List(j)) + 1 :
                            m > Len(List(j)) \/ List(j)[m].idWebPage # pid}
<1>1. /\ pc = "leave" /\ pc' = "page" /\ its' = [j \in DOMAIN its |-> Min(Ahead(j))]
      /\ UNCHANGED <<input, merging, nodes, todo, pid, result>>
  BY DEF LeavePage
<1>2. ASSUME NEW j \in DOMAIN its
      PROVE  /\ its'[j] \in 1 .. Len(List(j)) + 1 /\ its[j] <= its'[j]
             /\ its'[j] > Len(List(j)) \/ PageAt(j, its'[j]) # pid
             /\ \A m \in its[j] .. its'[j] - 1 :
                    m \in DOMAIN List(j) /\ PageAt(j, m) = pid
  <2>1. its[j] \in 1 .. Len(List(j)) + 1 /\ Len(List(j)) \in Nat
        /\ DOMAIN List(j) = 1 .. Len(List(j))
    BY <1>1, ListFacts
  <2>2. Ahead(j) \subseteq Nat /\ Len(List(j)) + 1 \in Ahead(j)
    BY <2>1
  <2>3. its'[j] \in Ahead(j) /\ \A m \in Ahead(j) : its'[j] <= m
    <3>1. its'[j] = Min(Ahead(j)) /\ Ahead(j) # {}
      BY <1>1, <2>2
    <3> HIDE DEF Ahead
    <3>2. QED
      BY <2>2, <3>1, MinIsLeast
  <2>4. ASSUME NEW m \in its[j] .. its'[j] - 1
        PROVE  m \in DOMAIN List(j) /\ PageAt(j, m) = pid
    <3>1. m \in its[j] .. Len(List(j)) + 1 /\ m < its'[j] /\ m \in 1 .. Len(List(j))
      BY <2>1, <2>3
    <3>2. m \notin Ahead(j)
      BY <2>3, <3>1
    <3>3. QED
      BY <2>1, <3>1, <3>2 DEF PageAt
  <2>5. its'[j] \in 1 .. Len(List(j)) + 1 /\ its[j] <= its'[j]
    BY <2>1, <2>3
  <2>6. QED
    BY <2>3, <2>4, <2>5 DEF PageAt
<1>3. \A j \in DOMAIN its : its'[j] \in 1 .. Len(List(j)) + 1
  BY <1>2
<1>4. DOMAIN its' = DOMAIN its
  BY <1>1
<1>5. /\ ReadInv' /\ ListsInv' /\ Candidates' = Candidates
      /\ \A j : List(j)' = List(j)
      /\ \A j, m : PageAt(j, m)' = PageAt(j, m)
  BY <1>1, <1>3, <1>4, ListsStay DEF AlignInv, ListsInv
<1>6. pid \in Candidates \ todo /\ pid \in Nat /\ Candidates \subseteq Nat
  BY <1>1, QueryTypes DEF AlignInv, OnPage
<1>7. ASSUME NEW j \in DOMAIN its, NEW m \in DOMAIN List(j)
      PROVE  m < its'[j] <=> PageAt(j, m) <= pid
  <2>1. /\ m \in Nat /\ its[j] \in Nat /\ its'[j] \in Nat /\ its[j] <= its'[j]
        /\ PageAt(j, m) \in Nat /\ DOMAIN List(j) = 1 .. Len(List(j)) /\ Len(List(j)) \in Nat
    <3>1. /\ its[j] \in 1 .. Len(List(j)) + 1 /\ Len(List(j)) \in Nat
          /\ DOMAIN List(j) = 1 .. Len(List(j)) /\ PageAt(j, m) \in Nat
      BY <1>1, ListFacts
    <3>2. QED
      BY <1>2, <3>1
  <2>2. ASSUME m < its'[j]  PROVE PageAt(j, m) <= pid
    <3>1. CASE m < its[j]
      BY <1>1, <3>1 DEF AlignInv, OnPage
    <3>2. CASE m >= its[j]
      <4>1. m \in its[j] .. its'[j] - 1
        BY <2>1, <2>2, <3>2
      <4>2. PageAt(j, m) = pid
        BY <1>2, <4>1, Zenon
      <4>3. QED
        BY <1>6, <4>2
    <3>3. QED
      BY <2>1, <3>1, <3>2
  <2>3. ASSUME ~ (m < its'[j])  PROVE ~ (PageAt(j, m) <= pid)
    <3>1. its'[j] \in DOMAIN List(j)
      BY <1>3, <2>1, <2>3
    <3>2. PageAt(j, its'[j]) # pid /\ PageAt(j, its'[j]) \in Nat
      <4>1. PICK n \in DOMAIN List(j) : n = its'[j]
        BY <3>1
      <4>2. PageAt(j, n) \in Nat
        BY <1>1, ListFacts
      <4>3. its'[j] <= Len(List(j))
        BY <2>1, <3>1
      <4>4. PageAt(j, its'[j]) # pid
        BY <1>2, <2>1, <4>3
      <4>5. QED
        BY <4>1, <4>2, <4>4
    <3>3. ~ (PageAt(j, its'[j]) < pid)
      BY <1>1, <2>1, <3>1 DEF AlignInv, OnPage
    <3>4. m = its'[j] \/ PageAt(j, its'[j]) <= PageAt(j, m)
      BY <1>1, <2>1, <2>3, <3>1, ListFacts
    <3>5. QED
      BY <1>6, <2>1, <3>2, <3>3, <3>4
  <2>4. QED
    BY <2>2, <2>3
<1>8. BetweenPages'
  <2>1. ASSUME NEW p \in Candidates \ todo, NEW t \in todo  PROVE p < t
    <3>1. p <= pid /\ pid < t
      BY <1>1 DEF AlignInv, OnPage
    <3>2. p \in Nat /\ t \in Nat
      BY <1>1, <1>6 DEF AlignInv, ListsInv
    <3>3. QED
      BY <1>6, <3>1, <3>2
  <2>2. ASSUME NEW j \in DOMAIN its, NEW m \in DOMAIN List(j)
        PROVE  m < its'[j] <=> PageAt(j, m) \notin todo
    <3>1. PageAt(j, m) \in Candidates /\ PageAt(j, m) \in Nat
      BY <1>1, ListFacts
    <3>2. PageAt(j, m) \in todo => pid < PageAt(j, m)
      BY <1>1 DEF AlignInv, OnPage
    <3>3. PageAt(j, m) \notin todo => PageAt(j, m) <= pid
      BY <1>1, <3>1 DEF AlignInv, OnPage
    <3>4. QED
      BY <1>6, <1>7, <3>1, <3>2, <3>3
  <2>3. QED
    BY <1>1, <1>4, <1>5, <2>1, <2>2 DEF BetweenPages
<1>9. QED
  BY <1>1, <1>5, <1>8 DEF AlignInv, OnPage, PageAligned

LEMMA FinishKeeps == AlignInv /\ Finish => AlignInv'
<1> SUFFICES ASSUME AlignInv, Finish  PROVE AlignInv'
  OBVIOUS
<1>1. pc = "page" /\ pc' = "done"
      /\ UNCHANGED <<input, merging, nodes, its, todo, pid, result>>
  BY DEF Finish
<1>2. /\ \A j \in DOMAIN its : its'[j] \in 1 .. Len(List(j)) + 1
      /\ result' \subseteq Pages
  BY <1>1, ListFacts DEF AlignInv, ListsInv
<1>3. ReadInv' /\ ListsInv'
  BY <1>1, <1>2, ListsStay
<1>4. BetweenPages' /\ OnPage' /\ PageAligned'
  BY <1>1 DEF BetweenPages, OnPage, PageAligned
<1>5. QED
  BY <1>3, <1>4 DEF AlignInv

LEMMA StepAlign == AlignInv /\ [Next]_vars => AlignInv'
<1> SUFFICES ASSUME AlignInv, [Next]_vars  PROVE AlignInv'
  OBVIOUS
<1>1. CASE UNCHANGED vars
  <2>1. /\ UNCHANGED <<index, query, i, inv_map, key_arr_size, working_set, set_flag>>
        /\ UNCHANGED <<nodes, its, todo, pid, key_num, result, pc>>
    BY <1>1 DEF vars, input, merging, dfs
  <2>2. ReadInv'
    BY <2>1 DEF AlignInv, ReadInv
  <2>3. Candidates' = Candidates /\ \A j : List(j)' = List(j)
    BY <2>1 DEF Candidates, List
  <2>4. \A j, m : PageAt(j, m)' = PageAt(j, m)
    BY <2>3 DEF PageAt
  <2>5. ListsInv'
    BY <2>1, <2>3 DEF AlignInv, ListsInv, Sorted
  <2>6. BetweenPages' /\ OnPage'
    BY <2>1, <2>3, <2>4 DEF AlignInv, BetweenPages, OnPage
  <2>7. PageAligned'
    BY <2>1, <2>3, <2>4 DEF AlignInv, PageAligned
  <2>8. QED
    BY <2>2, <2>5, <2>6, <2>7 DEF AlignInv
<1>2. QED
  BY <1>1, ReadKeeps, ExtractKeeps, CheckPageKeeps, MatchKeeps, SkipKeeps, FailKeeps,
     SucceedKeeps, LeavePageKeeps, FinishKeeps DEF Next

\* When a page is looked at each iterator is at the page's first node, or past where
\* it would be: whatever the pages before it were and wherever dfs gave them up.
THEOREM PagesAreAligned == Spec => []PageAligned
<1>1. AlignInv => PageAligned
  BY DEF AlignInv
<1>2. QED
  BY <1>1, InitAlign, StepAlign, PTL DEF Spec

-----------------------------------------------------------------------------
(***************************************************************************)
(* What is found.                                                          *)
(***************************************************************************)

\* Offsets so far below 2^32 that match_delta does not reach over it: a text is
\* shorter than 4 GB by more than 33 bytes.
Far == \A o \in Offsets : o + MatchDelta < Wrap

\* The unsigned difference is small only if the second offset is not before the
\* first.
LEMMA NearMeans ==
  ASSUME Far, NEW base \in Offsets, NEW o \in Offsets,
         (o + Wrap - base) % Wrap <= MatchDelta
  PROVE  base <= o /\ o <= base + MatchDelta
<1>1. /\ base \in Nat /\ o \in Nat /\ Wrap \in Nat \ {0} /\ MatchDelta \in Nat
      /\ base < Wrap /\ o < Wrap /\ base + MatchDelta < Wrap
  <2>1. Offsets \subseteq 0 .. Wrap - 1 /\ Wrap \in Nat \ {0} /\ MatchDelta \in Nat
    BY SearchAssumption
  <2>2. QED
    BY <2>1 DEF Far
<1>2. CASE base <= o
  <2>1. PICK x \in Nat : x = o - base
    BY <1>1, <1>2
  <2>2. x < Wrap /\ o + Wrap - base = x + Wrap
    BY <1>1, <2>1
  <2>3. x <= MatchDelta
    BY <1>1, <2>2, Remainder
  <2>4. QED
    BY <1>1, <1>2, <2>1, <2>3
<1>3. CASE o < base
  <2>1. PICK x \in Nat : x = o + Wrap - base
    BY <1>1, <1>3
  <2>2. x < Wrap
    BY <1>1, <1>3, <2>1
  <2>3. x <= MatchDelta
    BY <1>1, <2>1, <2>2, Remainder
  <2>4. QED
    BY <1>1, <2>1, <2>3
<1>4. QED
  BY <1>1, <1>2, <1>3

\* One keyword more is found near the last one.
LEMMA ChainGrows ==
  ASSUME NEW p, NEW n \in Nat, NEW last, ChainTo(p, n, last), NEW o \in Offsets,
         [idWebPage |-> p, offset |-> o] \in index[query[n + 1]],
         n > 0 => last <= o /\ o <= last + MatchDelta
  PROVE  ChainTo(p, n + 1, o)
<1>1. PICK f \in [1 .. n -> Offsets] :
          /\ \A j \in 1 .. n : [idWebPage |-> p, offset |-> f[j]] \in index[query[j]]
          /\ \A j \in 2 .. n : f[j - 1] <= f[j] /\ f[j] <= f[j - 1] + MatchDelta
          /\ n > 0 => f[n] = last
  BY DEF ChainTo
<1> DEFINE g == [j \in 1 .. n + 1 |-> IF j = n + 1 THEN o ELSE f[j]]
<1>2. g[n + 1] = o /\ \A j \in 1 .. n : g[j] = f[j]
  OBVIOUS
<1>3. g \in [1 .. n + 1 -> Offsets]
  OBVIOUS
<1> HIDE DEF g
<1>4. ASSUME NEW j \in 1 .. n + 1
      PROVE  [idWebPage |-> p, offset |-> g[j]] \in index[query[j]]
  <2>1. CASE j = n + 1
    BY <1>2, <2>1
  <2>2. CASE j # n + 1
    <3>1. j \in 1 .. n
      BY <2>2
    <3>2. QED
      BY <1>1, <1>2, <3>1
  <2>3. QED
    BY <2>1, <2>2
<1>5. ASSUME NEW j \in 2 .. n + 1
      PROVE  g[j - 1] <= g[j] /\ g[j] <= g[j - 1] + MatchDelta
  <2>1. CASE j = n + 1
    <3>1. g[j] = o /\ g[j - 1] = last /\ n > 0
      BY <1>1, <1>2, <2>1
    <3>2. QED
      BY <3>1
  <2>2. CASE j # n + 1
    <3>1. j \in 2 .. n /\ j - 1 \in 1 .. n /\ j \in 1 .. n
      BY <2>2
    <3>2. QED
      BY <1>1, <1>2, <3>1
  <2>3. QED
    BY <2>1, <2>2
<1>6. QED
  BY <1>2, <1>3, <1>4, <1>5 DEF ChainTo

\* Nothing has to be found of no keyword.
LEMMA EmptyChain ==
  \A F, lists, keys, p :
      \E f \in [1 .. 0 -> F] :
          /\ \A j \in 1 .. 0 : [idWebPage |-> p, offset |-> f[j]] \in lists[keys[j]]
          /\ \A j \in 2 .. 0 : f[j - 1] <= f[j] /\ f[j] <= f[j - 1] + MatchDelta
          /\ 0 > 0 => f[0] = 0
<1> SUFFICES ASSUME NEW F, NEW lists, NEW keys, NEW p
             PROVE  \E f \in [1 .. 0 -> F] :
          /\ \A j \in 1 .. 0 : [idWebPage |-> p, offset |-> f[j]] \in lists[keys[j]]
          /\ \A j \in 2 .. 0 : f[j - 1] <= f[j] /\ f[j] <= f[j - 1] + MatchDelta
          /\ 0 > 0 => f[0] = 0
  OBVIOUS
<1>1. 1 .. 0 = {} /\ 2 .. 0 = {} /\ ~ (0 > 0)
  OBVIOUS
<1>2. [x \in {} |-> 0] \in [{} -> F]
  OBVIOUS
<1>3. QED
  BY <1>1, <1>2

LEMMA ChainsStay ==
  ASSUME UNCHANGED <<index, query>>
  PROVE  \A p, n, last : (ChainTo(p, n, last)' <=> ChainTo(p, n, last))
                         /\ (Chain(p, n)' <=> Chain(p, n))
BY DEF ChainTo, Chain

\* The result of a match.
LEMMA MatchFinds ==
  ASSUME Far, SearchInv, Match
  PROVE  ChainTo(pid, key_num, Offset(key_num))
<1>1. /\ pc = "dfs" /\ key_num \in 1 .. key_arr_size + 1 /\ key_num <= key_arr_size
      /\ AtPage(key_num) /\ Near(key_num) /\ ChainTo(pid, key_num - 1, base_offset)
      /\ key_arr_size \in Nat
  BY QueryTypes DEF Match, SearchInv, AlignInv, OnPage, FoundInv
<1>2. PICK n \in Nat : key_num = n + 1
  BY <1>1
<1>3. key_num \in DOMAIN its
  BY <1>1 DEF SearchInv, AlignInv, ListsInv
<1>4. its[key_num] \in DOMAIN List(key_num)
  BY <1>1, <1>3, ListFacts DEF AtPage, SearchInv
<1>5. /\ List(key_num)[its[key_num]] \in index[query[key_num]]
      /\ List(key_num)[its[key_num]] \in Nodes
  BY <1>1, <1>3, <1>4, ListFacts DEF SearchInv
<1>6. /\ Offset(key_num) \in Offsets
      /\ [idWebPage |-> pid, offset |-> Offset(key_num)] \in index[query[key_num]]
  <2>1. PICK node \in Nodes : node = List(key_num)[its[key_num]]
    BY <1>5
  <2>2. node.idWebPage = pid /\ Offset(key_num) = node.offset
    BY <1>1, <2>1 DEF AtPage, Offset
  <2>3. node = [idWebPage |-> pid, offset |-> node.offset]
    BY <2>2 DEF Nodes
  <2>4. QED
    BY <1>5, <2>1, <2>2, <2>3, NodeTypes
<1>7. PICK o \in Offsets :
          o = Offset(key_num) /\ [idWebPage |-> pid, offset |-> o] \in index[query[n + 1]]
  BY <1>2, <1>6
<1>8. ChainTo(pid, n, base_offset)
  BY <1>1, <1>2
<1>9. n > 0 => base_offset <= o /\ o <= base_offset + MatchDelta
  <2>1. SUFFICES ASSUME n > 0  PROVE base_offset <= o /\ o <= base_offset + MatchDelta
    OBVIOUS
  <2>2. base_offset \in Offsets
    BY <1>8, <2>1 DEF ChainTo
  <2>3. (o + Wrap - base_offset) % Wrap <= MatchDelta
    BY <1>1, <1>2, <1>7, <2>1 DEF Near
  <2>4. QED
    BY <2>2, <2>3, NearMeans
<1>10. ChainTo(pid, n + 1, o)
  BY <1>7, <1>8, <1>9, ChainGrows
<1>11. QED
  BY <1>2, <1>7, <1>10

LEMMA StepFound == Far /\ SearchInv /\ [Next]_vars => FoundInv'
<1> SUFFICES ASSUME Far, SearchInv, [Next]_vars  PROVE FoundInv'
  OBVIOUS
<1>1. AlignInv'
  BY StepAlign DEF SearchInv
<1>2. CASE AlreadyRead \/ ReadEmpty \/ ReadList
  <2>1. pc' = "read" /\ result' = {}
    <3>1. pc = "read" /\ pc' = "read" /\ result' = result
      BY <1>2 DEF AlreadyRead, ReadEmpty, ReadList
    <3>2. QED
      BY <3>1 DEF SearchInv, AlignInv, ReadInv
  <2>2. QED
    BY <2>1 DEF FoundInv
<1>3. CASE Extract
  <2>1. pc' = "page" /\ result' = {}
    BY <1>3 DEF Extract, SearchInv, AlignInv, ReadInv
  <2>2. QED
    BY <2>1 DEF FoundInv
<1>4. CASE /\ UNCHANGED <<index, query, key_arr_size, result>>
           /\ pc' = "dfs" => pc = "dfs" /\ UNCHANGED <<pid, key_num, base_offset>>
  <2>1. \A p \in result : Chain(p, key_arr_size)
    BY DEF SearchInv, FoundInv
  <2>2. PICK n, a, b, c : n = key_arr_size /\ a = pid /\ b = key_num - 1 /\ c = base_offset
    OBVIOUS
  <2>3. \A p \in result' : Chain(p, key_arr_size)'
    BY <1>4, <2>1, <2>2, ChainsStay DEF Chain
  <2>4. pc' = "dfs" => ChainTo(pid, key_num - 1, base_offset)'
    <3>1. pc' = "dfs" => ChainTo(pid, key_num - 1, base_offset)
      BY <1>4 DEF SearchInv, FoundInv
    <3>2. QED
      BY <1>4, <3>1 DEF ChainTo
  <2>5. QED
    BY <2>3, <2>4 DEF FoundInv
<1>5. CASE CheckPage
  <2>1. /\ UNCHANGED <<index, query, key_arr_size, result>>
        /\ key_num' = 1 /\ base_offset' = 0
    BY <1>5 DEF CheckPage, input, merging
  <2>2. \A p \in result : Chain(p, key_arr_size)
    BY DEF SearchInv, FoundInv
  <2>3. \A p \in result' : Chain(p, key_arr_size)'
    BY <2>1, <2>2 DEF Chain
  <2>4. \A p : ChainTo(p, 0, 0)'
    BY EmptyChain DEF ChainTo
  <2>5. ChainTo(pid, key_num - 1, base_offset)'
    <3>1. key_num' - 1 = 0 /\ base_offset' = 0
      BY <2>1
    <3>2. PICK p : p = pid'
      OBVIOUS
    <3>3. QED
      BY <2>4, <3>1, <3>2 DEF ChainTo
  <2>6. QED
    BY <2>3, <2>5 DEF FoundInv
<1>6. CASE Match
  <2>1. /\ UNCHANGED <<index, query, key_arr_size, result, pid>>
        /\ key_num' = key_num + 1 /\ base_offset' = Offset(key_num)
        /\ key_num \in Nat
    BY <1>6, QueryTypes DEF Match, input, merging, SearchInv, AlignInv, OnPage
  <2>2. \A p \in result : Chain(p, key_arr_size)
    BY DEF SearchInv, FoundInv
  <2>3. \A p \in result' : Chain(p, key_arr_size)'
    BY <2>1, <2>2 DEF Chain
  <2>4. ChainTo(pid, key_num, Offset(key_num))
    BY <1>6, MatchFinds
  <2>5. ChainTo(pid, key_num - 1, base_offset)'
    <3>1. key_num' - 1 = key_num /\ pid' = pid /\ base_offset' = Offset(key_num)
      BY <2>1
    <3>2. QED
      BY <2>1, <2>4, <3>1 DEF ChainTo
  <2>6. QED
    BY <2>3, <2>5 DEF FoundInv
<1>7. CASE Succeed
  <2>1. /\ UNCHANGED <<index, query, key_arr_size>> /\ pc' = "leave"
        /\ result' = result \cup {pid} /\ pc = "dfs" /\ key_num = key_arr_size + 1
    BY <1>7, QueryTypes DEF Succeed, input, merging, SearchInv, AlignInv, OnPage
  <2>2. ChainTo(pid, key_arr_size, base_offset)
    <3>1. key_num - 1 = key_arr_size
      BY <2>1, QueryTypes DEF SearchInv, AlignInv
    <3>2. QED
      BY <2>1, <3>1 DEF SearchInv, FoundInv
  <2>3. Chain(pid, key_arr_size)
    BY <2>2 DEF ChainTo, Chain
  <2>4. \A p \in result : Chain(p, key_arr_size)
    BY DEF SearchInv, FoundInv
  <2>5. \A p \in result' : Chain(p, key_arr_size)
    BY <2>1, <2>3, <2>4
  <2>6. \A p \in result' : Chain(p, key_arr_size)'
    BY <2>1, <2>5 DEF Chain
  <2>7. QED
    BY <2>1, <2>6 DEF FoundInv
<1>8. CASE Skip \/ Fail \/ LeavePage \/ Finish \/ UNCHANGED vars
  BY <1>4, <1>8 DEF Skip, Fail, LeavePage, Finish, vars, input, merging, dfs
<1>9. QED
  BY <1>2, <1>3, <1>5, <1>6, <1>7, <1>8 DEF Next

\* A page that a search returns has the keywords that were looked for in their order
\* and each within match_delta of the one before, whatever pages randInt let in; with
\* no keyword repeated those are all of them.
THEOREM SearchIsSound == ASSUME Far PROVE Spec => []SearchSound
<1>1. Init => FoundInv
  BY DEF Init, FoundInv
<1>2. SearchInv => SearchSound
  <2> SUFFICES ASSUME SearchInv  PROVE SearchSound
    OBVIOUS
  <2>1. CASE pc = "read"
    BY <2>1 DEF SearchInv, AlignInv, ReadInv, SearchSound
  <2>2. CASE pc # "read"
    <3>1. IsInjective(query) => key_arr_size = Len(query)
      BY <2>2, QueryTypes DEF SearchInv, AlignInv, ReadInv
    <3>2. QED
      BY <3>1 DEF SearchInv, FoundInv, SearchSound
  <2>3. QED
    BY <2>1, <2>2
<1>3. SearchInv /\ [Next]_vars => SearchInv'
  BY StepAlign, StepFound DEF SearchInv
<1>4. Init => SearchInv
  BY <1>1, InitAlign DEF SearchInv
<1>5. QED
  BY <1>2, <1>3, <1>4, PTL DEF Spec

-----------------------------------------------------------------------------
(***************************************************************************)
(* The loops of the index builder's worker.                                *)
(***************************************************************************)
LEMMA OrderIsTotal ==
  ASSUME NEW a \in Nodes, NEW b \in Nodes, NEW c \in Nodes
  PROVE  /\ cmp_list_node(a, b) /\ cmp_list_node(b, c) => cmp_list_node(a, c)
         /\ a # b => cmp_list_node(a, b) \/ cmp_list_node(b, a)
         /\ ~ cmp_list_node(a, a)
BY NodeTypes DEF cmp_list_node

\* What insert does to a list.
LEMMA InsertIn ==
  ASSUME NEW S, NEW s \in Seq(S), NEW i0 \in 1 .. Len(s) + 1, NEW e \in S
  PROVE  /\ InsertAt(s, i0, e) \in Seq(S) /\ Len(InsertAt(s, i0, e)) = Len(s) + 1
         /\ \A m \in 1 .. Len(s) + 1 :
                InsertAt(s, i0, e)[m]
                    = IF m < i0 THEN s[m] ELSE IF m = i0 THEN e ELSE s[m - 1]
<1> DEFINE l == SubSeq(s, 1, i0 - 1)
           r == SubSeq(s, i0, Len(s))
           le == l \o <<e>>
           t == InsertAt(s, i0, e)
<1>1. /\ l \in Seq(S) /\ Len(l) = i0 - 1
      /\ \A m \in 1 .. i0 - 1 : l[m] = s[m]
  OBVIOUS
<1>2. /\ r \in Seq(S) /\ Len(r) = Len(s) + 1 - i0
      /\ \A m \in 1 .. Len(s) + 1 - i0 : r[m] = s[i0 + m - 1]
  OBVIOUS
<1>3. t = le \o r
  BY DEF InsertAt
<1>4. /\ le \in Seq(S) /\ Len(le) = i0
      /\ \A m \in 1 .. i0 : le[m] = IF m < i0 THEN s[m] ELSE e
  <2> HIDE DEF l
  <2>1. QED
    BY <1>1
<1> HIDE DEF l, r, le, t
<1>5. t \in Seq(S) /\ Len(t) = Len(s) + 1
  <2>1. le \o r \in Seq(S) /\ Len(le \o r) = Len(le) + Len(r)
    BY <1>2, <1>4, ConcatProperties, Zenon
  <2>2. QED
    BY <1>2, <1>3, <1>4, <2>1
<1>6. ASSUME NEW m \in 1 .. Len(s) + 1
      PROVE  t[m] = IF m < i0 THEN s[m] ELSE IF m = i0 THEN e ELSE s[m - 1]
  <2>1. CASE m <= i0
    BY <1>2, <1>3, <1>4, <2>1
  <2>2. CASE m > i0
    <3>1. m - i0 \in 1 .. Len(s) + 1 - i0 /\ r[m - i0] = s[i0 + (m - i0) - 1]
      BY <1>2, <2>2
    <3>2. t[m] = r[m - i0]
      BY <1>2, <1>3, <1>4, <2>2
    <3>3. i0 + (m - i0) - 1 = m - 1
      OBVIOUS
    <3>4. QED
      BY <2>2, <3>1, <3>2, <3>3
  <2>3. QED
    BY <2>1, <2>2
<1>7. QED
  BY <1>5, <1>6 DEF t

\* What erase does to it.
LEMMA RemoveFrom ==
  ASSUME NEW S, NEW s \in Seq(S), NEW i0 \in 1 .. Len(s)
  PROVE  LET t == RemoveAt(s, i0)
         IN  /\ t \in Seq(S) /\ Len(t) = Len(s) - 1
             /\ \A m \in 1 .. Len(s) - 1 : t[m] = IF m < i0 THEN s[m] ELSE s[m + 1]
<1> DEFINE l == SubSeq(s, 1, i0 - 1)
           r == SubSeq(s, i0 + 1, Len(s))
           t == RemoveAt(s, i0)
<1>1. /\ l \in Seq(S) /\ Len(l) = i0 - 1
      /\ \A m \in 1 .. i0 - 1 : l[m] = s[m]
  OBVIOUS
<1>2. /\ r \in Seq(S) /\ Len(r) = Len(s) - i0
      /\ \A m \in 1 .. Len(s) - i0 : r[m] = s[i0 + m]
  OBVIOUS
<1>3. t = l \o r
  BY DEF RemoveAt
<1> HIDE DEF l, r, t
<1>4. t \in Seq(S) /\ Len(t) = Len(s) - 1
  BY <1>1, <1>2, <1>3
<1>5. ASSUME NEW m \in 1 .. Len(s) - 1
      PROVE  t[m] = IF m < i0 THEN s[m] ELSE s[m + 1]
  <2>1. CASE m < i0
    BY <1>1, <1>2, <1>3, <2>1
  <2>2. CASE m >= i0
    <3>1. m - (i0 - 1) \in 1 .. Len(s) - i0 /\ r[m - (i0 - 1)] = s[i0 + (m - (i0 - 1))]
      BY <1>2, <2>2
    <3>2. t[m] = r[m - (i0 - 1)]
      BY <1>1, <1>2, <1>3, <2>2
    <3>3. i0 + (m - (i0 - 1)) = m + 1
      OBVIOUS
    <3>4. QED
      BY <2>2, <3>1, <3>2, <3>3
  <2>3. QED
    BY <2>1, <2>2
<1>6. QED
  BY <1>4, <1>5 DEF t

LEMMA Members ==
  ASSUME NEW S, NEW s \in Seq(S)
  PROVE  DOMAIN s = 1 .. Len(s) /\ \A m \in 1 .. Len(s) : s[m] \in ToSet(s)
BY DEF ToSet

LEMMA MergeTypes ==
  ASSUME MergeInv
  PROVE  /\ pre \in Seq(Nodes) /\ old \in Seq(Nodes) /\ list \in Seq(Nodes)
         /\ Len(pre) \in Nat /\ Len(list) \in Nat /\ it \in Nat /\ it_pre \in Nat
         /\ \A m \in 1 .. Len(pre) : pre[m] \in Nodes /\ pre[m].idWebPage = id
         /\ \A m \in 1 .. Len(list) : list[m] \in Nodes
         /\ \A n \in Others : n \in Nodes /\ n.idWebPage # id
<1>1. \A m \in 1 .. Len(pre) : pre[m] \in Nodes /\ pre[m].idWebPage = id
  BY DEF MergeInv, InputsInv
<1>2. pre \in Seq(Nodes)
  BY <1>1 DEF MergeInv, InputsInv
<1>3. QED
  BY <1>1, <1>2 DEF MergeInv, InputsInv, Others, ToSet

LEMMA InitMerge == MergeInit => MergeInv
<1> SUFFICES ASSUME MergeInit  PROVE MergeInv
  OBVIOUS
<1>1. PICK S \in SUBSET {n \in Nodes : n.idWebPage = id} : S # {} /\ pre = SortedSeq(S)
  BY DEF MergeInit
<1>2. PICK T \in SUBSET Nodes : old = SortedSeq(T) /\ page_set = PagesOf(T)
  BY DEF MergeInit
<1>3. /\ pre \in Seq(S) /\ Sorted(pre) /\ pre # <<>>
      /\ old \in Seq(T) /\ Sorted(old) /\ ToSet(old) = T
  <2>1. S \in SUBSET Nodes
    OBVIOUS
  <2>2. ToSet(pre) = S /\ ToSet(<<>>) = {}
    BY <1>1, <2>1, SortedSeqHasAll DEF ToSet
  <2>3. ToSet(old) = T
    BY <1>2, SortedSeqHasAll
  <2>4. QED
    BY <1>1, <1>2, <2>1, <2>2, <2>3, SortedSeqSorts
<1>4. pre \in Seq({n \in Nodes : n.idWebPage = id}) /\ old \in Seq(Nodes)
  BY <1>3
<1>5. it = 1 /\ it_pre = 1 /\ list = old /\ loop = "erase" /\ id \in Pages
  BY DEF MergeInit
<1>6. 1 \in 1 .. Len(list) + 1 /\ 1 \in 1 .. Len(pre) + 1 /\ 1 .. it - 1 = {}
  BY <1>4, <1>5
<1>7. QED
  BY <1>3, <1>4, <1>5, <1>6 DEF MergeInv, InputsInv, EraseInv, MergedInv, Others

LEMMA EraseKeeps ==
  ASSUME MergeInv, Erase
  PROVE  MergeInv'
<1>1. /\ loop = "erase" /\ it \in 1 .. Len(list)
      /\ UNCHANGED <<id, pre, old, it_pre, loop>>
  BY MergeTypes DEF Erase, given, MergeInv
<1>2. InputsInv'
  BY <1>1 DEF InputsInv, MergeInv
<1>3. CASE list[it].idWebPage # id
  <2>1. it' = it + 1 /\ list' = list
    BY <1>3 DEF Erase
  <2>2. it' \in 1 .. Len(list') + 1
    BY <1>1, <2>1, MergeTypes
  <2>3. \A m \in 1 .. it' - 1 : list[m].idWebPage # id
    BY <1>1, <1>3, <2>1, MergeTypes DEF MergeInv, EraseInv
  <2>4. EraseInv'
    BY <1>1, <2>1, <2>3 DEF MergeInv, EraseInv, Others
  <2>5. QED
    BY <1>1, <1>2, <2>1, <2>2, <2>4 DEF MergeInv, MergedInv
<1>4. CASE list[it].idWebPage = id
  <2>1. list' = RemoveAt(list, it) /\ it' = it
    BY <1>4 DEF Erase
  <2>2. /\ list' \in Seq(Nodes) /\ Len(list') = Len(list) - 1
        /\ \A m \in 1 .. Len(list) - 1 :
               list'[m] = IF m < it THEN list[m] ELSE list[m + 1]
    BY <1>1, <2>1, MergeTypes, RemoveFrom, Zenon
  <2>3. it' \in 1 .. Len(list') + 1
    BY <1>1, <2>1, <2>2, MergeTypes
  <2>4. Sorted(list')
    <3>1. ASSUME NEW m \in 1 .. Len(list'), NEW n \in 1 .. Len(list'), m < n
          PROVE  cmp_list_node(list'[m], list'[n])
      <4> DEFINE Was(x) == IF x < it THEN x ELSE x + 1
      <4>1. Was(m) \in 1 .. Len(list) /\ Was(n) \in 1 .. Len(list) /\ Was(m) < Was(n)
        BY <1>1, <2>2, <3>1, MergeTypes
      <4>2. list'[m] = list[Was(m)] /\ list'[n] = list[Was(n)]
        BY <2>2, MergeTypes
      <4> HIDE DEF Was
      <4>3. QED
        BY <4>1, <4>2 DEF MergeInv, Sorted
    <3>2. QED
      BY <2>2, <3>1 DEF Sorted
  <2>5. ToSet(list') \subseteq ToSet(list)
    <3>1. ASSUME NEW m \in 1 .. Len(list')  PROVE list'[m] \in ToSet(list)
      <4>1. m \in 1 .. Len(list) /\ m + 1 \in 1 .. Len(list)
        BY <2>2, MergeTypes
      <4>2. list[m] \in ToSet(list) /\ list[m + 1] \in ToSet(list)
        BY <4>1, MergeTypes, Members
      <4>3. QED
        BY <2>2, <4>2
    <3>2. QED
      BY <2>2, <3>1 DEF ToSet
  <2>6. Others \subseteq ToSet(list')
    <3>1. SUFFICES ASSUME NEW n \in Others  PROVE n \in ToSet(list')
      OBVIOUS
    <3>2. PICK m \in 1 .. Len(list) : list[m] = n
      BY <1>1, MergeTypes DEF MergeInv, EraseInv, ToSet
    <3>3. m # it
      BY <1>4, <3>2, MergeTypes
    <3>4. CASE m < it
      <4>1. m \in 1 .. Len(list')
        BY <1>1, <2>2, <3>4, MergeTypes
      <4>2. list'[m] = n
        BY <2>2, <3>2, <3>4, <4>1
      <4>3. QED
        BY <2>2, <4>1, <4>2 DEF ToSet
    <3>5. CASE m > it
      <4>1. m - 1 \in 1 .. Len(list') /\ ~ (m - 1 < it) /\ (m - 1) + 1 = m
        BY <1>1, <2>2, <3>5, MergeTypes
      <4>2. list'[m - 1] = n
        BY <2>2, <3>2, <4>1
      <4>3. QED
        BY <2>2, <4>1, <4>2 DEF ToSet
    <3>6. QED
      BY <1>1, <3>3, <3>4, <3>5, MergeTypes
  <2>7. \A m \in 1 .. it' - 1 : list'[m].idWebPage # id
    BY <1>1, <2>1, <2>2, MergeTypes DEF MergeInv, EraseInv
  <2>8. EraseInv'
    BY <1>1, <2>5, <2>6, <2>7 DEF MergeInv, EraseInv, Others
  <2>9. QED
    BY <1>1, <1>2, <2>2, <2>3, <2>4, <2>8 DEF MergeInv, MergedInv
<1>5. QED
  BY <1>3, <1>4

\* All of the list was looked at: nothing of the page is left.
LEMMA ErasedKeeps ==
  ASSUME MergeInv, Erased
  PROVE  MergeInv'
<1>1. /\ loop = "erase" /\ loop' = "merge" /\ it > Len(list) /\ it' = 1 /\ it_pre = 1
      /\ UNCHANGED <<id, pre, old, list, it_pre>>
  BY DEF Erased, given, MergeInv, EraseInv
<1>2. InputsInv'
  BY <1>1 DEF InputsInv, MergeInv
<1>3. ToSet(list) = Others
  <2>1. ASSUME NEW m \in 1 .. Len(list)  PROVE list[m] \in Others
    <3>1. m \in 1 .. it - 1
      BY <1>1, MergeTypes
    <3>2. list[m].idWebPage # id
      BY <1>1, <3>1 DEF MergeInv, EraseInv
    <3>3. list[m] \in ToSet(old)
      BY <1>1, MergeTypes, Members DEF MergeInv, EraseInv
    <3>4. QED
      BY <3>2, <3>3 DEF Others
  <2>2. ToSet(list) \subseteq Others
    BY <2>1, MergeTypes DEF ToSet
  <2>3. QED
    BY <1>1, <2>2 DEF MergeInv, EraseInv
<1>4. {pre'[m] : m \in 1 .. it_pre' - 1} = {} /\ 1 .. it' - 1 = {}
  BY <1>1
<1>5. MergedInv'
  BY <1>1, <1>3, <1>4 DEF MergedInv, Others
<1>6. Behind(it - 1)'
  BY <1>4 DEF Behind
<1>7. it' \in 1 .. Len(list') + 1
  BY <1>1, MergeTypes
<1>8. QED
  BY <1>1, <1>2, <1>5, <1>6, <1>7 DEF MergeInv, EraseInv

\* One more posting is in the list.
LEMMA OneMerged ==
  ASSUME MergeInv, loop # "erase", loop' # "erase", it_pre \in 1 .. Len(pre),
         it_pre' = it_pre + 1, UNCHANGED <<id, pre, old>>,
         ToSet(list') = ToSet(list) \cup {pre[it_pre]}
  PROVE  MergedInv'
<1>1. {pre[m] : m \in 1 .. it_pre' - 1} = {pre[m] : m \in 1 .. it_pre - 1} \cup {pre[it_pre]}
  <2>1. 1 .. it_pre' - 1 = 1 .. it_pre - 1 \cup {it_pre}
    BY MergeTypes
  <2>2. QED
    BY <2>1
<1>2. QED
  BY <1>1 DEF MergeInv, MergedInv, Others

LEMMA MergeStepKeeps ==
  ASSUME MergeInv, MergeStep
  PROVE  MergeInv'
<1>1. /\ loop = "merge" /\ it \in 1 .. Len(list) /\ it_pre \in 1 .. Len(pre)
      /\ UNCHANGED <<id, pre, old, loop>>
  BY MergeTypes DEF MergeStep, given, MergeInv
<1> DEFINE e == pre[it_pre]
<1>2. InputsInv'
  BY <1>1 DEF InputsInv, MergeInv
<1>3. /\ e \in Nodes /\ e.idWebPage = id
      /\ \A m \in it_pre .. Len(pre) : m \in 1 .. Len(pre) /\ (m = it_pre \/ cmp_list_node(e, pre[m]))
  <2>1. \A m \in it_pre .. Len(pre) : m \in 1 .. Len(pre) /\ (m = it_pre \/ it_pre < m)
    BY <1>1, MergeTypes
  <2>2. DOMAIN pre = 1 .. Len(pre)
    BY MergeTypes
  <2>3. QED
    BY <1>1, <2>1, <2>2, MergeTypes DEF MergeInv, InputsInv, Sorted
<1>4. \A l \in 1 .. it - 1 : cmp_list_node(list[l], e)
  <2>1. it_pre \in it_pre .. Len(pre)
    BY <1>1, MergeTypes
  <2>2. QED
    BY <1>1, <2>1 DEF MergeInv, Behind
<1>5. CASE cmp_list_node(e, list[it])
  <2>1. list' = InsertAt(list, it, e) /\ it_pre' = it_pre + 1 /\ it' = it
    BY <1>5 DEF MergeStep
  <2>2. /\ list' \in Seq(Nodes) /\ Len(list') = Len(list) + 1
        /\ \A m \in 1 .. Len(list) + 1 :
               list'[m] = IF m < it THEN list[m] ELSE IF m = it THEN e ELSE list[m - 1]
    <3>1. it \in 1 .. Len(list) + 1 /\ list \in Seq(Nodes) /\ e \in Nodes
      BY <1>1, <1>3, MergeTypes
    <3> HIDE DEF e
    <3>2. /\ InsertAt(list, it, e) \in Seq(Nodes)
          /\ Len(InsertAt(list, it, e)) = Len(list) + 1
          /\ \A m \in 1 .. Len(list) + 1 :
                 InsertAt(list, it, e)[m]
                     = IF m < it THEN list[m] ELSE IF m = it THEN e ELSE list[m - 1]
      <4>1. PICK s, i0, x : s = list /\ i0 = it /\ x = e
        OBVIOUS
      <4>2. i0 \in 1 .. Len(s) + 1 /\ s \in Seq(Nodes) /\ x \in Nodes
        BY <3>1, <4>1, Zenon
      <4>3. /\ InsertAt(s, i0, x) \in Seq(Nodes) /\ Len(InsertAt(s, i0, x)) = Len(s) + 1
            /\ \A m \in 1 .. Len(s) + 1 :
                   InsertAt(s, i0, x)[m]
                       = IF m < i0 THEN s[m] ELSE IF m = i0 THEN x ELSE s[m - 1]
        BY <4>2, InsertIn
      <4>4. QED
        BY <4>1, <4>3, Zenon
    <3>3. QED
      BY <2>1, <3>2, Zenon
  <2> HIDE DEF e
  <2>3. it' \in 1 .. Len(list') + 1 /\ it_pre' \in 1 .. Len(pre') + 1
    BY <1>1, <2>1, <2>2, MergeTypes
  <2>4. Sorted(list')
    <3>1. \A m \in it .. Len(list) : cmp_list_node(e, list[m])
      <4>1. SUFFICES ASSUME NEW m \in it .. Len(list)  PROVE cmp_list_node(e, list[m])
        OBVIOUS
      <4>2. m \in 1 .. Len(list) /\ (m = it \/ it < m) /\ DOMAIN list = 1 .. Len(list)
        BY <1>1, MergeTypes
      <4>3. m = it \/ cmp_list_node(list[it], list[m])
        BY <1>1, <4>2 DEF MergeInv, Sorted
      <4>4. QED
        BY <1>1, <1>3, <1>5, <4>2, <4>3, MergeTypes, OrderIsTotal
    <3>2. ASSUME NEW m \in 1 .. Len(list'), NEW n \in 1 .. Len(list'), m < n
          PROVE  cmp_list_node(list'[m], list'[n])
      <4>1. m \in 1 .. Len(list) + 1 /\ n \in 1 .. Len(list) + 1
        BY <2>2
      <4> DEFINE Was(x) == IF x < it THEN x ELSE x - 1
      <4>2. CASE m # it /\ n # it
        <5>1. Was(m) \in 1 .. Len(list) /\ Was(n) \in 1 .. Len(list) /\ Was(m) < Was(n)
          BY <1>1, <3>2, <4>1, <4>2, MergeTypes
        <5>2. list'[m] = list[Was(m)] /\ list'[n] = list[Was(n)]
          BY <2>2, <4>1, <4>2
        <5> HIDE DEF Was
        <5>3. DOMAIN list = 1 .. Len(list)
          BY MergeTypes
        <5>4. QED
          BY <5>1, <5>2, <5>3 DEF MergeInv, Sorted
      <4>3. CASE m = it
        <5>1. list'[m] = e /\ n - 1 \in it .. Len(list) /\ list'[n] = list[n - 1]
          BY <1>1, <2>2, <3>2, <4>1, <4>3, MergeTypes
        <5>2. QED
          BY <3>1, <5>1
      <4>4. CASE n = it
        <5>1. list'[n] = e /\ m \in 1 .. it - 1 /\ list'[m] = list[m]
          BY <1>1, <2>2, <3>2, <4>1, <4>4, MergeTypes
        <5>2. QED
          BY <1>4, <5>1
      <4>5. QED
        BY <4>2, <4>3, <4>4
    <3>3. DOMAIN list' = 1 .. Len(list')
      BY <2>2
    <3>4. QED
      BY <3>2, <3>3 DEF Sorted
  <2>5. ToSet(list') = ToSet(list) \cup {e}
    <3>1. DOMAIN list' = 1 .. Len(list) + 1 /\ DOMAIN list = 1 .. Len(list)
      BY <2>2, MergeTypes
    <3>2. ASSUME NEW m \in 1 .. Len(list) + 1  PROVE list'[m] \in ToSet(list) \cup {e}
      <4>1. m < it => m \in 1 .. Len(list)
        BY <1>1, MergeTypes
      <4>2. m > it => m - 1 \in 1 .. Len(list)
        BY <1>1, MergeTypes
      <4>3. m < it \/ m = it \/ m > it
        BY MergeTypes
      <4>4. QED
        BY <2>2, <3>1, <4>1, <4>2, <4>3, MergeTypes DEF ToSet
    <3>3. e \in ToSet(list')
      <4>1. it \in 1 .. Len(list) + 1 /\ ~ (it < it)
        BY <1>1, MergeTypes
      <4>2. list'[it] = e
        BY <2>2, <4>1
      <4>3. QED
        BY <3>1, <4>1, <4>2 DEF ToSet
    <3>4. ASSUME NEW m \in 1 .. Len(list)  PROVE list[m] \in ToSet(list')
      <4>1. CASE m < it
        <5>1. m \in 1 .. Len(list) + 1
          BY MergeTypes
        <5>2. list'[m] = list[m]
          BY <2>2, <4>1, <5>1
        <5>3. QED
          BY <3>1, <5>1, <5>2 DEF ToSet
      <4>2. CASE ~ (m < it)
        <5>1. m + 1 \in 1 .. Len(list) + 1 /\ ~ (m + 1 < it) /\ m + 1 # it /\ (m + 1) - 1 = m
          BY <4>2, MergeTypes
        <5>2. list'[m + 1] = list[m]
          BY <2>2, <5>1
        <5>3. QED
          BY <3>1, <5>1, <5>2 DEF ToSet
      <4>3. QED
        BY <4>1, <4>2
    <3>5. ToSet(list') \subseteq ToSet(list) \cup {e}
      BY <3>1, <3>2 DEF ToSet
    <3>6. ToSet(list) \subseteq ToSet(list')
      BY <3>1, <3>4 DEF ToSet
    <3>7. QED
      BY <3>3, <3>5, <3>6
  <2>6. MergedInv'
    BY <1>1, <2>1, <2>5, OneMerged DEF e
  <2>7. Behind(it - 1)'
    <3>1. SUFFICES ASSUME NEW l \in 1 .. it - 1, NEW m \in it_pre + 1 .. Len(pre)
                   PROVE  cmp_list_node(list'[l], pre[m])
      BY <1>1, <2>1 DEF Behind
    <3>2. l \in 1 .. Len(list) + 1 /\ l < it /\ m \in it_pre .. Len(pre)
      BY <1>1, MergeTypes
    <3>3. list'[l] = list[l]
      BY <2>2, <3>2
    <3>4. QED
      BY <1>1, <3>2, <3>3 DEF MergeInv, Behind
  <2>8. QED
    BY <1>1, <1>2, <2>2, <2>3, <2>4, <2>6, <2>7 DEF MergeInv, EraseInv
<1>6. CASE ~ cmp_list_node(e, list[it])
  <2>1. list' = list /\ it_pre' = it_pre /\ it' = it + 1
    BY <1>6 DEF MergeStep
  <2>2. it' \in 1 .. Len(list') + 1
    BY <1>1, <2>1, MergeTypes
  <2> HIDE DEF e
  <2>3. list[it] # e
    <3>1. list[it] \in Others \cup {pre[m] : m \in 1 .. it_pre - 1}
      BY <1>1, MergeTypes DEF MergeInv, MergedInv, ToSet
    <3>2. CASE list[it] \in Others
      BY <1>3, <3>2, MergeTypes
    <3>3. ASSUME NEW m \in 1 .. it_pre - 1, list[it] = pre[m]  PROVE list[it] # e
      <4>1. m \in DOMAIN pre /\ it_pre \in DOMAIN pre /\ m < it_pre
        BY <1>1, MergeTypes
      <4>2. cmp_list_node(pre[m], e)
        BY <4>1 DEF MergeInv, InputsInv, Sorted, e
      <4>3. QED
        BY <1>3, <3>3, <4>2, OrderIsTotal
    <3>4. QED
      BY <3>1, <3>2, <3>3
  <2>4. cmp_list_node(list[it], e)
    BY <1>1, <1>3, <1>6, <2>3, MergeTypes, OrderIsTotal
  <2>5. Behind(it - 1)'
    <3>1. SUFFICES ASSUME NEW l \in 1 .. it, NEW m \in it_pre .. Len(pre)
                   PROVE  cmp_list_node(list[l], pre[m])
      <4>1. it' - 1 = it
        BY <2>1, MergeTypes
      <4>2. QED
        BY <1>1, <2>1, <4>1 DEF Behind
    <3>2. CASE l = it
      <4>1. m = it_pre \/ cmp_list_node(e, pre[m])
        BY <1>3
      <4>2. list[it] \in Nodes /\ pre[m] \in Nodes
        BY <1>1, <1>3, MergeTypes
      <4>3. QED
        BY <1>3, <2>4, <3>2, <4>1, <4>2, OrderIsTotal DEF e
    <3>3. CASE l # it
      <4>1. l \in 1 .. it - 1
        BY <3>3, MergeTypes
      <4>2. QED
        BY <1>1, <4>1 DEF MergeInv, Behind
    <3>4. QED
      BY <3>2, <3>3
  <2>6. MergedInv'
    BY <1>1, <2>1 DEF MergeInv, MergedInv, Others
  <2>7. QED
    BY <1>1, <1>2, <2>1, <2>2, <2>5, <2>6 DEF MergeInv, EraseInv
<1>7. QED
  BY <1>5, <1>6

LEMMA MergedKeeps ==
  ASSUME MergeInv, Merged
  PROVE  MergeInv'
<1>1. /\ loop = "merge" /\ loop' = "append" /\ (it_pre > Len(pre) \/ it > Len(list))
      /\ UNCHANGED <<id, pre, old, list, it, it_pre>>
  BY DEF Merged, given
<1>2. InputsInv'
  BY <1>1 DEF InputsInv, MergeInv
<1>3. MergedInv'
  BY <1>1 DEF MergeInv, MergedInv, Others
<1>4. Behind(Len(list))'
  <2>1. SUFFICES ASSUME NEW l \in 1 .. Len(list), NEW m \in it_pre .. Len(pre)
                 PROVE  cmp_list_node(list[l], pre[m])
    BY <1>1 DEF Behind
  <2>2. l \in 1 .. it - 1
    BY <1>1, MergeTypes
  <2>3. QED
    BY <1>1, <2>2 DEF MergeInv, Behind
<1>5. QED
  BY <1>1, <1>2, <1>3, <1>4 DEF MergeInv, EraseInv

LEMMA AppendRestKeeps ==
  ASSUME MergeInv, AppendRest
  PROVE  MergeInv'
<1>1. /\ loop = "append" /\ it_pre \in 1 .. Len(pre) /\ it_pre' = it_pre + 1
      /\ list' = Append(list, pre[it_pre])
      /\ UNCHANGED <<id, pre, old, it, loop>>
  BY MergeTypes DEF AppendRest, given, MergeInv
<1> DEFINE e == pre[it_pre]
<1>2. InputsInv'
  BY <1>1 DEF InputsInv, MergeInv
<1>3. /\ list' \in Seq(Nodes) /\ Len(list') = Len(list) + 1
      /\ list'[Len(list) + 1] = e /\ \A m \in 1 .. Len(list) : list'[m] = list[m]
  BY <1>1, MergeTypes
<1>4. \A l \in 1 .. Len(list) : cmp_list_node(list[l], e)
  <2>1. it_pre \in it_pre .. Len(pre)
    BY <1>1, MergeTypes
  <2>2. QED
    BY <1>1, <2>1 DEF MergeInv, Behind
<1>5. Sorted(list')
  <2>1. ASSUME NEW m \in 1 .. Len(list'), NEW n \in 1 .. Len(list'), m < n
        PROVE  cmp_list_node(list'[m], list'[n])
    <3>1. m \in 1 .. Len(list) /\ (n \in 1 .. Len(list) \/ n = Len(list) + 1)
      BY <1>3, <2>1, MergeTypes
    <3>2. CASE n = Len(list) + 1
      <4> HIDE DEF e
      <4>1. QED
        BY <1>3, <1>4, <3>1, <3>2
    <3>3. CASE n \in 1 .. Len(list)
      <4>1. DOMAIN list = 1 .. Len(list)
        BY MergeTypes, Members
      <4>2. QED
        BY <1>3, <2>1, <3>1, <3>3, <4>1 DEF MergeInv, Sorted
    <3>4. QED
      BY <3>1, <3>2, <3>3
  <2>2. DOMAIN list' = 1 .. Len(list')
    BY <1>3, Members
  <2>3. QED
    BY <2>1, <2>2 DEF Sorted
<1>6. ToSet(list') = ToSet(list) \cup {e}
  <2>1. DOMAIN list' = 1 .. Len(list) + 1 /\ DOMAIN list = 1 .. Len(list)
    BY <1>3, MergeTypes, Members
  <2>2. 1 .. Len(list) + 1 = 1 .. Len(list) \cup {Len(list) + 1}
    BY MergeTypes
  <2> HIDE DEF e
  <2>3. QED
    BY <1>3, <2>1, <2>2 DEF ToSet
<1>7. MergedInv'
  BY <1>1, <1>6, OneMerged
<1>8. Behind(Len(list))'
  <2>1. SUFFICES ASSUME NEW l \in 1 .. Len(list'), NEW m \in it_pre + 1 .. Len(pre)
                 PROVE  cmp_list_node(list'[l], pre[m])
    BY <1>1 DEF Behind
  <2>2. /\ l \in 1 .. Len(list) \/ l = Len(list) + 1
        /\ m \in it_pre .. Len(pre) /\ m \in 1 .. Len(pre) /\ it_pre < m
    BY <1>1, <1>3, MergeTypes
  <2>3. CASE l \in 1 .. Len(list)
    BY <1>1, <1>3, <2>2, <2>3 DEF MergeInv, Behind
  <2>4. CASE l = Len(list) + 1
    <3>1. DOMAIN pre = 1 .. Len(pre)
      BY MergeTypes, Members
    <3>2. cmp_list_node(e, pre[m])
      BY <1>1, <2>2, <3>1 DEF MergeInv, InputsInv, Sorted
    <3>3. QED
      BY <1>3, <2>4, <3>2
  <2>5. QED
    BY <2>2, <2>3, <2>4
<1>9. it' \in 1 .. Len(list') + 1 /\ it_pre' \in 1 .. Len(pre') + 1
  <2>1. it \in 1 .. Len(list) + 1
    BY DEF MergeInv
  <2>2. QED
    BY <1>1, <1>3, <2>1, MergeTypes
<1>10. QED
  BY <1>1, <1>2, <1>3, <1>5, <1>7, <1>8, <1>9 DEF MergeInv, EraseInv

LEMMA StepMerge == MergeInv /\ [MergeNext]_mergeVars => MergeInv'
<1> SUFFICES ASSUME MergeInv, [MergeNext]_mergeVars  PROVE MergeInv'
  OBVIOUS
<1>1. CASE Erase
  BY <1>1, EraseKeeps
<1>2. CASE Erased
  BY <1>2, ErasedKeeps
<1>3. CASE MergeStep
  BY <1>3, MergeStepKeeps
<1>4. CASE Merged
  BY <1>4, MergedKeeps
<1>5. CASE AppendRest
  BY <1>5, AppendRestKeeps
<1>6. CASE Appended
  <2>1. /\ loop' = "done" /\ it_pre = Len(pre) + 1 /\ loop = "append"
        /\ UNCHANGED <<id, pre, old, list, it, it_pre>>
    BY <1>6, MergeTypes DEF Appended, given, MergeInv
  <2>2. InputsInv' /\ MergedInv'
    BY <2>1 DEF InputsInv, MergedInv, MergeInv, Others
  <2>3. QED
    BY <2>1, <2>2 DEF MergeInv, EraseInv
<1>7. CASE UNCHANGED mergeVars
  BY <1>7 DEF mergeVars, MergeInv, InputsInv, EraseInv, MergedInv, Behind, Others
<1>8. QED
  BY <1>1, <1>2, <1>3, <1>4, <1>5, <1>6, <1>7 DEF MergeNext

LEMMA InitPageSet == MergeInit => PageSetInv
<1> SUFFICES ASSUME MergeInit  PROVE PageSetInv
  OBVIOUS
<1>1. PICK T \in SUBSET Nodes : old = SortedSeq(T) /\ page_set = PagesOf(T)
  BY DEF MergeInit
<1>2. loop = "erase" /\ ToSet(old) = T
  BY <1>1, SortedSeqHasAll DEF MergeInit
<1>3. QED
  BY <1>1, <1>2 DEF PageSetInv

LEMMA StepPageSet == MergeInv /\ PageSetInv /\ [MergeNext]_mergeVars => PageSetInv'
<1> SUFFICES ASSUME MergeInv, PageSetInv, [MergeNext]_mergeVars  PROVE PageSetInv'
  OBVIOUS
<1>1. CASE Erased
  <2>1. /\ page_set' = page_set \ {id} /\ loop' = "merge" /\ UNCHANGED <<id, old>>
        /\ page_set = PagesOf(ToSet(old))
    BY <1>1 DEF Erased, given, PageSetInv
  <2>2. PagesOf(ToSet(old)) \ {id} = PagesOf(Others)
    BY DEF PagesOf, Others
  <2>3. QED
    BY <2>1, <2>2 DEF PageSetInv, Others
<1>2. CASE Appended
  <2>1. /\ page_set' = page_set \cup {id} /\ loop' = "done" /\ UNCHANGED <<id, old>>
        /\ page_set = PagesOf(Others)
    BY <1>2 DEF Appended, given, PageSetInv
  <2>2. QED
    BY <2>1 DEF PageSetInv, Others
<1>3. CASE Erase \/ MergeStep \/ Merged \/ AppendRest \/ UNCHANGED mergeVars
  <2>1. /\ UNCHANGED <<id, old, page_set>>
        /\ loop' = loop \/ (loop = "merge" /\ loop' = "append")
    BY <1>3 DEF Erase, MergeStep, Merged, AppendRest, given, mergeVars
  <2>2. QED
    BY <2>1 DEF PageSetInv, Others
<1>4. QED
  BY <1>1, <1>2, <1>3 DEF MergeNext

\* When the loops are done, page_set is exactly the pages of the list: the safety half
\* of PageSetMatches, for every list.
THEOREM PageSetIsRight == MergeSpec => []PageSetIsTrue
<1>1. MergeInv /\ PageSetInv => PageSetIsTrue
  <2>1. SUFFICES ASSUME MergeInv, PageSetInv, loop = "done"
                 PROVE  page_set = PagesOf(ToSet(list))
    BY DEF PageSetIsTrue
  <2>2. it_pre - 1 = Len(pre) /\ Len(pre) # 0
    BY <2>1, MergeTypes DEF MergeInv, InputsInv
  <2>3. ToSet(list) = Others \cup {pre[m] : m \in 1 .. Len(pre)}
    BY <2>1, <2>2 DEF MergeInv, MergedInv
  <2>4. PagesOf(ToSet(list)) = PagesOf(Others) \cup {id}
    <3>1. 1 \in 1 .. Len(pre) /\ \A m \in 1 .. Len(pre) : pre[m].idWebPage = id
      BY <2>1, <2>2, MergeTypes
    <3> DEFINE News == {pre[m] : m \in 1 .. Len(pre)}
    <3>2. ToSet(list) = Others \cup News
      BY <2>3
    <3>3. PagesOf(Others \cup News) = PagesOf(Others) \cup PagesOf(News)
      BY Zenon DEF PagesOf
    <3>4. pre[1] \in News /\ \A n \in News : n.idWebPage = id
      BY <3>1
    <3>5. PagesOf(News) = {id}
      <4> HIDE DEF News
      <4>1. PagesOf(News) \subseteq {id}
        BY <3>4 DEF PagesOf
      <4>2. id \in PagesOf(News)
        BY <3>4 DEF PagesOf
      <4>3. QED
        BY <4>1, <4>2
    <3>6. QED
      BY <3>2, <3>3, <3>5
  <2>5. QED
    BY <2>1, <2>4 DEF PageSetInv
<1>2. QED
  BY <1>1, InitMerge, StepMerge, InitPageSet, StepPageSet, PTL DEF MergeSpec

\* For every list read from disk and every list of a page's postings: when the worker's
\* loops are done the list is sorted, and has what the other pages had and the page's new
\* postings, as IndexBuilder's Merge takes for granted.
THEOREM MergeMerges == MergeSpec => []MergeIsSortedUnion
<1>1. MergeInv => MergeIsSortedUnion
  <2>1. SUFFICES ASSUME MergeInv, loop = "done"
                 PROVE  Sorted(list) /\ ToSet(list) = Others \cup ToSet(pre)
    BY DEF MergeIsSortedUnion, Others
  <2>2. it_pre - 1 = Len(pre) /\ DOMAIN pre = 1 .. Len(pre)
    BY <2>1, MergeTypes, Members DEF MergeInv
  <2>3. ToSet(pre) = {pre[m] : m \in 1 .. it_pre - 1}
    BY <2>2 DEF ToSet
  <2>4. QED
    BY <2>1, <2>3 DEF MergeInv, MergedInv
<1>2. QED
  BY <1>1, InitMerge, StepMerge, PTL DEF MergeSpec
=============================================================================
