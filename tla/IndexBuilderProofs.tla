------------------------- MODULE IndexBuilderProofs -------------------------
(***************************************************************************)
(* Proofs about IndexBuilder: for any number of builders, keys, pages,     *)
(* refused statements, crashes and files of one second, the index on disk  *)
(* is whole and true, current and forgets no page, but for the rows that   *)
(* two builders were at at once or a file of which was opened again.       *)
(***************************************************************************)
EXTENDS IndexBuilder, TLAPS

\* A worker's variable is changed for one builder and one key.
LEMMA OneWorker ==
  ASSUME NEW V, NEW f \in [Builders -> [Keys -> V]], NEW b \in Builders, NEW k \in Keys,
         NEW v \in V
  PROVE  /\ [f EXCEPT ![b][k] = v] \in [Builders -> [Keys -> V]]
         /\ [f EXCEPT ![b][k] = v][b][k] = v
         /\ \A c \in Builders, j \in Keys :
                c # b \/ j # k => [f EXCEPT ![b][k] = v][c][j] = f[c][j]
OBVIOUS

\* The threads of some builders are gone.
LEMMA NoWorkers ==
  ASSUME NEW V, NEW f \in [Builders -> [Keys -> V]], NEW bs, NEW v \in V
  PROVE  /\ Reset(f, bs, v) \in [Builders -> [Keys -> V]]
         /\ \A c \in Builders, j \in Keys :
                Reset(f, bs, v)[c][j] = IF c \in bs THEN v ELSE f[c][j]
BY DEF Reset

LEMMA Constants ==
  /\ None \notin Messages /\ None \notin Names
  /\ \A m \in Messages : m.keys \subseteq Keys /\ m.id \in PageIds
  /\ \A k \in Keys : RowOf[k] \in Rows
  /\ \A m \in Messages : \A k \in m.keys :
         [id |-> m.id, version |-> m.version, key |-> k] \in Postings
<1>1. 0 .. MaxTime \subseteq Nat
  BY IndexBuilderAssumption
<1>2. None \notin Names
  BY <1>1, IndexBuilderAssumption DEF Names
<1>3. \A m \in Messages : m.keys \subseteq Keys
  BY IndexBuilderAssumption
<1>4. QED
  BY <1>2, <1>3, IndexBuilderAssumption DEF PageIds, Rows, Postings

\* The parts of the type invariant.
StoreTypes ==
    /\ path \in [Rows -> Names \cup {None}]
    /\ files \in [Names -> [kind : {"absent", "open", "whole"}, list : SUBSET Postings]]
    /\ now \in 0 .. MaxTime

BuilderTypes ==
    /\ msg \in [Builders -> Messages \cup {None}]
    /\ todo \in [Builders -> SUBSET Keys]
    /\ batch \in [Builders -> SUBSET Keys]

WorkerTypes ==
    /\ wpc \in [Builders -> [Keys -> Pcs]]
    /\ wpath \in [Builders -> [Keys -> Names \cup {None}]]
    /\ wlist \in [Builders -> [Keys -> SUBSET Postings]]
    /\ wfile \in [Builders -> [Keys -> Names \cup {None}]]

GhostTypes ==
    /\ delivered \in [Messages -> 0 .. MaxDeliveries]
    /\ latest \in [PageIds -> Messages \cup {None}]
    /\ missed \subseteq PageIds \X Keys
    /\ raced \subseteq Rows /\ twice \subseteq PageIds /\ reopened \subseteq Names
    /\ crashes \in 0 .. MaxCrashes

LEMMA Parts == TypeOK <=> StoreTypes /\ BuilderTypes /\ WorkerTypes /\ GhostTypes
BY DEF TypeOK, StoreTypes, BuilderTypes, WorkerTypes, GhostTypes

LEMMA InitTypes == Init => TypeOK
<1> SUFFICES ASSUME Init  PROVE TypeOK
  OBVIOUS
<1> USE IndexBuilderAssumption DEF Init
<1>1. StoreTypes
  BY DEF StoreTypes, Absent
<1>2. BuilderTypes
  BY DEF BuilderTypes
<1>3. WorkerTypes
  BY DEF WorkerTypes, Everywhere, Pcs
<1>4. GhostTypes
  BY DEF GhostTypes
<1>5. QED
  BY <1>1, <1>2, <1>3, <1>4, Parts

\* A worker moves on, and its row, list and file may change.
Works(b, k, to) ==
    /\ wpc' = [wpc EXCEPT ![b][k] = to]
    /\ wpath' = wpath \/ \E v \in Names \cup {None} : wpath' = [wpath EXCEPT ![b][k] = v]
    /\ wlist' = wlist \/ \E v \in SUBSET Postings : wlist' = [wlist EXCEPT ![b][k] = v]
    /\ wfile' = wfile \/ \E v \in Names : wfile' = [wfile EXCEPT ![b][k] = v]

LEMMA WorksTypes ==
  ASSUME WorkerTypes, NEW b \in Builders, NEW k \in Keys, NEW to \in Pcs, Works(b, k, to)
  PROVE  /\ WorkerTypes'
         /\ wpc'[b][k] = to
         /\ \A c \in Builders, j \in Keys : c # b \/ j # k =>
                /\ wpc'[c][j] = wpc[c][j] /\ wpath'[c][j] = wpath[c][j]
                /\ wlist'[c][j] = wlist[c][j] /\ wfile'[c][j] = wfile[c][j]
<1>1. /\ wpc' \in [Builders -> [Keys -> Pcs]] /\ wpc'[b][k] = to
      /\ \A c \in Builders, j \in Keys : c # b \/ j # k => wpc'[c][j] = wpc[c][j]
  BY OneWorker DEF WorkerTypes, Works
<1> DEFINE Names0 == Names \cup {None}
           Lists == SUBSET Postings
<1>2. /\ wpath \in [Builders -> [Keys -> Names0]]
      /\ wfile \in [Builders -> [Keys -> Names0]]
      /\ wlist \in [Builders -> [Keys -> Lists]]
      /\ wpath' = wpath \/ \E v \in Names0 : wpath' = [wpath EXCEPT ![b][k] = v]
      /\ wlist' = wlist \/ \E v \in Lists : wlist' = [wlist EXCEPT ![b][k] = v]
      /\ wfile' = wfile \/ \E v \in Names0 : wfile' = [wfile EXCEPT ![b][k] = v]
  BY DEF WorkerTypes, Works
<1> HIDE DEF Names0, Lists
<1>3. /\ wpath' \in [Builders -> [Keys -> Names0]]
      /\ \A c \in Builders, j \in Keys : c # b \/ j # k => wpath'[c][j] = wpath[c][j]
  <2>1. CASE wpath' = wpath
    BY <1>2, <2>1
  <2>2. CASE \E v \in Names0 : wpath' = [wpath EXCEPT ![b][k] = v]
    <3>1. PICK v \in Names0 : wpath' = [wpath EXCEPT ![b][k] = v]
      BY <2>2
    <3>2. QED
      BY <1>2, <3>1, OneWorker
  <2>3. QED
    BY <1>2, <2>1, <2>2
<1>4. /\ wlist' \in [Builders -> [Keys -> Lists]]
      /\ \A c \in Builders, j \in Keys : c # b \/ j # k => wlist'[c][j] = wlist[c][j]
  <2>1. CASE wlist' = wlist
    BY <1>2, <2>1
  <2>2. CASE \E v \in Lists : wlist' = [wlist EXCEPT ![b][k] = v]
    <3>1. PICK v \in Lists : wlist' = [wlist EXCEPT ![b][k] = v]
      BY <2>2
    <3>2. QED
      BY <1>2, <3>1, OneWorker
  <2>3. QED
    BY <1>2, <2>1, <2>2
<1>5. /\ wfile' \in [Builders -> [Keys -> Names0]]
      /\ \A c \in Builders, j \in Keys : c # b \/ j # k => wfile'[c][j] = wfile[c][j]
  <2>1. CASE wfile' = wfile
    BY <1>2, <2>1
  <2>2. CASE \E v \in Names0 : wfile' = [wfile EXCEPT ![b][k] = v]
    <3>1. PICK v \in Names0 : wfile' = [wfile EXCEPT ![b][k] = v]
      BY <2>2
    <3>2. QED
      BY <1>2, <3>1, OneWorker
  <2>3. QED
    BY <1>2, <2>1, <2>2
<1>6. QED
  BY <1>1, <1>3, <1>4, <1>5 DEF WorkerTypes, Names0, Lists

-----------------------------------------------------------------------------
LEMMA InitFilesInv == Init => FilesInv
<1> SUFFICES ASSUME Init  PROVE FilesInv
  OBVIOUS
<1>1. TypeOK
  BY InitTypes
<1>2. \A f \in Names : files[f].kind = "absent"
  BY DEF Init, Absent
<1>3. \A b \in Builders, k \in Keys : wpc[b][k] = "none"
  BY DEF Init, Everywhere
<1>4. \A b \in Builders : BuilderInv(b)
  BY <1>3 DEF Init, BuilderInv
<1>5. \A b \in Builders, k \in Keys : WorkerInv(b, k)
  BY <1>3 DEF WorkerInv
<1>6. \A r \in Rows : path[r] = None
  BY DEF Init
<1>7. QED
  BY <1>1, <1>2, <1>3, <1>4, <1>5, <1>6 DEF FilesInv

\* A good list stays good: a delivery is never taken back.
LEMMA GoodStays ==
  ASSUME NEW list, NEW r, Good(list, r),
         \A m \in Messages : delivered[m] > 0 => delivered'[m] > 0
  PROVE  Good(list, r)'
BY DEF Good, Said

\* What was opened again stays so.
LEMMA ReopenedStays ==
  ASSUME reopened \subseteq reopened', NEW r, Reopened(r)
  PROVE  Reopened(r)'
BY DEF Reopened

\* A whole file is not touched, unless it was opened again.
WholeStays ==
    /\ reopened \subseteq reopened'
    /\ \A f \in Names : files[f].kind = "whole" => files'[f] = files[f] \/ f \in reopened'

\* A worker that does not move stays right, as long as whole files are not
\* touched and neither is the file it writes.
LEMMA WorkerStays ==
  ASSUME NEW c \in Builders, NEW j \in Keys, WorkerInv(c, j), WholeStays,
         wpc'[c][j] = wpc[c][j], wpath'[c][j] = wpath[c][j],
         wlist'[c][j] = wlist[c][j], wfile'[c][j] = wfile[c][j],
         \A m \in Messages : delivered[m] > 0 => delivered'[m] > 0,
         wpc[c][j] = "write" /\ wfile[c][j] \notin reopened' =>
             files'[wfile[c][j]].kind = "open"
  PROVE  WorkerInv(c, j)'
<1>1. wpc'[c][j] # "none" /\ wpath'[c][j] # None => GoodFile(wpath[c][j], RowOf[j])'
  BY DEF WorkerInv, GoodFile, WholeStays
<1>2. wpc'[c][j] \in {"open", "write", "update", "insert"} /\ ~ Reopened(RowOf[j])' =>
          Good(wlist[c][j], RowOf[j])'
  <2>1. SUFFICES ASSUME wpc[c][j] \in {"open", "write", "update", "insert"},
                        ~ Reopened(RowOf[j])'
                 PROVE  Good(wlist[c][j], RowOf[j])'
    OBVIOUS
  <2>2. ~ Reopened(RowOf[j])
    BY <2>1, ReopenedStays DEF WholeStays
  <2>3. Good(wlist[c][j], RowOf[j])
    BY <2>1, <2>2 DEF WorkerInv
  <2>4. QED
    BY <2>3 DEF Good, Said
<1>3. wpc'[c][j] \in {"update", "insert"} /\ wfile'[c][j] \notin reopened' =>
          files'[wfile'[c][j]] = Whole(wlist'[c][j])
  <2>1. SUFFICES ASSUME wpc[c][j] \in {"update", "insert"}, wfile[c][j] \notin reopened'
                 PROVE  files'[wfile[c][j]] = Whole(wlist[c][j])
    OBVIOUS
  <2>2. wfile[c][j] \in Names /\ files[wfile[c][j]] = Whole(wlist[c][j])
    BY <2>1 DEF WorkerInv, WholeStays
  <2>3. files[wfile[c][j]].kind = "whole"
    BY <2>2 DEF Whole
  <2>4. QED
    BY <2>1, <2>2, <2>3 DEF WholeStays
<1>4. QED
  BY <1>1, <1>2, <1>3 DEF WorkerInv, GoodFile

\* What one step of worker <<b, k>> has to keep.
LEMMA WorkerStep ==
  ASSUME FilesInv, NEW b \in Builders, NEW k \in Keys, NEW to \in Pcs \ {"none"},
         wpc[b][k] # "none", Works(b, k, to), UNCHANGED <<builder, delivered>>,
         StoreTypes', GhostTypes', WorkerInv(b, k)', WholeStays,
         \A r \in Rows : path'[r] # None => GoodFile(path[r], r)',
         \A f \in Names : files'[f].kind = "whole" /\ ~ Reopened(RowOf[f[1]])' =>
             Good(files[f].list, RowOf[f[1]])',
         \A c \in Builders, j \in Keys :
             (c # b \/ j # k) /\ wpc[c][j] = "write" /\ wfile[c][j] \notin reopened' =>
                 files'[wfile[c][j]].kind = "open",
         \A c \in Builders \ {b} :
             to = "write" /\ wpc[c][k] = "write" /\ wfile'[b][k] \notin reopened' =>
                 wfile'[b][k] # wfile[c][k]
  PROVE  FilesInv'
<1>1. /\ WorkerTypes' /\ wpc'[b][k] = to
      /\ \A c \in Builders, j \in Keys : c # b \/ j # k =>
                /\ wpc'[c][j] = wpc[c][j] /\ wpath'[c][j] = wpath[c][j]
                /\ wlist'[c][j] = wlist[c][j] /\ wfile'[c][j] = wfile[c][j]
  BY WorksTypes, Parts DEF FilesInv
<1>2. TypeOK'
  <2>1. BuilderTypes'
    BY Parts DEF FilesInv, BuilderTypes, builder
  <2>2. QED
    BY <1>1, <2>1 DEF TypeOK, StoreTypes, BuilderTypes, WorkerTypes, GhostTypes
<1>3. ASSUME NEW c \in Builders  PROVE BuilderInv(c)'
  <2>1. \A j \in Keys : wpc'[c][j] # "none" <=> wpc[c][j] # "none"
    BY <1>1
  <2>2. BuilderInv(c)
    BY DEF FilesInv
  <2>3. QED
    BY <2>1, <2>2 DEF BuilderInv, builder
<1>4. ASSUME NEW c \in Builders, NEW j \in Keys  PROVE WorkerInv(c, j)'
  <2>1. CASE c = b /\ j = k
    BY <2>1
  <2>2. CASE c # b \/ j # k
    BY <1>1, <2>2, WorkerStays DEF FilesInv
  <2>3. QED
    BY <2>1, <2>2
<1>5. ASSUME NEW c \in Builders, NEW d \in Builders, NEW j \in Keys,
             wpc'[c][j] = "write", wpc'[d][j] = "write", wfile'[c][j] = wfile'[d][j]
      PROVE  c = d \/ wfile'[c][j] \in reopened'
  <2>1. CASE j # k
    BY <1>1, <1>5, <2>1 DEF FilesInv, WholeStays
  <2>2. CASE j = k
    BY <1>1, <1>5, <2>2 DEF FilesInv, WholeStays
  <2>3. QED
    BY <2>1, <2>2
<1>6. QED
  BY <1>2, <1>3, <1>4, <1>5 DEF FilesInv

\* The page's postings replace its old ones and are the only ones of the page.
LEMMA MergeIsGood ==
  ASSUME NEW list, NEW r, Good(list, r), NEW p \in Postings, RowOf[p.key] = r, Said(p)
  PROVE  Good(Merge(list, p), r)
BY DEF Good, Merge

\* A worker's key is one of the page its builder is at.
LEMMA WorkerPage ==
  ASSUME FilesInv, NEW b \in Builders, NEW k \in Keys, wpc[b][k] # "none"
  PROVE  /\ msg[b] \in Messages /\ delivered[msg[b]] > 0
         /\ k \in batch[b] /\ k \in msg[b].keys /\ k \notin todo[b]
         /\ Posting(b, k) \in Postings /\ Said(Posting(b, k))
<1>1. k \in batch[b] /\ msg[b] \in Messages \cup {None}
  BY DEF FilesInv, BuilderInv, TypeOK
<1>2. msg[b] # None
  BY <1>1 DEF FilesInv, BuilderInv
<1>3. msg[b] \in Messages /\ delivered[msg[b]] > 0 /\ k \in msg[b].keys /\ k \notin todo[b]
  BY <1>1, <1>2 DEF FilesInv, BuilderInv
<1>4. Posting(b, k) \in Postings
  BY <1>3, Constants DEF Posting
<1>5. Said(Posting(b, k))
  BY <1>3 DEF Said, Posting
<1>6. QED
  BY <1>1, <1>3, <1>4, <1>5

\* A worker reads a whole file or none at all, or one that was opened again.
LEMMA ReadIsGood ==
  ASSUME FilesInv, NEW b \in Builders, NEW k \in Keys, At(b, k, "read"),
         ~ Reopened(RowOf[k]), NEW list \in Contents(wpath[b][k])
  PROVE  /\ wpath[b][k] = None => list = {}
         /\ wpath[b][k] # None => list = files[wpath[b][k]].list
         /\ Good(list, RowOf[k])
<1>1. CASE wpath[b][k] = None
  <2>1. list = {}
    BY <1>1 DEF Contents
  <2>2. QED
    BY <1>1, <2>1 DEF Good
<1>2. CASE wpath[b][k] # None
  <2>1. GoodFile(wpath[b][k], RowOf[k])
    BY <1>2 DEF FilesInv, WorkerInv, At
  <2>2. PICK f \in Names : f = wpath[b][k] /\ files[f].kind = "whole" /\ RowOf[f[1]] = RowOf[k]
    BY <2>1 DEF GoodFile, Reopened
  <2>3. list = files[f].list
    BY <1>2, <2>2 DEF Contents
  <2>4. QED
    BY <1>2, <2>2, <2>3 DEF FilesInv
<1>3. QED
  BY <1>1, <1>2

LEMMA ReadIsPostings ==
  ASSUME FilesInv, NEW b \in Builders, NEW k \in Keys, At(b, k, "read"),
         NEW list \in Contents(wpath[b][k])
  PROVE  Merge(list, Posting(b, k)) \in SUBSET Postings
<1>1. list \subseteq Postings
  BY DEF Contents, At, FilesInv, TypeOK
<1>2. Posting(b, k) \in Postings
  BY WorkerPage DEF At
<1>3. QED
  BY <1>1, <1>2 DEF Merge

LEMMA ReadIndexKeeps ==
  ASSUME FilesInv, NEW b \in Builders, NEW k \in Keys, ReadIndex(b, k)
  PROVE  FilesInv'
<1>1. PICK list \in Contents(wpath[b][k]) :
          wlist' = [wlist EXCEPT ![b][k] = Merge(list, Posting(b, k))]
  BY DEF ReadIndex
<1>2. ~ Reopened(RowOf[k]) => Good(Merge(list, Posting(b, k)), RowOf[k])
  <2>1. ~ Reopened(RowOf[k]) => Good(list, RowOf[k])
    BY ReadIsGood DEF ReadIndex
  <2>2. RowOf[Posting(b, k).key] = RowOf[k]
    BY DEF Posting
  <2>3. QED
    BY <2>1, <2>2, WorkerPage, MergeIsGood DEF ReadIndex, At
<1>3. PICK merged \in SUBSET Postings :
          /\ merged = Merge(list, Posting(b, k))
          /\ ~ Reopened(RowOf[k]) => Good(merged, RowOf[k])
  BY <1>2, ReadIsPostings DEF ReadIndex
<1>4. Works(b, k, "open")
  BY <1>1, <1>3 DEF ReadIndex, Goto, Works
<1>5. UNCHANGED <<store, builder, ghost, wpath, wfile>> /\ wpc[b][k] = "read"
  BY DEF ReadIndex, At
<1>6. wlist'[b][k] = merged /\ wpc'[b][k] = "open" /\ wpath'[b][k] = wpath[b][k]
  <2>1. wlist \in [Builders -> [Keys -> SUBSET Postings]] /\ wpc \in [Builders -> [Keys -> Pcs]]
    BY DEF FilesInv, TypeOK
  <2>2. wlist' = [wlist EXCEPT ![b][k] = merged] /\ wpc' = [wpc EXCEPT ![b][k] = "open"]
    BY <1>1, <1>3 DEF ReadIndex, Goto
  <2>3. QED
    BY <1>5, <2>1, <2>2
<1>7. WorkerInv(b, k)'
  <2>1. ~ Reopened(RowOf[k])' => Good(merged, RowOf[k])'
    BY <1>3, <1>5 DEF Good, Said, Reopened, ghost, overlap
  <2>2. wpath[b][k] # None => GoodFile(wpath[b][k], RowOf[k])'
    BY <1>5 DEF FilesInv, WorkerInv, GoodFile, store, ghost, overlap
  <2>3. QED
    BY <1>6, <2>1, <2>2 DEF WorkerInv, GoodFile, Good, Said
<1>8. StoreTypes' /\ GhostTypes' /\ WholeStays
  BY <1>5, Parts DEF FilesInv, StoreTypes, GhostTypes, WholeStays, store, ghost, overlap
<1>9. /\ \A r \in Rows : path'[r] # None => GoodFile(path[r], r)'
      /\ \A f \in Names : files'[f].kind = "whole" /\ ~ Reopened(RowOf[f[1]])' =>
             Good(files[f].list, RowOf[f[1]])'
  BY <1>5 DEF FilesInv, store, ghost, overlap, GoodFile, Good, Said, Reopened
<1>10. \A c \in Builders, j \in Keys :
           wpc[c][j] = "write" /\ wfile[c][j] \notin reopened' =>
               files'[wfile[c][j]].kind = "open"
  BY <1>5 DEF FilesInv, WorkerInv, store, ghost, overlap
<1>11. QED
  BY <1>4, <1>5, <1>7, <1>8, <1>9, <1>10, WorkerStep DEF Pcs, ghost

\* The new file is the only one of its name, or is remembered.
LEMMA OpenFileKeeps ==
  ASSUME FilesInv, NEW b \in Builders, NEW k \in Keys, OpenFile(b, k)
  PROVE  FilesInv' /\ WholeStays
<1>1. PICK f \in Names : f = <<k, now>>
  BY DEF FilesInv, TypeOK, Names
<1>2. /\ wpc[b][k] = "open" /\ f[1] = k
      /\ files' = [files EXCEPT ![f] = Open] /\ wfile' = [wfile EXCEPT ![b][k] = f]
      /\ reopened' = reopened \cup {g \in {f} : files[g].kind # "absent"}
      /\ wpc' = [wpc EXCEPT ![b][k] = "write"]
      /\ UNCHANGED <<path, now, builder, wpath, wlist, delivered, latest, missed, raced,
                     twice, crashes>>
  BY <1>1 DEF OpenFile, Truncate, At, Goto
<1>3. files[f].kind = "absent" \/ f \in reopened'
  BY <1>2
<1>4. Works(b, k, "write")
  BY <1>2 DEF Works
<1>5. StoreTypes' /\ GhostTypes'
  BY <1>2, Parts DEF FilesInv, StoreTypes, GhostTypes, Open
<1>6. /\ files'[f] = Open
      /\ \A g \in Names : g # f => files'[g] = files[g]
  BY <1>2 DEF FilesInv, TypeOK
<1>7. WholeStays
  BY <1>2, <1>3, <1>6 DEF WholeStays
<1>8. ASSUME NEW g \in Names, files'[g].kind = "whole", ~ Reopened(RowOf[g[1]])'
      PROVE  Good(files[g].list, RowOf[g[1]])'
  <2>1. g # f /\ files'[g] = files[g]
    BY <1>6, <1>8 DEF Open
  <2>2. ~ Reopened(RowOf[g[1]])
    BY <1>7, <1>8, ReopenedStays DEF WholeStays
  <2>3. Good(files[g].list, RowOf[g[1]])
    BY <1>8, <2>1, <2>2 DEF FilesInv
  <2>4. QED
    BY <1>2, <2>1, <2>3 DEF Good, Said
<1>9. ASSUME NEW r \in Rows, path'[r] # None  PROVE GoodFile(path[r], r)'
  <2>1. GoodFile(path[r], r) /\ path' = path
    BY <1>2, <1>9 DEF FilesInv
  <2>2. QED
    BY <1>7, <2>1 DEF GoodFile, WholeStays
<1>10. \A c \in Builders, j \in Keys :
           wpc[c][j] = "write" /\ wfile[c][j] \notin reopened' =>
               wfile[c][j] # f /\ files'[wfile[c][j]].kind = "open"
  BY <1>3, <1>6, <1>7 DEF FilesInv, WorkerInv, WholeStays
<1>11. /\ wfile'[b][k] = f /\ wpc'[b][k] = "write"
       /\ wpath'[b][k] = wpath[b][k] /\ wlist'[b][k] = wlist[b][k]
  BY <1>2 DEF FilesInv, TypeOK
<1>12. WorkerInv(b, k)'
  <2>1. wpath[b][k] # None => GoodFile(wpath[b][k], RowOf[k])'
    BY <1>2, <1>7 DEF FilesInv, WorkerInv, GoodFile, WholeStays
  <2>2. ~ Reopened(RowOf[k])' => Good(wlist[b][k], RowOf[k])'
    <3>1. ~ Reopened(RowOf[k])' => ~ Reopened(RowOf[k])
      BY <1>7, ReopenedStays DEF WholeStays
    <3>2. ~ Reopened(RowOf[k]) => Good(wlist[b][k], RowOf[k])
      BY <1>2 DEF FilesInv, WorkerInv
    <3>3. QED
      BY <1>2, <3>1, <3>2 DEF Good, Said
  <2>3. files'[f].kind = "open"
    BY <1>6 DEF Open
  <2>4. QED
    BY <1>2, <1>11, <2>1, <2>2, <2>3 DEF WorkerInv, GoodFile, Good, Said
<1>13. FilesInv'
  BY <1>2, <1>4, <1>5, <1>7, <1>8, <1>9, <1>10, <1>11, <1>12, WorkerStep DEF Pcs
<1>14. QED
  BY <1>7, <1>13

\* The file a worker writes is no other worker's and not yet in the table, unless
\* it was opened again.
LEMMA WriteFileKeeps ==
  ASSUME FilesInv, NEW b \in Builders, NEW k \in Keys, WriteFile(b, k)
  PROVE  FilesInv' /\ WholeStays
<1>1. PICK to \in {"insert", "update"} : wpc' = [wpc EXCEPT ![b][k] = to]
  BY DEF WriteFile, Goto
<1>2. PICK f \in Names : f = wfile[b][k]
  BY DEF FilesInv, WorkerInv, WriteFile, At
<1>3. PICK list \in SUBSET Postings : list = wlist[b][k]
  BY DEF FilesInv, TypeOK
<1>4. /\ wpc[b][k] = "write" /\ f[1] = k
      /\ f \notin reopened => files[f].kind = "open"
      /\ files' = [files EXCEPT ![f] = Whole(list)]
      /\ ~ Reopened(RowOf[k]) => Good(list, RowOf[k])
      /\ UNCHANGED <<path, now, builder, worker, ghost>>
  BY <1>2, <1>3 DEF WriteFile, At, FilesInv, WorkerInv
<1>5. Works(b, k, to)
  BY <1>1, <1>4 DEF Works, worker
<1>6. StoreTypes' /\ GhostTypes'
  BY <1>4, Parts DEF FilesInv, StoreTypes, GhostTypes, Whole, ghost, overlap
<1>7. /\ files'[f] = Whole(list) /\ reopened' = reopened
      /\ \A g \in Names : g # f => files'[g] = files[g]
  BY <1>4 DEF FilesInv, TypeOK, ghost, overlap
<1>8. WholeStays
  BY <1>4, <1>7 DEF WholeStays
<1>9. ASSUME NEW g \in Names, files'[g].kind = "whole", ~ Reopened(RowOf[g[1]])'
      PROVE  Good(files[g].list, RowOf[g[1]])'
  <2>1. ~ Reopened(RowOf[g[1]])
    BY <1>7, <1>9 DEF Reopened
  <2>2. Good(files'[g].list, RowOf[g[1]])
    <3>1. CASE g = f
      BY <1>4, <1>7, <2>1, <3>1 DEF Whole
    <3>2. CASE g # f
      BY <1>7, <1>9, <2>1, <3>2 DEF FilesInv
    <3>3. QED
      BY <3>1, <3>2
  <2>3. QED
    BY <1>4, <2>2 DEF Good, Said, ghost
<1>10. ASSUME NEW r \in Rows, path'[r] # None  PROVE GoodFile(path[r], r)'
  <2>1. GoodFile(path[r], r) /\ path' = path
    BY <1>4, <1>10 DEF FilesInv
  <2>2. QED
    BY <1>8, <2>1 DEF GoodFile, WholeStays
<1>11. ASSUME NEW c \in Builders, NEW j \in Keys, c # b \/ j # k, wpc[c][j] = "write",
              wfile[c][j] \notin reopened'
       PROVE  files'[wfile[c][j]].kind = "open"
  <2>1. wfile[c][j] \in Names /\ wfile[c][j][1] = j /\ files[wfile[c][j]].kind = "open"
    BY <1>7, <1>11 DEF FilesInv, WorkerInv
  <2>2. wfile[c][j] # f
    BY <1>2, <1>4, <1>7, <1>11, <2>1 DEF FilesInv
  <2>3. QED
    BY <1>7, <2>1, <2>2
<1>12. wpc'[b][k] = to
  BY <1>1 DEF FilesInv, TypeOK
<1>13. WorkerInv(b, k)'
  <2>1. wpath[b][k] # None => GoodFile(wpath[b][k], RowOf[k])'
    <3>1. wpath[b][k] # None => GoodFile(wpath[b][k], RowOf[k])
      BY <1>4 DEF FilesInv, WorkerInv
    <3>2. wpath' = wpath /\ reopened \subseteq reopened'
      BY <1>4, <1>7 DEF worker
    <3>3. \A g \in Names : files[g].kind = "whole" => files'[g].kind = "whole" \/ g \in reopened'
      BY <1>8 DEF WholeStays
    <3>4. QED
      BY <3>1, <3>2, <3>3 DEF GoodFile
  <2>2. ~ Reopened(RowOf[k])' => Good(list, RowOf[k])'
    BY <1>4, <1>7 DEF Good, Said, Reopened, ghost
  <2>3. files'[f] = Whole(list)
    BY <1>7
  <2>4. wpath' = wpath /\ wlist' = wlist /\ wfile' = wfile
    BY <1>4 DEF worker
  <2>5. QED
    BY <1>2, <1>3, <1>4, <1>12, <2>1, <2>2, <2>3, <2>4 DEF WorkerInv, GoodFile, Good, Said
<1>14. FilesInv'
  BY <1>4, <1>5, <1>6, <1>8, <1>9, <1>10, <1>11, <1>12, <1>13, WorkerStep DEF Pcs, ghost
<1>15. QED
  BY <1>8, <1>14

\* The row of a key gets the name of the worker's own whole file.
LEMMA PointKeeps ==
  ASSUME FilesInv, NEW b \in Builders, NEW k \in Keys,
         wpc[b][k] \in {"update", "insert"}, Goto(b, k, "done"),
         Point(b, k) \/ Miss(b, k),
         UNCHANGED <<files, now, builder, worker, delivered, latest, overlap, crashes>>
  PROVE  FilesInv'
<1>1. PICK f \in Names : f = wfile[b][k]
  BY DEF FilesInv, WorkerInv
<1>2. GoodFile(f, RowOf[k])
  <2>1. f[1] = k /\ (f \notin reopened => files[f] = Whole(wlist[b][k]))
    BY <1>1 DEF FilesInv, WorkerInv
  <2>2. QED
    BY <2>1 DEF GoodFile, Whole
<1>3. path' = [path EXCEPT ![RowOf[k]] = f] \/ path' = path
  BY <1>1 DEF Point, Miss
<1>4. Works(b, k, "done")
  BY DEF Goto, Works, worker
<1>5. StoreTypes'
  BY <1>3, Parts DEF FilesInv, StoreTypes
<1>6. GhostTypes'
  <2>1. <<msg[b].id, k>> \in PageIds \X Keys
    BY WorkerPage, Constants
  <2>2. missed' \subseteq missed \cup {<<msg[b].id, k>>}
    BY DEF Point, Miss
  <2>3. QED
    BY <2>1, <2>2, Parts DEF FilesInv, GhostTypes, overlap
<1>7. \A r \in Rows : path'[r] # None => GoodFile(path[r], r)'
  BY <1>2, <1>3, Constants DEF FilesInv, TypeOK, GoodFile, overlap
<1>8. \A g \in Names : files'[g].kind = "whole" /\ ~ Reopened(RowOf[g[1]])' =>
          Good(files[g].list, RowOf[g[1]])'
  BY DEF FilesInv, Good, Said, Reopened, overlap
<1>9. wpc'[b][k] = "done"
  BY DEF Goto, FilesInv, TypeOK
<1>10. WorkerInv(b, k)'
  BY <1>9 DEF FilesInv, WorkerInv, GoodFile, worker, overlap
<1>11. WholeStays
  BY DEF WholeStays, overlap
<1>12. \A c \in Builders, j \in Keys :
           wpc[c][j] = "write" /\ wfile[c][j] \notin reopened' =>
               files'[wfile[c][j]].kind = "open"
  BY DEF FilesInv, WorkerInv, overlap
<1>13. QED
  BY <1>4, <1>5, <1>6, <1>7, <1>8, <1>9, <1>10, <1>11, <1>12, WorkerStep DEF Pcs

\* Spawn: the worker is given the path its row has, or none.
LEMMA SpawnKeeps ==
  ASSUME FilesInv, NEW b \in Builders, NEW k \in Keys, Spawn(b, k)
  PROVE  FilesInv'
<1>1. PICK p \in Names \cup {None} :
          p \in {path[RowOf[k]], None} /\ wpath' = [wpath EXCEPT ![b][k] = p]
  BY Constants DEF Spawn, FilesInv, TypeOK
<1>2. /\ k \in todo[b] /\ k \notin batch[b] /\ wpc[b][k] = "none" /\ msg[b] # None
      /\ k \in msg[b].keys
  BY DEF Spawn, FilesInv, BuilderInv, TypeOK
<1>3. /\ todo' = [todo EXCEPT ![b] = @ \ {k}] /\ batch' = [batch EXCEPT ![b] = @ \cup {k}]
      /\ wpc' = [wpc EXCEPT ![b][k] = "read"]
      /\ raced' \subseteq raced \cup {RowOf[k]}
      /\ UNCHANGED <<store, msg, wlist, wfile, delivered, latest, missed, twice, reopened, crashes>>
  BY DEF Spawn, Goto
<1>4. Works(b, k, "read")
  BY <1>1, <1>3 DEF Works
<1>5. /\ WorkerTypes' /\ wpc'[b][k] = "read" /\ wpath'[b][k] = p
      /\ \A c \in Builders, j \in Keys : c # b \/ j # k =>
                /\ wpc'[c][j] = wpc[c][j] /\ wpath'[c][j] = wpath[c][j]
                /\ wlist'[c][j] = wlist[c][j] /\ wfile'[c][j] = wfile[c][j]
  <2>1. wpath'[b][k] = p
    BY <1>1 DEF FilesInv, TypeOK
  <2>2. QED
    BY <1>4, <2>1, WorksTypes, Parts DEF FilesInv, Pcs
<1>6. TypeOK'
  <2>1. BuilderTypes'
    BY <1>3, Parts DEF FilesInv, BuilderTypes
  <2>2. StoreTypes' /\ GhostTypes'
    BY <1>3, Parts, Constants DEF FilesInv, StoreTypes, GhostTypes, store
  <2>3. QED
    BY <1>5, <2>1, <2>2 DEF TypeOK, StoreTypes, BuilderTypes, WorkerTypes, GhostTypes
<1>7. ASSUME NEW c \in Builders  PROVE BuilderInv(c)'
  <2>1. CASE c = b
    <3>1. /\ msg'[b] = msg[b] /\ todo'[b] = todo[b] \ {k} /\ batch'[b] = batch[b] \cup {k}
          /\ delivered' = delivered
      BY <1>3 DEF FilesInv, TypeOK
    <3>2. \A j \in Keys : j \in batch'[b] <=> wpc'[b][j] # "none"
      BY <1>5, <3>1 DEF FilesInv, BuilderInv
    <3>3. QED
      BY <1>2, <2>1, <3>1, <3>2 DEF FilesInv, BuilderInv
  <2>2. CASE c # b
    <3>1. msg'[c] = msg[c] /\ todo'[c] = todo[c] /\ batch'[c] = batch[c] /\ delivered' = delivered
      BY <1>3, <2>2 DEF FilesInv, TypeOK
    <3>2. QED
      BY <1>5, <2>2, <3>1 DEF FilesInv, BuilderInv
  <2>3. QED
    BY <2>1, <2>2
<1>8. WorkerInv(b, k)'
  <2>1. p # None => GoodFile(p, RowOf[k])'
    BY <1>1, <1>3, Constants DEF FilesInv, GoodFile, store
  <2>2. QED
    BY <1>5, <2>1 DEF WorkerInv, GoodFile
<1>9. ASSUME NEW c \in Builders, NEW j \in Keys  PROVE WorkerInv(c, j)'
  <2>1. CASE c = b /\ j = k
    BY <1>8, <2>1
  <2>2. CASE c # b \/ j # k
    <3>1. WholeStays
      BY <1>3 DEF WholeStays, store
    <3>2. QED
      BY <1>3, <1>5, <2>2, <3>1, WorkerStays DEF FilesInv, WorkerInv, store
  <2>3. QED
    BY <2>1, <2>2
<1>10. \A c, d \in Builders, j \in Keys :
           wpc'[c][j] = "write" /\ wpc'[d][j] = "write" /\ wfile'[c][j] = wfile'[d][j] =>
               c = d \/ wfile'[c][j] \in reopened'
  BY <1>3, <1>5 DEF FilesInv
<1>11. QED
  BY <1>3, <1>6, <1>7, <1>9, <1>10 DEF FilesInv, GoodFile, Good, Said, Reopened, store

\* The builders bs lose their workers, the rest stays.
LEMMA GoneKeeps ==
  ASSUME FilesInv, NEW bs \in SUBSET Builders, ThreadsGone(bs),
         UNCHANGED <<store, delivered, reopened>>, BuilderTypes', GhostTypes',
         \A c \in bs : BuilderInv(c)',
         \A c \in Builders \ bs : msg'[c] = msg[c] /\ todo'[c] = todo[c] /\ batch'[c] = batch[c]
  PROVE  FilesInv'
<1> DEFINE Names0 == Names \cup {None}
           Lists == SUBSET Postings
<1>1. /\ wpath \in [Builders -> [Keys -> Names0]] /\ None \in Names0
      /\ wfile \in [Builders -> [Keys -> Names0]]
      /\ wlist \in [Builders -> [Keys -> Lists]] /\ {} \in Lists
      /\ wpc \in [Builders -> [Keys -> Pcs]] /\ "none" \in Pcs
  BY DEF FilesInv, TypeOK, Pcs
<1> HIDE DEF Names0, Lists
<1>2. /\ wpath' \in [Builders -> [Keys -> Names0]]
      /\ wfile' \in [Builders -> [Keys -> Names0]]
      /\ wlist' \in [Builders -> [Keys -> Lists]]
      /\ wpc' \in [Builders -> [Keys -> Pcs]]
  <2>1. /\ wpath' = Reset(wpath, bs, None) /\ wfile' = Reset(wfile, bs, None)
        /\ wlist' = Reset(wlist, bs, {}) /\ wpc' = Reset(wpc, bs, "none")
    BY DEF ThreadsGone
  <2>2. Reset(wpath, bs, None) \in [Builders -> [Keys -> Names0]]
    BY <1>1, NoWorkers, Zenon
  <2>3. Reset(wfile, bs, None) \in [Builders -> [Keys -> Names0]]
    BY <1>1, NoWorkers, Zenon
  <2>4. Reset(wlist, bs, {}) \in [Builders -> [Keys -> Lists]]
    BY <1>1, NoWorkers, Zenon
  <2>5. Reset(wpc, bs, "none") \in [Builders -> [Keys -> Pcs]]
    <3>1. PICK f, none : f = wpc /\ none = "none"
      OBVIOUS
    <3>2. f \in [Builders -> [Keys -> Pcs]] /\ none \in Pcs
      BY <1>1, <3>1, Zenon
    <3>3. Reset(f, bs, none) \in [Builders -> [Keys -> Pcs]]
      BY <3>2, NoWorkers, Zenon
    <3>4. QED
      BY <3>1, <3>3, Zenon
  <2>6. QED
    BY <2>1, <2>2, <2>3, <2>4, <2>5, Zenon
<1>3. \A c \in bs, j \in Keys : wpc'[c][j] = "none"
  <2>1. \A c \in Builders : c \in bs => wpc'[c] = [j \in Keys |-> "none"]
    BY DEF ThreadsGone, Reset
  <2>2. \A c \in bs : c \in Builders
    OBVIOUS
  <2>3. QED
    BY <2>1, <2>2
<1>4. \A c \in Builders \ bs, j \in Keys :
          /\ wpc'[c][j] = wpc[c][j] /\ wpath'[c][j] = wpath[c][j]
          /\ wlist'[c][j] = wlist[c][j] /\ wfile'[c][j] = wfile[c][j]
  BY DEF ThreadsGone, Reset
<1>5. TypeOK'
  <2>1. StoreTypes'
    BY Parts DEF FilesInv, StoreTypes, store
  <2>2. QED
    BY <1>2, <2>1 DEF TypeOK, StoreTypes, BuilderTypes, GhostTypes, Names0, Lists
<1>6. ASSUME NEW c \in Builders  PROVE BuilderInv(c)'
  <2>1. CASE c \in bs
    BY <2>1
  <2>2. CASE c \notin bs
    <3>1. msg'[c] = msg[c] /\ todo'[c] = todo[c] /\ batch'[c] = batch[c] /\ delivered' = delivered
      BY <2>2
    <3>2. \A j \in Keys : wpc'[c][j] = wpc[c][j]
      BY <1>4, <2>2
    <3>3. QED
      BY <3>1, <3>2 DEF FilesInv, BuilderInv
  <2>3. QED
    BY <2>1, <2>2
<1>7. ASSUME NEW c \in Builders, NEW j \in Keys  PROVE WorkerInv(c, j)'
  <2>1. CASE c \in bs
    BY <1>3, <2>1 DEF WorkerInv
  <2>2. CASE c \notin bs
    <3>1. WholeStays
      BY DEF WholeStays, store
    <3>2. QED
      BY <1>4, <2>2, <3>1, WorkerStays DEF FilesInv, WorkerInv, store
  <2>3. QED
    BY <2>1, <2>2
<1>8. \A c, d \in Builders, j \in Keys :
          wpc'[c][j] = "write" /\ wpc'[d][j] = "write" /\ wfile'[c][j] = wfile'[d][j] =>
              c = d \/ wfile'[c][j] \in reopened'
  BY <1>3, <1>4 DEF FilesInv
<1>9. QED
  BY <1>5, <1>6, <1>7, <1>8 DEF FilesInv, GoodFile, Good, Said, Reopened, store

LEMMA TakeKeeps ==
  ASSUME FilesInv, NEW b \in Builders, NEW m \in Messages, Take(b, m)
  PROVE  FilesInv'
<1>1. /\ msg[b] = None /\ batch[b] = {} /\ m # None
      /\ delivered' = [delivered EXCEPT ![m] = @ + 1] /\ delivered[m] < MaxDeliveries
      /\ msg' = [msg EXCEPT ![b] = m] /\ todo' = [todo EXCEPT ![b] = m.keys]
      /\ twice' \subseteq twice \cup {m.id}
      /\ UNCHANGED <<store, batch, wpc, worker, latest, missed, raced, reopened, crashes>>
  BY Constants DEF Take, FilesInv, BuilderInv
<1>2. TypeOK'
  <2>1. BuilderTypes'
    BY <1>1, Constants, Parts DEF FilesInv, BuilderTypes
  <2>2. StoreTypes' /\ WorkerTypes'
    BY <1>1, Parts DEF FilesInv, StoreTypes, WorkerTypes, store, worker
  <2>3. GhostTypes'
    BY <1>1, IndexBuilderAssumption, Constants, Parts DEF FilesInv, GhostTypes
  <2>4. QED
    BY <2>1, <2>2, <2>3 DEF TypeOK, StoreTypes, BuilderTypes, WorkerTypes, GhostTypes
<1>3. /\ \A n \in Messages : delivered[n] > 0 => delivered'[n] > 0
      /\ delivered'[m] > 0
  BY <1>1, IndexBuilderAssumption DEF FilesInv, TypeOK
<1>4. ASSUME NEW c \in Builders  PROVE BuilderInv(c)'
  <2>1. CASE c = b
    <3>1. msg'[b] = m /\ todo'[b] = m.keys /\ batch'[b] = {} /\ wpc' = wpc
      BY <1>1 DEF FilesInv, TypeOK
    <3>2. QED
      BY <1>1, <1>3, <2>1, <3>1 DEF FilesInv, BuilderInv
  <2>2. CASE c # b
    <3>1. msg'[c] = msg[c] /\ todo'[c] = todo[c] /\ batch'[c] = batch[c] /\ wpc' = wpc
      BY <1>1, <2>2 DEF FilesInv, TypeOK
    <3>2. msg[c] # None => delivered'[msg[c]] > 0
      BY <1>3 DEF FilesInv, BuilderInv, TypeOK
    <3>3. QED
      BY <3>1, <3>2 DEF FilesInv, BuilderInv
  <2>3. QED
    BY <2>1, <2>2
<1>5. ASSUME NEW c \in Builders, NEW j \in Keys  PROVE WorkerInv(c, j)'
  <2>1. WholeStays
    BY <1>1 DEF WholeStays, store
  <2>2. QED
    BY <1>1, <1>3, <2>1, WorkerStays DEF FilesInv, WorkerInv, store, worker
<1>6. \A f \in Names : files'[f].kind = "whole" /\ ~ Reopened(RowOf[f[1]])' =>
          Good(files[f].list, RowOf[f[1]])'
  <2>1. SUFFICES ASSUME NEW f \in Names, files[f].kind = "whole", ~ Reopened(RowOf[f[1]])
                 PROVE  Good(files[f].list, RowOf[f[1]])'
    BY <1>1 DEF store, Reopened
  <2>2. Good(files[f].list, RowOf[f[1]]) /\ files' = files
    BY <1>1, <2>1 DEF FilesInv, store
  <2>3. QED
    BY <1>3, <2>2 DEF Good, Said
<1>7. QED
  BY <1>1, <1>2, <1>4, <1>5, <1>6 DEF FilesInv, GoodFile, store, worker

LEMMA JoinKeeps ==
  ASSUME FilesInv, NEW b \in Builders, Join(b)
  PROVE  FilesInv'
<1>1. /\ msg[b] # None /\ batch' = [batch EXCEPT ![b] = {}]
      /\ ThreadsGone({b}) /\ UNCHANGED <<store, todo, delivered, missed, overlap, crashes>>
  BY DEF Join
<1>2. /\ msg' \in {msg, [msg EXCEPT ![b] = None]}
      /\ msg' # msg => todo[b] = {}
      /\ latest' = latest \/ latest' = [latest EXCEPT ![msg[b].id] = msg[b]]
  BY DEF Join
<1>3. msg[b] \in Messages
  BY <1>1 DEF FilesInv, TypeOK
<1>4. BuilderTypes'
  BY <1>1, <1>2, Parts DEF FilesInv, BuilderTypes
<1>5. GhostTypes'
  BY <1>1, <1>2, <1>3, Constants, Parts DEF FilesInv, GhostTypes, overlap
<1>6. batch'[b] = {} /\ \A j \in Keys : wpc'[b][j] = "none"
  BY <1>1 DEF ThreadsGone, Reset, FilesInv, TypeOK
<1>7. BuilderInv(b)'
  <2>1. CASE msg' = msg
    BY <1>1, <1>6, <2>1 DEF FilesInv, BuilderInv
  <2>2. CASE msg' # msg
    <3>1. msg'[b] = None /\ todo'[b] = {}
      BY <1>1, <1>2, <2>2 DEF FilesInv, TypeOK
    <3>2. QED
      BY <1>6, <3>1 DEF BuilderInv
  <2>3. QED
    BY <2>1, <2>2
<1>8. \A c \in Builders \ {b} : msg'[c] = msg[c] /\ todo'[c] = todo[c] /\ batch'[c] = batch[c]
  BY <1>1, <1>2 DEF FilesInv, TypeOK
<1>9. QED
  BY <1>1, <1>4, <1>5, <1>7, <1>8, GoneKeeps DEF overlap

LEMMA CrashKeeps == FilesInv /\ Crash => FilesInv'
<1> SUFFICES ASSUME FilesInv, Crash  PROVE FilesInv'
  OBVIOUS
<1>1. /\ ThreadsGone(Builders) /\ UNCHANGED <<store, delivered, latest, missed, overlap>>
      /\ crashes < MaxCrashes /\ crashes' = crashes + 1
      /\ msg' = [b \in Builders |-> None] /\ todo' = [b \in Builders |-> {}]
      /\ batch' = [b \in Builders |-> {}]
  BY DEF Crash
<1>2. BuilderTypes'
  BY <1>1 DEF BuilderTypes
<1>3. GhostTypes'
  BY <1>1, IndexBuilderAssumption, Parts DEF FilesInv, GhostTypes, overlap
<1>4. \A b \in Builders, j \in Keys : wpc'[b][j] = "none"
  BY <1>1 DEF ThreadsGone, Reset
<1>5. \A b \in Builders : BuilderInv(b)'
  BY <1>1, <1>4 DEF BuilderInv
<1>6. QED
  BY <1>1, <1>2, <1>3, <1>5, GoneKeeps DEF overlap

LEMMA TickKeeps == FilesInv /\ Tick => FilesInv'
<1> SUFFICES ASSUME FilesInv, Tick  PROVE FilesInv'
  OBVIOUS
<1>1. /\ now < MaxTime /\ now' = now + 1 /\ now \in Nat
      /\ UNCHANGED <<path, files, builder, wpc, worker, ghost>>
  BY DEF Tick, FilesInv, TypeOK
<1>2. TypeOK'
  <2>1. StoreTypes'
    BY <1>1, IndexBuilderAssumption, Parts DEF FilesInv, StoreTypes
  <2>2. BuilderTypes' /\ WorkerTypes' /\ GhostTypes'
    BY <1>1, Parts DEF FilesInv, BuilderTypes, WorkerTypes, GhostTypes,
                           builder, worker, ghost, overlap
  <2>3. QED
    BY <2>1, <2>2 DEF TypeOK, StoreTypes, BuilderTypes, WorkerTypes, GhostTypes
<1>3. QED
  BY <1>1, <1>2 DEF FilesInv, BuilderInv, WorkerInv, GoodFile, Good, Said, Reopened,
                    builder, worker, ghost, overlap

LEMMA StepFilesInv == FilesInv /\ [Next]_vars => FilesInv'
<1> SUFFICES ASSUME FilesInv, [Next]_vars  PROVE FilesInv'
  OBVIOUS
<1>1. ASSUME NEW b \in Builders, Step(b)  PROVE FilesInv'
  <2>1. CASE \E m \in Messages : Take(b, m)
    BY <2>1, TakeKeeps
  <2>2. CASE Join(b)
    BY <2>2, JoinKeeps
  <2>3. ASSUME NEW k \in Keys,
               \/ Spawn(b, k) \/ ReadIndex(b, k) \/ OpenFile(b, k)
               \/ WriteFile(b, k) \/ UpdatePath(b, k) \/ InsertPath(b, k)
        PROVE  FilesInv'
    <3>1. CASE Spawn(b, k)
      BY <3>1, SpawnKeeps
    <3>2. CASE ReadIndex(b, k)
      BY <3>2, ReadIndexKeeps
    <3>3. CASE OpenFile(b, k)
      BY <3>3, OpenFileKeeps
    <3>4. CASE WriteFile(b, k)
      BY <3>4, WriteFileKeeps
    <3>5. CASE UpdatePath(b, k) \/ InsertPath(b, k)
      BY <3>5, PointKeeps DEF UpdatePath, InsertPath, At
    <3>6. QED
      BY <2>3, <3>1, <3>2, <3>3, <3>4, <3>5
  <2>4. QED
    BY <1>1, <2>1, <2>2, <2>3 DEF Step
<1>2. CASE UNCHANGED vars
  <2>1. UNCHANGED <<path, files, now, msg, todo, batch, wpc, wpath, wlist, wfile>>
    BY <1>2 DEF vars, store, builder, worker
  <2>2. UNCHANGED <<delivered, latest, missed, raced, twice, reopened, crashes>>
    BY <1>2 DEF vars, ghost, overlap
  <2>3. TypeOK'
    BY <2>1, <2>2 DEF FilesInv, TypeOK
  <2>4. \A b \in Builders : BuilderInv(b)'
    BY <2>1, <2>2 DEF FilesInv, BuilderInv
  <2>5. \A list, r : Good(list, r) => Good(list, r)'
    BY <2>2 DEF Good, Said
  <2>6. \A r \in Rows : Reopened(r)' <=> Reopened(r)
    BY <2>2 DEF Reopened
  <2>7. \A g, r : GoodFile(g, r) => GoodFile(g, r)'
    BY <2>1, <2>2 DEF GoodFile
  <2>8. QED
    BY <2>1, <2>2, <2>3, <2>4, <2>5, <2>6, <2>7 DEF FilesInv, WorkerInv, Rows, Names
<1>3. QED
  BY <1>1, <1>2, TickKeeps, CrashKeeps DEF Next

LEMMA FilesInvHolds == Spec => []FilesInv
<1>1. FilesInv /\ [Next]_vars => FilesInv'
  BY StepFilesInv
<1>2. QED
  BY <1>1, InitFilesInv, PTL DEF Spec

\* The row of a key never leads to a missing or half-written file that was opened
\* only once: the statement comes after the file is closed (indexBuilder.cpp:337-392).
THEOREM PathIsWhole == Spec => []PathWhole
<1>1. FilesInv => PathWhole
  BY DEF FilesInv, GoodFile, PathWhole
<1>2. QED
  BY <1>1, FilesInvHolds, PTL

\* Whatever the builders overlap and wherever they crash, a list has one version
\* of a page, the key of its row, and nothing that no delivered page said, as long
\* as none of the row's files was opened again.
THEOREM ListsAreTrue == Spec => []ListsTruthful
<1>1. FilesInv => ListsTruthful
  <2>1. SUFFICES ASSUME FilesInv, NEW k \in Keys, path[RowOf[k]] # None,
                        ~ Reopened(RowOf[k])
                 PROVE  Good(Index(k), RowOf[k])
    BY DEF ListsTruthful, OneVersion, IndexTruthful, Good, Index
  <2>2. GoodFile(path[RowOf[k]], RowOf[k])
    BY <2>1, Constants DEF FilesInv
  <2>3. PICK f \in Names : f = path[RowOf[k]] /\ files[f].kind = "whole" /\ RowOf[f[1]] = RowOf[k]
    BY <2>1, <2>2 DEF GoodFile, Reopened
  <2>4. QED
    BY <2>1, <2>3 DEF FilesInv, Index
<1>2. QED
  BY <1>1, FilesInvHolds, PTL

-----------------------------------------------------------------------------
(***************************************************************************)
(* Rows that nothing disturbed.                                            *)
(***************************************************************************)

\* A step keeps every page in the lists of undisturbed rows it was in.
Kept ==
    \A k \in Keys : Undisturbed(RowOf[k])' =>
        \A q \in Index(k) : \E p \in Index(k)' : p.id = q.id

\* A row that is undisturbed after a step was so before.
LEMMA DisturbedStays ==
  ASSUME raced \subseteq raced', reopened \subseteq reopened', NEW r, Undisturbed(r)'
  PROVE  Undisturbed(r)
BY DEF Undisturbed, Reopened

LEMMA IndexStays ==
  ASSUME FilesInv, path' = path, WholeStays, NEW k \in Keys, ~ Reopened(RowOf[k])'
  PROVE  Index(k)' = Index(k)
<1>1. CASE path[RowOf[k]] = None
  BY <1>1 DEF Index
<1>2. CASE path[RowOf[k]] # None
  <2>1. GoodFile(path[RowOf[k]], RowOf[k])
    BY <1>2, Constants DEF FilesInv
  <2>2. PICK f \in Names : f = path[RowOf[k]] /\ RowOf[f[1]] = RowOf[k]
                           /\ (f \notin reopened => files[f].kind = "whole")
    BY <2>1 DEF GoodFile
  <2>3. f \notin reopened' /\ f \notin reopened
    BY <2>2 DEF Reopened, WholeStays
  <2>4. QED
    BY <1>2, <2>2, <2>3 DEF Index, WholeStays
<1>3. QED
  BY <1>1, <1>2

\* At an undisturbed row, the workers of one builder alone are at work.
LEMMA AloneAtRow ==
  ASSUME OverlapInv, NEW b \in Builders, NEW c \in Builders, NEW k \in Keys, NEW j \in Keys,
         RowOf[k] = RowOf[j], Undisturbed(RowOf[k]),
         wpc[b][k] \notin {"none", "done"}, wpc[c][j] \notin {"none", "done"}
  PROVE  b = c
BY Constants DEF OverlapInv, Busy, Undisturbed

\* What one step of worker <<b, k>> has to keep.
LEMMA WorkerCurrent ==
  ASSUME FilesInv, CurrentInv, NEW b \in Builders, NEW k \in Keys,
         wpc[b][k] \notin {"none", "done"}, wpc'[b][k] # "none",
         UNCHANGED <<builder, latest, raced, twice, crashes>>, WholeStays,
         Undisturbed(RowOf[k])' => Merging(b, k)',
         \A c \in Builders, j \in Keys : c # b \/ j # k =>
             wpc'[c][j] = wpc[c][j] /\ wpath'[c][j] = wpath[c][j] /\ wlist'[c][j] = wlist[c][j],
         \A j \in Keys : Undisturbed(RowOf[j])' =>
             /\ RowOf[j] # RowOf[k] => Index(j)' = Index(j)
             /\ Others(b, Index(j)') = Others(b, Index(j))
             /\ \/ Index(j)' = Index(j)
                   /\ (<<msg[b].id, j>> \in missed => <<msg[b].id, j>> \in missed')
                \/ HasPage(b, Index(j)'),
         \A i \in PageIds \ {msg[b].id}, j \in Keys :
             <<i, j>> \in missed => <<i, j>> \in missed',
         wpc'[b][k] = "done" /\ Undisturbed(RowOf[k])' =>
             <<msg[b].id, k>> \in missed' \/ HasPage(b, Index(k)')
  PROVE  CurrentInv' /\ Kept
<1>1. msg' = msg /\ todo' = todo /\ latest' = latest /\ crashes' = crashes /\ twice' = twice
  BY DEF builder
<1>2. msg[b] # None /\ msg[b].id \in PageIds
  BY WorkerPage, Constants
<1>3. \A j \in Keys : Undisturbed(RowOf[j])' => Undisturbed(RowOf[j])
  BY DisturbedStays DEF WholeStays
<1>5. \A c \in Builders, j \in Keys : HasPage(c, Index(j))' <=> HasPage(c, Index(j)')
  BY <1>1 DEF HasPage
<1>6. OverlapInv'
  <2>1. \A c \in Builders, r \in Rows : Busy(c, r)' => Busy(c, r)
    BY DEF Busy
  <2>2. QED
    BY <1>1, <2>1 DEF CurrentInv, OverlapInv
<1>7. ASSUME NEW c \in Builders, NEW j \in Keys, Undisturbed(RowOf[j])'
      PROVE  Merging(c, j)'
  <2>1. CASE c = b /\ j = k
    BY <1>7, <2>1
  <2>2. CASE c # b \/ j # k
    <3>1. Merging(c, j) /\ Undisturbed(RowOf[j])
      BY <1>3, <1>7 DEF CurrentInv
    <3>2. /\ wpc'[c][j] = wpc[c][j] /\ wpath'[c][j] = wpath[c][j] /\ wlist'[c][j] = wlist[c][j]
      BY <2>2
    <3>3. wpc[c][j] \notin {"none", "done"} => Others(c, Index(j)') = Others(c, Index(j))
      <4>1. SUFFICES ASSUME wpc[c][j] \notin {"none", "done"}
                     PROVE  Others(c, Index(j)') = Others(c, Index(j))
        OBVIOUS
      <4>2. CASE RowOf[j] # RowOf[k]
        BY <1>7, <4>2
      <4>3. CASE RowOf[j] = RowOf[k]
        <5>1. c = b
          BY <3>1, <4>1, <4>3, AloneAtRow, Constants DEF CurrentInv
        <5>2. QED
          BY <1>7, <5>1
      <4>4. QED
        BY <4>2, <4>3
    <3>4. wpc[c][j] # "none" /\ wpath[c][j] # None =>
              files'[wpath[c][j]] = files[wpath[c][j]]
      <4>1. SUFFICES ASSUME wpc[c][j] # "none", wpath[c][j] # None
                     PROVE  files'[wpath[c][j]] = files[wpath[c][j]]
        OBVIOUS
      <4>2. GoodFile(wpath[c][j], RowOf[j])
        BY <4>1 DEF FilesInv, WorkerInv
      <4>3. wpath[c][j] \notin reopened'
        BY <1>7, <4>2 DEF GoodFile, Undisturbed, Reopened
      <4>4. QED
        BY <4>2, <4>3 DEF GoodFile, WholeStays
    <3>5. wpc'[c][j] = "read" /\ wpath'[c][j] # None =>
              Others(c, files[wpath[c][j]].list)' = Others(c, Index(j))'
      <4>1. SUFFICES ASSUME wpc[c][j] = "read", wpath[c][j] # None
                     PROVE  Others(c, files[wpath[c][j]].list)' = Others(c, Index(j))'
        BY <3>2
      <4>2. Others(c, files[wpath[c][j]].list) = Others(c, Index(j))
        BY <3>1, <4>1 DEF Merging
      <4>3. Others(c, files[wpath[c][j]].list)' = Others(c, files[wpath[c][j]].list)
        BY <1>1, <3>2, <3>4, <4>1 DEF Others
      <4>4. Others(c, Index(j))' = Others(c, Index(j)')
        BY <1>1 DEF Others
      <4>5. QED
        BY <3>3, <4>1, <4>2, <4>3, <4>4
    <3>6. wpc'[c][j] \in {"open", "write", "update", "insert"} =>
              /\ Others(c, wlist[c][j])' =
                     IF wpath'[c][j] = None THEN {} ELSE Others(c, Index(j))'
              /\ HasPage(c, wlist[c][j])'
      <4>1. SUFFICES ASSUME wpc[c][j] \in {"open", "write", "update", "insert"}
                     PROVE  /\ Others(c, wlist[c][j])' =
                                   IF wpath[c][j] = None THEN {} ELSE Others(c, Index(j))'
                            /\ HasPage(c, wlist[c][j])'
        BY <3>2
      <4>2. /\ Others(c, wlist[c][j]) =
                   IF wpath[c][j] = None THEN {} ELSE Others(c, Index(j))
            /\ HasPage(c, wlist[c][j])
        BY <3>1, <4>1 DEF Merging
      <4>3. Others(c, wlist[c][j])' = Others(c, wlist[c][j])
            /\ (HasPage(c, wlist[c][j])' <=> HasPage(c, wlist[c][j]))
        BY <1>1, <3>2 DEF Others, HasPage
      <4>4. Others(c, Index(j))' = Others(c, Index(j)')
        BY <1>1 DEF Others
      <4>5. QED
        BY <3>3, <4>1, <4>2, <4>3, <4>4
    <3>7. QED
      BY <3>1, <3>2, <3>5, <3>6 DEF Merging
  <2>3. QED
    BY <2>1, <2>2
<1>8. ASSUME NEW c \in Builders  PROVE Reached(c)'
  <2>1. SUFFICES ASSUME msg[c] # None, NEW j \in Keys, j \in msg[c].keys, j \notin todo[c],
                        wpc'[c][j] \in {"none", "done"}, <<msg[c].id, j>> \notin missed',
                        Undisturbed(RowOf[j])'
                 PROVE  HasPage(c, Index(j)')
    <3>1. msg[c] # None => msg[c].keys \subseteq Keys
      BY Constants DEF FilesInv, TypeOK
    <3>2. QED
      BY <1>1, <1>5, <3>1 DEF Reached
  <2>2. Reached(c) /\ Undisturbed(RowOf[j]) /\ msg[c].id \in PageIds
    BY <1>3, <2>1, Constants DEF CurrentInv, FilesInv, TypeOK
  <2>3. CASE c = b /\ j = k
    <3>1. wpc'[b][k] = "done"
      BY <2>1, <2>3
    <3>2. QED
      BY <2>1, <2>3, <3>1
  <2>4. CASE (c # b \/ j # k) /\ msg[c].id # msg[b].id
    <3>1. HasPage(c, Index(j))
      BY <2>1, <2>2, <2>4 DEF Reached
    <3>2. PICK q \in Index(j) :
              q.id = msg[c].id /\ (q.version = msg[c].version \/ msg[c].id \in twice)
      BY <3>1 DEF HasPage
    <3>3. q \in Others(b, Index(j)')
      BY <2>1, <2>4, <3>2 DEF Others
    <3>4. QED
      BY <3>2, <3>3 DEF Others, HasPage
  <2>5. CASE (c # b \/ j # k) /\ msg[c].id = msg[b].id
    <3>1. CASE Index(j)' = Index(j) /\ <<msg[b].id, j>> \notin missed
      <4>1. HasPage(c, Index(j))
        BY <2>1, <2>2, <2>5, <3>1 DEF Reached
      <4>2. QED
        BY <3>1, <4>1
    <3>2. CASE HasPage(b, Index(j)')
      <4>1. c = b \/ msg[c].id \in twice
        BY <1>2, <2>1, <2>5 DEF CurrentInv, OverlapInv
      <4>2. QED
        BY <2>5, <3>2, <4>1 DEF HasPage
    <3>3. QED
      BY <2>1, <2>5, <3>1, <3>2
  <2>6. QED
    BY <2>3, <2>4, <2>5
<1>9. IndexCurrent'
  <2> DEFINE Current(i, q) ==
                 /\ q.id = i
                 /\ \/ q.version = latest[i].version
                    \/ \E c \in Builders : msg[c] # None /\ msg[c].id = i
                    \/ i \in twice \/ crashes > 0
  <2>1. SUFFICES ASSUME NEW i \in PageIds, latest[i] # None, NEW j \in latest[i].keys,
                        <<i, j>> \notin missed', Undisturbed(RowOf[j])'
                 PROVE  \E q \in Index(j)' : Current(i, q)
    BY <1>1 DEF IndexCurrent
  <2>2. j \in Keys /\ Undisturbed(RowOf[j])
    <3>1. j \in Keys
      BY <2>1, Constants DEF FilesInv, TypeOK
    <3>2. QED
      BY <1>3, <2>1, <3>1
  <2>3. <<i, j>> \notin missed => \E q \in Index(j) : Current(i, q)
    BY <2>1, <2>2 DEF CurrentInv, IndexCurrent
  <2>4. CASE i # msg[b].id
    <3>1. PICK q \in Index(j) : Current(i, q)
      BY <2>1, <2>2, <2>3, <2>4
    <3>2. q \in Others(b, Index(j)')
      BY <2>1, <2>2, <2>4, <3>1 DEF Others
    <3>3. q \in Index(j)'
      BY <3>2 DEF Others
    <3>4. QED
      BY <3>1, <3>3
  <2>5. CASE i = msg[b].id
    <3>1. CASE Index(j)' = Index(j) /\ <<i, j>> \notin missed
      BY <2>3, <3>1
    <3>2. CASE HasPage(b, Index(j)')
      <4>1. PICK q \in Index(j)' : q.id = i
        BY <2>5, <3>2 DEF HasPage
      <4>2. Current(i, q)
        BY <1>2, <2>5, <4>1
      <4>3. QED
        BY <4>2
    <3>3. QED
      BY <2>1, <2>2, <2>5, <3>1, <3>2
  <2>6. QED
    BY <2>4, <2>5
<1>10. Kept
  <2>1. SUFFICES ASSUME NEW j \in Keys, Undisturbed(RowOf[j])', NEW q \in Index(j)
                 PROVE  \E p \in Index(j)' : p.id = q.id
    BY DEF Kept
  <2>2. CASE q.id # msg[b].id
    <3>1. q \in Others(b, Index(j)')
      BY <2>1, <2>2 DEF Others
    <3>2. QED
      BY <3>1 DEF Others
  <2>3. CASE q.id = msg[b].id
    BY <2>1, <2>3 DEF HasPage
  <2>4. QED
    BY <2>2, <2>3
<1>11. QED
  BY <1>6, <1>7, <1>8, <1>9, <1>10 DEF CurrentInv

\* A step that leaves the rows and the whole files alone.
LEMMA QuietWorker ==
  ASSUME FilesInv, CurrentInv, NEW b \in Builders, NEW k \in Keys,
         wpc[b][k] \notin {"none", "done"}, wpc'[b][k] \notin {"none", "done"},
         UNCHANGED <<builder, path, latest, missed, raced, twice, crashes>>, WholeStays,
         Undisturbed(RowOf[k])' => Merging(b, k)',
         \A c \in Builders, j \in Keys : c # b \/ j # k =>
             wpc'[c][j] = wpc[c][j] /\ wpath'[c][j] = wpath[c][j] /\ wlist'[c][j] = wlist[c][j]
  PROVE  CurrentInv' /\ Kept
<1>1. \A j \in Keys : Undisturbed(RowOf[j])' => Index(j)' = Index(j)
  BY IndexStays DEF Undisturbed
<1>2. \A j \in Keys : Undisturbed(RowOf[j])' => Others(b, Index(j)') = Others(b, Index(j))
  BY <1>1
<1>3. missed' = missed
  OBVIOUS
<1>4. QED
  BY <1>1, <1>2, <1>3, WorkerCurrent

\* Merging changes the postings of the worker's page only, and that page is in.
LEMMA MergeOthers ==
  ASSUME NEW b \in Builders, NEW k \in Keys, NEW list
  PROVE  /\ Others(b, Merge(list, Posting(b, k))) = Others(b, list)
         /\ HasPage(b, Merge(list, Posting(b, k)))
<1> DEFINE p == Posting(b, k)
<1>1. p.id = msg[b].id /\ p.version = msg[b].version
  BY DEF Posting
<1> HIDE DEF p
<1>2. \A q : q \in Others(b, Merge(list, p)) <=> q \in Others(b, list)
  BY <1>1 DEF Others, Merge
<1>3. p \in Merge(list, p)
  BY DEF Merge
<1>4. Others(b, Merge(list, p)) = Others(b, list) /\ HasPage(b, Merge(list, p))
  BY <1>1, <1>2, <1>3 DEF HasPage
<1>5. QED
  BY <1>4 DEF p

LEMMA ReadCurrent ==
  ASSUME FilesInv, CurrentInv, NEW b \in Builders, NEW k \in Keys, ReadIndex(b, k)
  PROVE  CurrentInv' /\ Kept
<1>1. PICK list \in Contents(wpath[b][k]) :
          wlist' = [wlist EXCEPT ![b][k] = Merge(list, Posting(b, k))]
  BY DEF ReadIndex
<1>2. PICK merged \in SUBSET Postings : merged = Merge(list, Posting(b, k))
  BY ReadIsPostings DEF ReadIndex
<1>3. /\ wpc[b][k] = "read" /\ wlist' = [wlist EXCEPT ![b][k] = merged]
      /\ wpc' = [wpc EXCEPT ![b][k] = "open"]
      /\ UNCHANGED <<store, builder, wpath, wfile, ghost>>
  BY <1>1, <1>2 DEF ReadIndex, At, Goto
<1>4. /\ wlist'[b][k] = merged /\ wpc'[b][k] = "open"
      /\ \A c \in Builders, j \in Keys : c # b \/ j # k =>
             wpc'[c][j] = wpc[c][j] /\ wlist'[c][j] = wlist[c][j]
  BY <1>3, OneWorker DEF FilesInv, TypeOK, Pcs
<1>5. Undisturbed(RowOf[k]) =>
          /\ Others(b, merged) = IF wpath[b][k] = None THEN {} ELSE Others(b, Index(k))
          /\ HasPage(b, merged)
  <2>1. SUFFICES ASSUME Undisturbed(RowOf[k])
                 PROVE  /\ Others(b, merged) =
                               IF wpath[b][k] = None THEN {} ELSE Others(b, Index(k))
                        /\ HasPage(b, merged)
    OBVIOUS
  <2>2. Others(b, merged) = Others(b, list) /\ HasPage(b, merged)
    BY <1>2, MergeOthers
  <2>3. CASE wpath[b][k] = None
    <3>1. list = {}
      BY <2>1, <2>3, ReadIsGood DEF ReadIndex, Undisturbed
    <3>2. QED
      BY <2>2, <2>3, <3>1 DEF Others
  <2>4. CASE wpath[b][k] # None
    <3>1. list = files[wpath[b][k]].list
      BY <2>1, <2>4, ReadIsGood DEF ReadIndex, Undisturbed
    <3>2. QED
      BY <1>3, <2>1, <2>2, <2>4, <3>1 DEF CurrentInv, Merging
  <2>5. QED
    BY <2>3, <2>4
<1>6. Undisturbed(RowOf[k])' => Merging(b, k)'
  <2>1. msg' = msg /\ wpath' = wpath /\ twice' = twice /\ Index(k)' = Index(k)
    BY <1>3 DEF builder, store, ghost, overlap, Index
  <2>2. Undisturbed(RowOf[k])' => Undisturbed(RowOf[k])
    BY <1>3, DisturbedStays DEF ghost, overlap
  <2>3. QED
    BY <1>4, <1>5, <2>1, <2>2 DEF Merging, Others, HasPage
<1>7. WholeStays
  BY <1>3 DEF WholeStays, store, ghost, overlap
<1>8. QED
  BY <1>3, <1>4, <1>6, <1>7, QuietWorker DEF store, ghost, overlap

\* A list in memory that is about to be written stays what Merging says of it.
LEMMA MergingStays ==
  ASSUME NEW b \in Builders, NEW k \in Keys, Merging(b, k),
         wpc[b][k] \in {"open", "write"}, wpc'[b][k] \in {"write", "update", "insert"},
         wpc'[b][k] = "update" => wpath[b][k] # None,
         wpc'[b][k] = "insert" => wpath[b][k] = None,
         UNCHANGED <<msg, twice, wpath, wlist>>, Index(k)' = Index(k)
  PROVE  Merging(b, k)'
BY DEF Merging, Others, HasPage

LEMMA OpenCurrent ==
  ASSUME FilesInv, CurrentInv, NEW b \in Builders, NEW k \in Keys, OpenFile(b, k)
  PROVE  CurrentInv' /\ Kept
<1>1. /\ wpc[b][k] = "open" /\ wpc' = [wpc EXCEPT ![b][k] = "write"]
      /\ UNCHANGED <<path, now, builder, wpath, wlist, latest, missed, raced, twice, crashes>>
  BY DEF OpenFile, At, Goto
<1>2. /\ wpc'[b][k] = "write"
      /\ \A c \in Builders, j \in Keys : c # b \/ j # k => wpc'[c][j] = wpc[c][j]
  BY <1>1, OneWorker DEF FilesInv, TypeOK, Pcs
<1>3. WholeStays
  BY OpenFileKeeps
<1>4. ASSUME Undisturbed(RowOf[k])'  PROVE Merging(b, k)'
  <2>1. Index(k)' = Index(k)
    BY <1>1, <1>3, <1>4, IndexStays DEF Undisturbed
  <2>2. Merging(b, k)
    BY <1>1, <1>3, <1>4, DisturbedStays DEF CurrentInv, WholeStays
  <2>3. QED
    BY <1>1, <1>2, <2>1, <2>2, MergingStays DEF builder
<1>5. QED
  BY <1>1, <1>2, <1>3, <1>4, QuietWorker

LEMMA WriteCurrent ==
  ASSUME FilesInv, CurrentInv, NEW b \in Builders, NEW k \in Keys, WriteFile(b, k)
  PROVE  CurrentInv' /\ Kept
<1>1. PICK to \in {"insert", "update"} :
          /\ to = IF wpath[b][k] = None THEN "insert" ELSE "update"
          /\ wpc[b][k] = "write" /\ wpc' = [wpc EXCEPT ![b][k] = to]
          /\ UNCHANGED <<path, now, builder, worker, ghost>>
  BY DEF WriteFile, At, Goto
<1>2. /\ wpc'[b][k] = to
      /\ \A c \in Builders, j \in Keys : c # b \/ j # k => wpc'[c][j] = wpc[c][j]
  BY <1>1, OneWorker DEF FilesInv, TypeOK, Pcs
<1>3. WholeStays
  BY WriteFileKeeps
<1>4. ASSUME Undisturbed(RowOf[k])'  PROVE Merging(b, k)'
  <2>1. Index(k)' = Index(k)
    BY <1>1, <1>3, <1>4, IndexStays DEF Undisturbed
  <2>2. Merging(b, k)
    BY <1>1, <1>3, <1>4, DisturbedStays DEF CurrentInv, WholeStays, ghost, overlap
  <2>3. QED
    BY <1>1, <1>2, <2>1, <2>2, MergingStays DEF builder, worker, ghost, overlap
<1>5. QED
  BY <1>1, <1>2, <1>3, <1>4, QuietWorker DEF ghost, overlap, worker

\* The row gets a list with the worker's page and every other page it had; a
\* refused statement is remembered.
LEMMA PointCurrent ==
  ASSUME FilesInv, CurrentInv, NEW b \in Builders, NEW k \in Keys,
         wpc[b][k] \in {"update", "insert"}, Goto(b, k, "done"),
         (Point(b, k) /\ (wpc[b][k] = "insert" => path[RowOf[k]] = None)) \/ Miss(b, k),
         UNCHANGED <<files, now, builder, worker, delivered, latest, overlap, crashes>>
  PROVE  CurrentInv' /\ Kept
<1>1. /\ wpc'[b][k] = "done"
      /\ \A c \in Builders, j \in Keys : c # b \/ j # k => wpc'[c][j] = wpc[c][j]
  BY OneWorker DEF Goto, FilesInv, TypeOK, Pcs
<1>2. Merging(b, k)'
  BY <1>1 DEF Merging
<1>3. msg[b].id \in PageIds
  BY WorkerPage, Constants
<1>4. WholeStays /\ UNCHANGED <<builder, latest, raced, twice, crashes, wpath, wlist>>
  BY DEF WholeStays, overlap, worker
<1>5. CASE Miss(b, k)
  <2>1. \A j \in Keys : Index(j)' = Index(j)
    BY <1>5 DEF Miss, Index
  <2>2. \A j \in Keys : Others(b, Index(j)') = Others(b, Index(j))
    BY <2>1
  <2>3. missed' = missed \cup {<<msg[b].id, k>>}
    BY <1>5 DEF Miss
  <2>4. QED
    BY <1>1, <1>2, <1>4, <2>1, <2>2, <2>3, WorkerCurrent
<1>6. CASE Point(b, k) /\ (wpc[b][k] = "insert" => path[RowOf[k]] = None)
  <2>1. PICK f \in Names : f = wfile[b][k] /\ f[1] = k
                           /\ (f \notin reopened => files[f] = Whole(wlist[b][k]))
    BY DEF FilesInv, WorkerInv
  <2>2. path' = [path EXCEPT ![RowOf[k]] = f] /\ missed' = missed \ {<<msg[b].id, k>>}
    BY <1>6, <2>1 DEF Point
  <2>3. \A j \in Keys : IF RowOf[j] = RowOf[k]
                        THEN Undisturbed(RowOf[k]) => Index(j)' = wlist[b][k]
                        ELSE Index(j)' = Index(j)
    <3>1. f # None /\ RowOf[k] \in Rows /\ path \in [Rows -> Names \cup {None}]
      BY Constants DEF FilesInv, TypeOK
    <3>2. Undisturbed(RowOf[k]) => files'[f].list = wlist[b][k]
      BY <2>1 DEF Whole, Undisturbed, Reopened
    <3>3. QED
      BY <2>2, <3>1, <3>2, Constants DEF Index
  <2>4. Undisturbed(RowOf[k]) =>
            Others(b, wlist[b][k]) = Others(b, Index(k)) /\ HasPage(b, wlist[b][k])
    <3>1. SUFFICES ASSUME Merging(b, k)
                   PROVE  Others(b, wlist[b][k]) = Others(b, Index(k)) /\ HasPage(b, wlist[b][k])
      BY DEF CurrentInv
    <3>2. CASE wpc[b][k] = "update"
      BY <3>1, <3>2 DEF Merging
    <3>3. CASE wpc[b][k] = "insert"
      <4>1. Index(k) = {}
        BY <1>6, <3>3 DEF Index
      <4>2. Others(b, Index(k)) = {}
        BY <4>1 DEF Others
      <4>3. QED
        BY <3>1, <3>3, <4>2 DEF Merging
    <3>4. QED
      BY <3>2, <3>3
  <2>5. \A j \in Keys : Undisturbed(RowOf[j])' => Undisturbed(RowOf[j])
    BY DEF Undisturbed, Reopened, overlap
  <2>6. ASSUME NEW j \in Keys, Undisturbed(RowOf[j])'
        PROVE  /\ RowOf[j] # RowOf[k] => Index(j)' = Index(j)
               /\ Others(b, Index(j)') = Others(b, Index(j))
               /\ \/ Index(j)' = Index(j)
                     /\ (<<msg[b].id, j>> \in missed => <<msg[b].id, j>> \in missed')
                  \/ HasPage(b, Index(j)')
    <3>1. CASE RowOf[j] = RowOf[k]
      <4>1. Undisturbed(RowOf[k]) /\ Index(j)' = wlist[b][k]
        BY <2>3, <2>5, <2>6, <3>1
      <4>2. Index(j) = Index(k)
        BY <3>1 DEF Index
      <4>3. QED
        BY <2>4, <3>1, <4>1, <4>2
    <3>2. CASE RowOf[j] # RowOf[k]
      <4>1. Index(j)' = Index(j) /\ j # k
        BY <2>3, <3>2
      <4>2. QED
        BY <2>2, <3>2, <4>1
    <3>3. QED
      BY <3>1, <3>2
  <2>7. Undisturbed(RowOf[k])' => HasPage(b, Index(k)')
    BY <2>3, <2>4, <2>5
  <2>8. QED
    BY <1>1, <1>2, <1>4, <2>2, <2>6, <2>7, WorkerCurrent
<1>7. QED
  BY <1>5, <1>6

\* A step that changes neither a row nor a file keeps every list.
LEMMA QuietKept ==
  ASSUME UNCHANGED <<path, files>>
  PROVE  Kept
BY DEF Kept, Index

\* Workers and pages that two builders have at once are noticed by what makes
\* them two.
LEMMA SpawnCurrent ==
  ASSUME FilesInv, CurrentInv, NEW b \in Builders, NEW k \in Keys, Spawn(b, k)
  PROVE  CurrentInv' /\ Kept
<1>1. PICK p \in Names \cup {None} :
          p \in {path[RowOf[k]], None} /\ wpath' = [wpath EXCEPT ![b][k] = p]
  BY Constants DEF Spawn, FilesInv, TypeOK
<1>2. /\ k \in todo[b] /\ todo' = [todo EXCEPT ![b] = @ \ {k}]
      /\ wpc' = [wpc EXCEPT ![b][k] = "read"]
      /\ raced' = raced \cup {r \in {RowOf[k]} : \E c \in Builders \ {b} : Busy(c, r)}
      /\ UNCHANGED <<store, msg, wlist, wfile, delivered, latest, missed, twice, reopened, crashes>>
  BY DEF Spawn, Goto
<1>3. /\ wpc'[b][k] = "read"
      /\ \A c \in Builders, j \in Keys : c # b \/ j # k => wpc'[c][j] = wpc[c][j]
  BY <1>2, OneWorker DEF FilesInv, TypeOK, Pcs
<1>4. /\ wpath'[b][k] = p
      /\ \A c \in Builders, j \in Keys : c # b \/ j # k => wpath'[c][j] = wpath[c][j]
  <2> DEFINE Names0 == Names \cup {None}
  <2>1. wpath \in [Builders -> [Keys -> Names0]] /\ p \in Names0
    BY DEF FilesInv, TypeOK
  <2> HIDE DEF Names0
  <2>2. QED
    BY <1>1, <2>1, OneWorker
<1>5. /\ todo'[b] = todo[b] \ {k}
      /\ \A c \in Builders \ {b} : todo'[c] = todo[c]
  BY <1>2 DEF FilesInv, TypeOK
<1>6. /\ msg' = msg /\ files' = files /\ path' = path /\ wlist' = wlist
      /\ missed' = missed /\ latest' = latest /\ twice' = twice /\ crashes' = crashes
      /\ reopened' = reopened
  BY <1>2 DEF store
<1>7. \A j \in Keys : Index(j)' = Index(j)
  BY <1>6 DEF Index
<1>8. \A j \in Keys : Undisturbed(RowOf[j])' => Undisturbed(RowOf[j])
  BY <1>2, DisturbedStays
<1>9. ASSUME NEW c \in Builders, NEW j \in Keys, Undisturbed(RowOf[j])'
      PROVE  Merging(c, j)'
  <2>1. CASE c = b /\ j = k
    <3>1. p # None => files[p].list = Index(k)
      BY <1>1 DEF Index
    <3>2. QED
      BY <1>3, <1>4, <1>6, <1>7, <2>1, <3>1 DEF Merging
  <2>2. CASE c # b \/ j # k
    <3>1. Merging(c, j)
      BY <1>8, <1>9 DEF CurrentInv
    <3>2. QED
      BY <1>3, <1>4, <1>6, <1>7, <2>2, <3>1 DEF Merging, Others, HasPage
  <2>3. QED
    BY <2>1, <2>2
<1>10. ASSUME NEW c \in Builders  PROVE Reached(c)'
  <2>1. SUFFICES ASSUME msg[c] # None, NEW j \in msg[c].keys \ todo'[c],
                        wpc'[c][j] \in {"none", "done"}, <<msg[c].id, j>> \notin missed,
                        Undisturbed(RowOf[j])'
                 PROVE  HasPage(c, Index(j))'
    BY <1>6 DEF Reached
  <2>2. j \in Keys
    BY <2>1, Constants DEF FilesInv, TypeOK
  <2>3. (c # b \/ j # k) /\ j \notin todo[c] /\ wpc[c][j] \in {"none", "done"}
    BY <1>3, <1>5, <2>1, <2>2
  <2>4. HasPage(c, Index(j))
    BY <1>8, <2>1, <2>2, <2>3 DEF CurrentInv, Reached
  <2>5. QED
    BY <1>6, <1>7, <2>2, <2>4 DEF HasPage
<1>11. IndexCurrent'
  <2>1. SUFFICES ASSUME NEW i \in PageIds, latest[i] # None, NEW j \in latest[i].keys,
                        <<i, j>> \notin missed, Undisturbed(RowOf[j])'
                 PROVE  \E q \in Index(j)' :
                            /\ q.id = i
                            /\ \/ q.version = latest[i].version
                               \/ \E c \in Builders : msg[c] # None /\ msg[c].id = i
                               \/ i \in twice \/ crashes > 0
    BY <1>6 DEF IndexCurrent
  <2>2. j \in Keys
    BY <2>1, Constants DEF FilesInv, TypeOK
  <2>3. QED
    BY <1>7, <1>8, <2>1, <2>2 DEF CurrentInv, IndexCurrent
<1>12. OverlapInv'
  <2>1. ASSUME NEW c \in Builders, NEW d \in Builders, c # d, NEW r \in Rows,
               Busy(c, r)', Busy(d, r)'
        PROVE  r \in raced'
    <3>1. \A e \in Builders : Busy(e, r)' => Busy(e, r) \/ (e = b /\ r = RowOf[k])
      BY <1>3 DEF Busy
    <3>2. CASE Busy(c, r) /\ Busy(d, r)
      BY <1>2, <2>1, <3>2 DEF CurrentInv, OverlapInv
    <3>3. QED
      BY <1>2, <2>1, <3>1, <3>2
  <2>2. QED
    BY <1>6, <2>1 DEF CurrentInv, OverlapInv
<1>13. QED
  BY <1>6, <1>9, <1>10, <1>11, <1>12, QuietKept DEF CurrentInv

LEMMA TakeCurrent ==
  ASSUME FilesInv, CurrentInv, NEW b \in Builders, NEW m \in Messages, Take(b, m)
  PROVE  CurrentInv' /\ Kept
<1>1. /\ msg[b] = None /\ batch[b] = {} /\ m # None
      /\ msg'[b] = m /\ todo'[b] = m.keys
      /\ \A c \in Builders \ {b} : msg'[c] = msg[c] /\ todo'[c] = todo[c]
      /\ twice' = twice \cup {i \in {m.id} : \E c \in Builders : msg[c] # None /\ msg[c].id = i}
      /\ UNCHANGED <<path, files, wpc, wpath, wlist, latest, missed, raced, reopened, crashes>>
  BY Constants DEF Take, store, worker, FilesInv, BuilderInv, TypeOK
<1>2. \A j \in Keys : wpc'[b][j] = "none"
  BY <1>1 DEF FilesInv, BuilderInv
<1>3. \A j \in Keys : Index(j)' = Index(j) /\ (Undisturbed(RowOf[j])' <=> Undisturbed(RowOf[j]))
  BY <1>1 DEF Index, Undisturbed, Reopened
<1>4. ASSUME NEW c \in Builders \ {b}, NEW list, HasPage(c, list)  PROVE HasPage(c, list)'
  BY <1>1, <1>4 DEF HasPage
<1>5. ASSUME NEW c \in Builders  PROVE Reached(c)'
  <2>1. CASE c = b
    BY <1>1, <2>1 DEF Reached
  <2>2. CASE c # b
    <3>1. SUFFICES ASSUME msg[c] # None, NEW j \in msg[c].keys \ todo[c],
                          wpc[c][j] \in {"none", "done"}, <<msg[c].id, j>> \notin missed,
                          Undisturbed(RowOf[j])'
                   PROVE  HasPage(c, Index(j))'
      BY <1>1, <2>2 DEF Reached
    <3>2. j \in Keys
      BY <3>1, Constants DEF FilesInv, TypeOK
    <3>3. HasPage(c, Index(j))
      BY <1>3, <3>1, <3>2 DEF CurrentInv, Reached
    <3>4. QED
      BY <1>1, <1>3, <2>2, <3>2, <3>3 DEF HasPage
  <2>3. QED
    BY <2>1, <2>2
<1>6. ASSUME NEW c \in Builders, NEW j \in Keys, Undisturbed(RowOf[j])'
      PROVE  Merging(c, j)'
  <2>1. CASE c = b
    BY <1>2, <2>1 DEF Merging
  <2>2. CASE c # b
    <3>1. Merging(c, j) /\ msg'[c] = msg[c]
      BY <1>1, <1>3, <1>6, <2>2 DEF CurrentInv
    <3>2. HasPage(c, wlist[c][j]) => HasPage(c, wlist[c][j])'
      BY <1>1, <2>2 DEF HasPage
    <3>3. QED
      BY <1>1, <1>3, <3>1, <3>2 DEF Merging, Others
  <2>3. QED
    BY <2>1, <2>2
<1>7. IndexCurrent'
  <2>1. SUFFICES ASSUME NEW i \in PageIds, latest[i] # None, NEW j \in latest[i].keys,
                        <<i, j>> \notin missed, Undisturbed(RowOf[j])'
                 PROVE  \E q \in Index(j)' :
                            /\ q.id = i
                            /\ \/ q.version = latest[i].version
                               \/ \E c \in Builders : msg'[c] # None /\ msg'[c].id = i
                               \/ i \in twice' \/ crashes > 0
    BY <1>1 DEF IndexCurrent
  <2>2. j \in Keys
    BY <2>1, Constants DEF FilesInv, TypeOK
  <2>3. PICK q \in Index(j) :
            /\ q.id = i
            /\ \/ q.version = latest[i].version
               \/ \E c \in Builders : msg[c] # None /\ msg[c].id = i
               \/ i \in twice \/ crashes > 0
    BY <1>3, <2>1, <2>2 DEF CurrentInv, IndexCurrent
  <2>4. (\E c \in Builders : msg[c] # None /\ msg[c].id = i) =>
            \E c \in Builders : msg'[c] # None /\ msg'[c].id = i
    BY <1>1
  <2>5. QED
    BY <1>1, <1>3, <2>2, <2>3, <2>4
<1>8. OverlapInv'
  <2>1. \A c \in Builders, r \in Rows : Busy(c, r)' <=> Busy(c, r)
    BY <1>1 DEF Busy
  <2>2. ASSUME NEW c \in Builders, NEW d \in Builders, c # d,
               msg'[c] # None, msg'[d] # None, msg'[c].id = msg'[d].id
        PROVE  msg'[c].id \in twice'
    <3>1. CASE c # b /\ d # b
      BY <1>1, <2>2, <3>1 DEF CurrentInv, OverlapInv
    <3>2. CASE c = b \/ d = b
      BY <1>1, <2>2, <3>2
    <3>3. QED
      BY <3>1, <3>2
  <2>3. QED
    BY <1>1, <2>1, <2>2 DEF CurrentInv, OverlapInv
<1>9. QED
  BY <1>1, <1>5, <1>6, <1>7, <1>8, QuietKept DEF CurrentInv

\* The last batch is joined: each key the page has was reached.
LEMMA JoinCurrent ==
  ASSUME FilesInv, CurrentInv, NEW b \in Builders, Join(b)
  PROVE  CurrentInv' /\ Kept
<1>1. /\ msg[b] # None /\ \A j \in batch[b] : wpc[b][j] = "done"
      /\ ThreadsGone({b}) /\ UNCHANGED <<path, files, todo, missed, overlap, crashes>>
  BY DEF Join, At, store
<1>2. /\ \A j \in Keys : wpc'[b][j] = "none" /\ wpc[b][j] \in {"none", "done"}
      /\ \A c \in Builders \ {b}, j \in Keys :
             wpc'[c][j] = wpc[c][j] /\ wpath'[c][j] = wpath[c][j] /\ wlist'[c][j] = wlist[c][j]
  BY <1>1 DEF ThreadsGone, Reset, FilesInv, BuilderInv
<1>3. \A j \in Keys : Index(j)' = Index(j) /\ (Undisturbed(RowOf[j])' <=> Undisturbed(RowOf[j]))
  BY <1>1 DEF Index, Undisturbed, Reopened, overlap
<1>4. /\ msg' = msg /\ latest' = latest
      \/ /\ todo[b] = {} /\ msg' = [msg EXCEPT ![b] = None]
         /\ latest' = [latest EXCEPT ![msg[b].id] = msg[b]]
  BY DEF Join
<1>5. msg[b] \in Messages /\ msg[b].keys \subseteq Keys /\ msg[b].id \in PageIds
  BY <1>1, Constants DEF FilesInv, TypeOK
<1>6. /\ \A c \in Builders \ {b} : msg'[c] = msg[c]
      /\ msg'[b] \in {msg[b], None} /\ twice' = twice
  BY <1>1, <1>4 DEF FilesInv, TypeOK, overlap
<1>7. ASSUME NEW c \in Builders, NEW j \in Keys, Undisturbed(RowOf[j])'
      PROVE  Merging(c, j)'
  <2>1. CASE c = b
    BY <1>2, <2>1 DEF Merging
  <2>2. CASE c # b
    <3>1. Merging(c, j)
      BY <1>3, <1>7 DEF CurrentInv
    <3>2. QED
      BY <1>1, <1>2, <1>3, <1>6, <2>2, <3>1 DEF Merging, Others, HasPage
  <2>3. QED
    BY <2>1, <2>2
<1>8. \A j \in msg[b].keys \ todo[b] :
          <<msg[b].id, j>> \notin missed /\ Undisturbed(RowOf[j]) => HasPage(b, Index(j))
  BY <1>1, <1>2, <1>5 DEF CurrentInv, Reached
<1>9. ASSUME NEW c \in Builders  PROVE Reached(c)'
  <2>1. SUFFICES ASSUME msg'[c] # None, NEW j \in msg'[c].keys \ todo[c],
                        wpc'[c][j] \in {"none", "done"}, <<msg'[c].id, j>> \notin missed,
                        Undisturbed(RowOf[j])'
                 PROVE  HasPage(c, Index(j))'
    BY <1>1 DEF Reached
  <2>2. msg'[c] = msg[c]
    BY <1>6, <2>1
  <2>3. j \in Keys
    BY <2>1, <2>2, Constants DEF FilesInv, TypeOK
  <2>4. HasPage(c, Index(j))
    <3>1. CASE c = b
      BY <1>3, <1>8, <2>1, <2>2, <2>3, <3>1
    <3>2. CASE c # b
      <4>1. Reached(c) /\ wpc[c][j] \in {"none", "done"}
        BY <1>2, <2>1, <2>3, <3>2 DEF CurrentInv
      <4>2. QED
        BY <1>3, <2>1, <2>2, <2>3, <4>1 DEF Reached
    <3>3. QED
      BY <3>1, <3>2
  <2>5. QED
    BY <1>3, <1>6, <2>2, <2>3, <2>4 DEF HasPage
<1>10. OverlapInv'
  <2>1. \A c \in Builders, r \in Rows : Busy(c, r)' => Busy(c, r)
    BY <1>2 DEF Busy
  <2>2. \A c \in Builders : msg'[c] # None => msg'[c] = msg[c]
    BY <1>6
  <2>3. raced' = raced
    BY <1>1 DEF overlap
  <2>4. QED
    BY <1>6, <2>1, <2>2, <2>3 DEF CurrentInv, OverlapInv
<1>11. IndexCurrent'
  <2> DEFINE Current(i, v, q) ==
                 /\ q.id = i
                 /\ q.version = v \/ i \in twice \/ crashes > 0
  <2>1. \A i \in PageIds : latest'[i] # None => latest'[i].keys \subseteq Keys
    BY <1>4, <1>5, Constants DEF FilesInv, TypeOK
  <2>2. SUFFICES ASSUME NEW i \in PageIds, latest'[i] # None, NEW j \in latest'[i].keys,
                        j \in Keys, <<i, j>> \notin missed, Undisturbed(RowOf[j])
                 PROVE  \E q \in Index(j) :
                            \/ Current(i, latest'[i].version, q)
                            \/ q.id = i /\ \E c \in Builders : msg'[c] # None /\ msg'[c].id = i
    BY <1>1, <1>3, <1>6, <2>1 DEF IndexCurrent
  <2>3. CASE latest'[i] = latest[i] /\ (msg[b].id = i => msg'[b] = msg[b])
    <3>1. PICK q \in Index(j) :
              /\ q.id = i
              /\ \/ q.version = latest[i].version
                 \/ \E c \in Builders : msg[c] # None /\ msg[c].id = i
                 \/ i \in twice \/ crashes > 0
      BY <2>2, <2>3 DEF CurrentInv, IndexCurrent
    <3>2. (\E c \in Builders : msg[c] # None /\ msg[c].id = i) =>
              \E c \in Builders : msg'[c] # None /\ msg'[c].id = i
      BY <1>6, <2>3
    <3>3. QED
      BY <2>3, <3>1, <3>2
  <2>4. CASE i = msg[b].id /\ latest'[i] = msg[b] /\ todo[b] = {}
    <3>1. HasPage(b, Index(j))
      BY <1>8, <2>2, <2>4
    <3>2. QED
      BY <2>4, <3>1 DEF HasPage
  <2>5. \/ latest'[i] = latest[i] /\ (msg[b].id = i => msg'[b] = msg[b])
        \/ i = msg[b].id /\ latest'[i] = msg[b] /\ todo[b] = {}
    BY <1>4, <1>5 DEF FilesInv, TypeOK
  <2>6. QED
    BY <2>3, <2>4, <2>5
<1>12. QED
  BY <1>1, <1>7, <1>9, <1>10, <1>11, QuietKept DEF CurrentInv

\* A crash leaves the files; what a worker had not written is in no list yet.
LEMMA CrashCurrent ==
  ASSUME FilesInv, CurrentInv, Crash
  PROVE  CurrentInv' /\ Kept
<1>1. /\ \A b \in Builders : msg'[b] = None /\ \A j \in Keys : wpc'[b][j] = "none"
      /\ crashes' > 0 /\ UNCHANGED <<path, files, latest, missed, overlap>>
  BY IndexBuilderAssumption DEF Crash, ThreadsGone, Reset, store, FilesInv, TypeOK
<1>2. \A b \in Builders : Reached(b)' /\ \A j \in Keys : Merging(b, j)'
  BY <1>1 DEF Reached, Merging
<1>3. IndexCurrent'
  <2>1. SUFFICES ASSUME NEW i \in PageIds, latest[i] # None, NEW j \in latest[i].keys,
                        <<i, j>> \notin missed, Undisturbed(RowOf[j])
                 PROVE  \E q \in Index(j)' : q.id = i
    BY <1>1 DEF IndexCurrent, Undisturbed, Reopened, overlap
  <2>2. Index(j)' = Index(j)
    BY <1>1 DEF Index
  <2>3. QED
    BY <2>1, <2>2 DEF CurrentInv, IndexCurrent
<1>4. OverlapInv'
  BY <1>1 DEF OverlapInv, Busy
<1>5. QED
  BY <1>1, <1>2, <1>3, <1>4, QuietKept DEF CurrentInv

LEMMA TickCurrent ==
  ASSUME FilesInv, CurrentInv,
         UNCHANGED <<path, files, builder, wpc, worker, ghost>>
  PROVE  CurrentInv' /\ Kept
<1>1. UNCHANGED <<path, files, msg, todo, wpc, wpath, wlist, latest, missed, raced, twice,
                  reopened, crashes>>
  BY DEF builder, worker, ghost, overlap
<1>2. \A j \in Keys : Undisturbed(RowOf[j])' <=> Undisturbed(RowOf[j])
  BY <1>1 DEF Undisturbed, Reopened
<1>3. \A b \in Builders : Reached(b)'
  BY <1>1 DEF CurrentInv, Reached, HasPage, Index, Undisturbed, Reopened
<1>4. \A b \in Builders, j \in Keys : Undisturbed(RowOf[j])' => Merging(b, j)'
  BY <1>1, <1>2 DEF CurrentInv, Merging, Others, HasPage, Index
<1>5. IndexCurrent'
  BY <1>1 DEF CurrentInv, IndexCurrent, Index, Undisturbed, Reopened
<1>6. OverlapInv'
  BY <1>1 DEF CurrentInv, OverlapInv, Busy
<1>7. QED
  BY <1>1, <1>3, <1>4, <1>5, <1>6, QuietKept DEF CurrentInv

LEMMA InitCurrent == Init => CurrentInv
<1> SUFFICES ASSUME Init  PROVE CurrentInv
  OBVIOUS
<1>1. \A b \in Builders : msg[b] = None /\ \A j \in Keys : wpc[b][j] = "none"
  BY DEF Init, Everywhere
<1>2. \A i \in PageIds : latest[i] = None
  BY DEF Init
<1>3. \A b \in Builders : Reached(b) /\ \A j \in Keys : Merging(b, j)
  BY <1>1 DEF Reached, Merging
<1>4. IndexCurrent
  BY <1>2 DEF IndexCurrent
<1>5. OverlapInv
  BY <1>1 DEF OverlapInv, Busy
<1>6. QED
  BY <1>3, <1>4, <1>5 DEF CurrentInv

LEMMA StepCurrent ==
  ASSUME FilesInv, CurrentInv, [Next]_vars
  PROVE  CurrentInv' /\ Kept
<1>1. ASSUME NEW b \in Builders, Step(b)  PROVE CurrentInv' /\ Kept
  <2>1. CASE \E m \in Messages : Take(b, m)
    BY <2>1, TakeCurrent
  <2>2. CASE Join(b)
    BY <2>2, JoinCurrent
  <2>3. ASSUME NEW k \in Keys,
               \/ Spawn(b, k) \/ ReadIndex(b, k) \/ OpenFile(b, k)
               \/ WriteFile(b, k) \/ UpdatePath(b, k) \/ InsertPath(b, k)
        PROVE  CurrentInv' /\ Kept
    <3>1. CASE Spawn(b, k)
      BY <3>1, SpawnCurrent
    <3>2. CASE ReadIndex(b, k)
      BY <3>2, ReadCurrent
    <3>3. CASE OpenFile(b, k)
      BY <3>3, OpenCurrent
    <3>4. CASE WriteFile(b, k)
      BY <3>4, WriteCurrent
    <3>5. CASE UpdatePath(b, k) \/ InsertPath(b, k)
      BY <3>5, PointCurrent DEF UpdatePath, InsertPath, At
    <3>6. QED
      BY <2>3, <3>1, <3>2, <3>3, <3>4, <3>5
  <2>4. QED
    BY <1>1, <2>1, <2>2, <2>3 DEF Step
<1>2. CASE UNCHANGED vars
  BY <1>2, TickCurrent DEF vars, store
<1>3. CASE Tick
  BY <1>3, TickCurrent DEF Tick
<1>4. CASE Crash
  BY <1>4, CrashCurrent
<1>5. QED
  BY <1>1, <1>2, <1>3, <1>4 DEF Next

\* A finished page is found under each of its keys that MySQL did not refuse, for
\* any number of builders: a key is excepted only when workers of two builders were
\* at its row at once, or a file of the row was opened again.
THEOREM IndexIsCurrent == Spec => []IndexCurrent
<1>1. FilesInv /\ CurrentInv /\ [Next]_vars => CurrentInv'
  BY StepCurrent
<1>2. CurrentInv => IndexCurrent
  BY DEF CurrentInv
<1>3. QED
  BY <1>1, <1>2, InitCurrent, FilesInvHolds, PTL DEF Spec

\* Indexing a page takes no other page out of a list, for any number of builders and
\* every row that was not disturbed in the same way.
THEOREM NoPageForgotten == Spec => NothingForgotten
<1>1. FilesInv /\ CurrentInv /\ [Next]_vars => CurrentInv'
  BY StepCurrent
<1>2. FilesInv /\ CurrentInv /\ [Next]_vars
          => [\A k \in Keys : Undisturbed(RowOf[k])' =>
                  \A q \in Index(k) : \E p \in Index(k)' : p.id = q.id]_vars
  BY StepCurrent DEF Kept
<1>3. QED
  BY <1>1, <1>2, InitCurrent, FilesInvHolds, PTL DEF Spec, NothingForgotten
=============================================================================
