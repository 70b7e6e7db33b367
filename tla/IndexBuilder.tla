---------------------------- MODULE IndexBuilder ----------------------------
(***************************************************************************)
(* The index builders of indexBuilder.cpp.  A builder takes a page, splits *)
(* it into keys and starts one worker thread per key, a batch at a time.   *)
(* A worker reads the key's index file, merges the page's postings into    *)
(* the list, writes a new file whose name is the key and the second, and   *)
(* points the key's row in InvertedIndexTable to it.                       *)
(*                                                                         *)
(* The kernel's files and MySQL's table survive a crash of the process,    *)
(* what the builders and workers hold does not.                            *)
(***************************************************************************)
EXTENDS Naturals, FiniteSets

CONSTANTS
    Builders,
    Keys,           \* the words of the pages
    RowOf,          \* RowOf[k]: MySQL's collation class of k, what `key` = k selects
    Messages,       \* pages to index: [id, version, keys]
    Faults,         \* "select", "insert", "update": MySQL may refuse such a statement
    BatchSize,      \* 16 in the code
    MaxTime,        \* bound of the model: seconds
    MaxDeliveries,  \* bound of the model: how often one message is taken
    MaxCrashes,     \* bound of the model
    None

ASSUME IndexBuilderAssumption ==
    /\ Keys = DOMAIN RowOf
    /\ Messages \subseteq [id : Nat, version : Nat, keys : SUBSET Keys]
    /\ \A m \in Messages : IsFiniteSet(m.keys) /\ m.keys # {}
    /\ Faults \subseteq {"select", "insert", "update"}
    /\ BatchSize \in Nat \ {0}
    /\ {MaxTime, MaxDeliveries, MaxCrashes} \subseteq Nat
    /\ None \notin Messages \cup (Keys \X Nat)

Rows == {RowOf[k] : k \in Keys}
Names == Keys \X (0 .. MaxTime)      \* gen_invIndex_filepath: md5(key) \o '_' \o time

\* A posting is the occurrence of a key in a version of a page.  A list keeps
\* the page of each posting; page_set is the set of these pages.
Postings ==
    UNION {{[id |-> m.id, version |-> m.version, key |-> k] : k \in m.keys} : m \in Messages}

Absent == [kind |-> "absent", list |-> {}]
Open == [kind |-> "open", list |-> {}]        \* truncated, not yet written
Whole(list) == [kind |-> "whole", list |-> list]

VARIABLES
    path,       \* InvertedIndexTable: path[r] is the file of row r, None without a row
    files,      \* the files under ./data/invIndex/
    now,        \* time()
    msg,        \* msg[b]: the page builder b works on, None when it waits
    todo,       \* todo[b]: the keys of inv_map it has not reached
    batch,      \* batch[b]: the keys of its work_threads
    wpc,        \* wpc[b][k]: where b's worker for k is
    wpath,      \* its argument path, None for "-1"
    wlist,      \* the list it has in memory
    wfile,      \* opath
    delivered,  \* how often each message was taken
    latest,     \* latest[i]: the last message of page i that was finished
    missed,     \* <<i, k>>: the last SQL statement for key k of page i was refused
    raced,      \* the rows that workers of two builders were at at once
    twice,      \* the pages that two builders had at once
    reopened,   \* the files that were opened again
    crashes

store == <<path, files, now>>
builder == <<msg, todo, batch>>
worker == <<wpath, wlist, wfile>>
overlap == <<raced, twice, reopened>>
ghost == <<delivered, latest, missed, overlap, crashes>>
vars == <<store, builder, wpc, worker, ghost>>

PageIds == {m.id : m \in Messages}
Everywhere(v) == [b \in Builders |-> [k \in Keys |-> v]]

Init ==
    /\ path = [r \in Rows |-> None]
    /\ files = [f \in Names |-> Absent]
    /\ now = 0
    /\ msg = [b \in Builders |-> None]
    /\ todo = [b \in Builders |-> {}]
    /\ batch = [b \in Builders |-> {}]
    /\ wpc = Everywhere("none")
    /\ wpath = Everywhere(None)
    /\ wlist = Everywhere({})
    /\ wfile = Everywhere(None)
    /\ delivered = [m \in Messages |-> 0]
    /\ latest = [i \in PageIds |-> None]
    /\ missed = {}
    /\ raced = {} /\ twice = {} /\ reopened = {}
    /\ crashes = 0

At(b, k, here) == wpc[b][k] = here
Goto(b, k, to) == wpc' = [wpc EXCEPT ![b][k] = to]

(***************************************************************************)
(* builder::run.                                                           *)
(***************************************************************************)
\* getFront and preprocess.
Take(b, m) ==
    /\ msg[b] = None
    /\ delivered[m] < MaxDeliveries
    /\ delivered' = [delivered EXCEPT ![m] = @ + 1]
    /\ msg' = [msg EXCEPT ![b] = m]
    /\ todo' = [todo EXCEPT ![b] = m.keys]
    /\ twice' = twice \cup {i \in {m.id} : \E c \in Builders : msg[c] # None /\ msg[c].id = i}
    /\ UNCHANGED <<store, batch, wpc, worker, latest, missed, raced, reopened, crashes>>

\* A worker of builder c is between the SELECT and the last statement for row r.
Busy(c, r) == \E k \in Keys : RowOf[k] = r /\ wpc[c][k] \notin {"none", "done"}

\* get_inv_index_path of the next key, and the thread of its worker.
Spawn(b, k) ==
    /\ k \in todo[b]
    /\ Cardinality(batch[b]) < BatchSize
    /\ todo' = [todo EXCEPT ![b] = @ \ {k}]
    /\ batch' = [batch EXCEPT ![b] = @ \cup {k}]
    /\ \/ wpath' = [wpath EXCEPT ![b][k] = path[RowOf[k]]]
       \/ "select" \in Faults /\ wpath' = [wpath EXCEPT ![b][k] = None]
    /\ Goto(b, k, "read")
    /\ raced' = raced \cup {r \in {RowOf[k]} : \E c \in Builders \ {b} : Busy(c, r)}
    /\ UNCHANGED <<store, msg, wlist, wfile, delivered, latest, missed, twice, reopened, crashes>>

\* The builders bs have no worker any more.
Reset(v, bs, value) == [b \in Builders |-> IF b \in bs THEN [k \in Keys |-> value] ELSE v[b]]

ThreadsGone(bs) ==
    /\ wpc' = Reset(wpc, bs, "none")
    /\ wpath' = Reset(wpath, bs, None)
    /\ wlist' = Reset(wlist, bs, {})
    /\ wfile' = Reset(wfile, bs, None)

\* Not in the code: the threads of the last batch are not joined.
BugJoin(b) ==
    /\ msg[b] # None
    /\ Cardinality(batch[b]) = BatchSize \/ todo[b] = {}
    /\ batch' = [batch EXCEPT ![b] = {}]
    /\ ThreadsGone({b})
    /\ IF todo[b] = {}
       THEN /\ msg' = [msg EXCEPT ![b] = None]
            /\ latest' = [latest EXCEPT ![msg[b].id] = msg[b]]
       ELSE UNCHANGED <<msg, latest>>
    /\ UNCHANGED <<store, todo, delivered, missed, overlap, crashes>>

\* The threads of a full batch, or of the last one, are joined.
Join(b) ==
    /\ msg[b] # None
    /\ Cardinality(batch[b]) = BatchSize \/ todo[b] = {}
    /\ \A k \in batch[b] : At(b, k, "done")
    /\ batch' = [batch EXCEPT ![b] = {}]
    /\ ThreadsGone({b})
    /\ IF todo[b] = {}
       THEN /\ msg' = [msg EXCEPT ![b] = None]
            /\ latest' = [latest EXCEPT ![msg[b].id] = msg[b]]
       ELSE UNCHANGED <<msg, latest>>
    /\ UNCHANGED <<store, todo, delivered, missed, overlap, crashes>>

(***************************************************************************)
(* worker.                                                                 *)
(***************************************************************************)
\* What the worker holds once it has read file f.  Every exception of the read
\* is swallowed: of a file that is being written it gets any part of a list,
\* with nodes left uninitialised.
Contents(f) ==
    CASE f = None -> {{}}
      [] f # None /\ files[f].kind = "whole" -> {files[f].list}
      [] OTHER -> SUBSET Postings

Posting(b, k) == [id |-> msg[b].id, version |-> msg[b].version, key |-> k]

\* Not in the code: the list on disk is replaced.
BugMergeNone(list, p) == {p}

\* Not in the code: the page's old postings stay.
BugMergeAll(list, p) == list \cup {p}

\* Postings of the page are erased from the list, and its new ones merged in.
Merge(list, p) == {q \in list : q.id # p.id} \cup {p}

ReadIndex(b, k) ==
    /\ At(b, k, "read")
    /\ \E list \in Contents(wpath[b][k]) :
           wlist' = [wlist EXCEPT ![b][k] = Merge(list, Posting(b, k))]
    /\ Goto(b, k, "open")
    /\ UNCHANGED <<store, builder, wpath, wfile, ghost>>

\* The ofstream truncates the file of that name if there is one.
Truncate(f) ==
    /\ files' = [files EXCEPT ![f] = Open]
    /\ reopened' = reopened \cup {g \in {f} : files[g].kind # "absent"}

\* Not in the code: MySQL learns the path before the file is written.
BugOpenFile(b, k) ==
    /\ At(b, k, "open")
    /\ wfile' = [wfile EXCEPT ![b][k] = <<k, now>>]
    /\ path' = [path EXCEPT ![RowOf[k]] = <<k, now>>]
    /\ Truncate(<<k, now>>)
    /\ Goto(b, k, "write")
    /\ UNCHANGED <<now, builder, wpath, wlist, delivered, latest, missed, raced, twice, crashes>>

OpenFile(b, k) ==
    /\ At(b, k, "open")
    /\ wfile' = [wfile EXCEPT ![b][k] = <<k, now>>]
    /\ Truncate(<<k, now>>)
    /\ Goto(b, k, "write")
    /\ UNCHANGED <<path, now, builder, wpath, wlist, delivered, latest, missed, raced, twice, crashes>>

WriteFile(b, k) ==
    /\ At(b, k, "write")
    /\ files' = [files EXCEPT ![wfile[b][k]] = Whole(wlist[b][k])]
    /\ Goto(b, k, IF wpath[b][k] = None THEN "insert" ELSE "update")
    /\ UNCHANGED <<path, now, builder, worker, ghost>>

\* The statement is executed, or refused.
Point(b, k) ==
    /\ path' = [path EXCEPT ![RowOf[k]] = wfile[b][k]]
    /\ missed' = missed \ {<<msg[b].id, k>>}

Miss(b, k) ==
    /\ missed' = missed \cup {<<msg[b].id, k>>}
    /\ UNCHANGED path

\* Not in the code: the UPDATE has no WHERE.
BugUpdatePath(b, k) ==
    /\ At(b, k, "update")
    /\ path' = [r \in Rows |-> IF path[r] = None THEN None ELSE wfile[b][k]]
    /\ Goto(b, k, "done")
    /\ UNCHANGED <<files, now, builder, worker, ghost>>

\* UPDATE and commit.
UpdatePath(b, k) ==
    /\ At(b, k, "update")
    /\ \/ Point(b, k)
       \/ "update" \in Faults /\ Miss(b, k)
    /\ Goto(b, k, "done")
    /\ UNCHANGED <<files, now, builder, worker, delivered, latest, overlap, crashes>>

\* INSERT; the unique index refuses a second row of the same key.
InsertPath(b, k) ==
    /\ At(b, k, "insert")
    /\ \/ path[RowOf[k]] = None /\ Point(b, k)
       \/ (path[RowOf[k]] # None \/ "insert" \in Faults) /\ Miss(b, k)
    /\ Goto(b, k, "done")
    /\ UNCHANGED <<files, now, builder, worker, delivered, latest, overlap, crashes>>

-----------------------------------------------------------------------------
Tick ==
    /\ now < MaxTime
    /\ now' = now + 1
    /\ UNCHANGED <<path, files, builder, wpc, worker, ghost>>

\* The process dies: what it had in memory is gone, what it had on disk stays.
Crash ==
    /\ crashes < MaxCrashes
    /\ crashes' = crashes + 1
    /\ msg' = [b \in Builders |-> None]
    /\ todo' = [b \in Builders |-> {}]
    /\ batch' = [b \in Builders |-> {}]
    /\ ThreadsGone(Builders)
    /\ UNCHANGED <<store, delivered, latest, missed, overlap>>

Step(b) ==
    \/ \E m \in Messages : Take(b, m)
    \/ Join(b)
    \/ \E k \in Keys :
           \/ Spawn(b, k) \/ ReadIndex(b, k) \/ OpenFile(b, k)
           \/ WriteFile(b, k) \/ UpdatePath(b, k) \/ InsertPath(b, k)

Next == (\E b \in Builders : Step(b)) \/ Tick \/ Crash

Spec == Init /\ [][Next]_vars

-----------------------------------------------------------------------------
\* What a search for k finds: the list in the file the key's row names.
Index(k) == IF path[RowOf[k]] = None THEN {} ELSE files[path[RowOf[k]]].list

Pcs == {"none", "read", "open", "write", "update", "insert", "done"}

TypeOK ==
    /\ path \in [Rows -> Names \cup {None}]
    /\ files \in [Names -> [kind : {"absent", "open", "whole"}, list : SUBSET Postings]]
    /\ now \in 0 .. MaxTime
    /\ msg \in [Builders -> Messages \cup {None}]
    /\ todo \in [Builders -> SUBSET Keys]
    /\ batch \in [Builders -> SUBSET Keys]
    /\ wpc \in [Builders -> [Keys -> Pcs]]
    /\ wpath \in [Builders -> [Keys -> Names \cup {None}]]
    /\ wlist \in [Builders -> [Keys -> SUBSET Postings]]
    /\ wfile \in [Builders -> [Keys -> Names \cup {None}]]
    /\ delivered \in [Messages -> 0 .. MaxDeliveries]
    /\ latest \in [PageIds -> Messages \cup {None}]
    /\ missed \subseteq PageIds \X Keys
    /\ raced \subseteq Rows /\ twice \subseteq PageIds /\ reopened \subseteq Names
    /\ crashes \in 0 .. MaxCrashes

\* A file of row r was opened again: within the second, or by another builder.
Reopened(r) == \E f \in reopened : RowOf[f[1]] = r

\* Nothing came in between for row r: see the conditions of the properties.
Undisturbed(r) == r \notin raced /\ ~ Reopened(r)

\* The row of a key never names a file that is missing or half written, unless
\* that very file was opened again: the path changes only after the file is
\* closed, so a crash between the two loses nothing that was indexed.  Two
\* workers of a key within one second have one file (indexBuilder.cpp:488).
PathWhole ==
    \A r \in Rows : path[r] # None /\ path[r] \notin reopened => files[path[r]].kind = "whole"

\* A finished page is found under each of its keys that MySQL did not refuse,
\* whatever builders and workers overlap elsewhere: the list has its postings,
\* those of the version finished last, or of one that a builder works on or
\* worked on together with another, or that a crash interrupted.
IndexCurrent ==
    \A i \in PageIds : latest[i] # None =>
        \A k \in latest[i].keys : <<i, k>> \notin missed /\ Undisturbed(RowOf[k]) =>
            \E q \in Index(k) :
                /\ q.id = i
                /\ \/ q.version = latest[i].version
                   \/ \E b \in Builders : msg[b] # None /\ msg[b].id = i
                   \/ i \in twice \/ crashes > 0

\* A list has postings of one version of a page only: those of the older one
\* are erased first (indexBuilder.cpp:299), whatever the builders overlap.
OneVersion(k) == \A p, q \in Index(k) : p.id = q.id => p = q

\* A delivered version of the page says what posting q says.
Said(q) ==
    \E m \in Messages :
        m.id = q.id /\ m.version = q.version /\ q.key \in m.keys /\ delivered[m] > 0

\* What a list says of a page, some version of the page said that was delivered.
IndexTruthful(k) == \A q \in Index(k) : RowOf[q.key] = RowOf[k] /\ Said(q)

\* A list never mixes versions, keys or pages, whatever builders race for it, as
\* long as none of its files was opened again.
ListsTruthful ==
    \A k \in Keys : ~ Reopened(RowOf[k]) => OneVersion(k) /\ IndexTruthful(k)

\* Merging keeps the other pages (indexBuilder.cpp:172, 311): a page that a
\* search for k finds is never dropped from the list of k by indexing another,
\* unless workers of two builders were at that list at once or one of its files
\* was opened again.
NothingForgotten ==
    [][\A k \in Keys : Undisturbed(RowOf[k])' =>
           \A q \in Index(k) : \E p \in Index(k)' : p.id = q.id]_vars

-----------------------------------------------------------------------------
(***************************************************************************)
(* The inductive invariant behind PathWhole and ListsTruthful.             *)
(***************************************************************************)

\* What a builder and its workers are at.
BuilderInv(b) ==
    /\ msg[b] = None => todo[b] = {} /\ batch[b] = {}
    /\ msg[b] # None => /\ delivered[msg[b]] > 0
                        /\ todo[b] \cup batch[b] \subseteq msg[b].keys
                        /\ todo[b] \cap batch[b] = {}
    /\ \A k \in Keys : k \in batch[b] <=> wpc[b][k] # "none"

\* A list that may be searched under row r.
Good(list, r) ==
    /\ list \subseteq Postings
    /\ \A p, q \in list : p.id = q.id => p = q
    /\ \A q \in list : RowOf[q.key] = r /\ Said(q)

\* f names a file of row r that was written to its end, if it was opened once.
GoodFile(f, r) ==
    f \in Names /\ RowOf[f[1]] = r /\ (f \notin reopened => files[f].kind = "whole")

\* A worker's list is good, and its file is its own if it was opened once.
WorkerInv(b, k) ==
    /\ wpc[b][k] # "none" /\ wpath[b][k] # None => GoodFile(wpath[b][k], RowOf[k])
    /\ wpc[b][k] \in {"open", "write", "update", "insert"} /\ ~ Reopened(RowOf[k]) =>
           Good(wlist[b][k], RowOf[k])
    /\ wpc[b][k] \in {"write", "update", "insert"} =>
           wfile[b][k] \in Names /\ wfile[b][k][1] = k
    /\ wfile[b][k] \notin reopened =>
           /\ wpc[b][k] = "write" => files[wfile[b][k]].kind = "open"
           /\ wpc[b][k] \in {"update", "insert"} => files[wfile[b][k]] = Whole(wlist[b][k])

FilesInv ==
    /\ TypeOK
    /\ \A b \in Builders : BuilderInv(b)
    /\ \A r \in Rows : path[r] # None => GoodFile(path[r], r)
    /\ \A f \in Names : files[f].kind = "whole" /\ ~ Reopened(RowOf[f[1]]) =>
           Good(files[f].list, RowOf[f[1]])
    /\ \A b \in Builders, k \in Keys : WorkerInv(b, k)
    /\ \A b, c \in Builders, k \in Keys :
           wpc[b][k] = "write" /\ wpc[c][k] = "write" /\ wfile[b][k] = wfile[c][k] =>
               b = c \/ wfile[b][k] \in reopened

(***************************************************************************)
(* The inductive invariant behind IndexCurrent and NothingForgotten: the   *)
(* workers at an undisturbed row are of one builder and one page, and what *)
(* they are about to write keeps the other pages of the list it replaces.  *)
(***************************************************************************)

\* Who was at a row or a page together with another was noticed.
OverlapInv ==
    \A b, c \in Builders : b # c =>
        /\ \A r \in Rows : Busy(b, r) /\ Busy(c, r) => r \in raced
        /\ msg[b] # None /\ msg[c] # None /\ msg[b].id = msg[c].id => msg[b].id \in twice

Others(b, list) == {q \in list : q.id # msg[b].id}

\* The postings of b's page are in list, in the version b has if b has the page alone.
HasPage(b, list) ==
    \E q \in list :
        q.id = msg[b].id /\ (q.version = msg[b].version \/ msg[b].id \in twice)

\* The list a worker read and the one its row leads to by now differ in the
\* postings of its page only, and what it writes has that page.
Merging(b, k) ==
    /\ wpc[b][k] = "read" /\ wpath[b][k] # None =>
           Others(b, files[wpath[b][k]].list) = Others(b, Index(k))
    /\ wpc[b][k] \in {"open", "write", "update", "insert"} =>
           /\ Others(b, wlist[b][k]) = IF wpath[b][k] = None THEN {} ELSE Others(b, Index(k))
           /\ HasPage(b, wlist[b][k])
    /\ wpc[b][k] = "update" => wpath[b][k] # None
    /\ wpc[b][k] = "insert" => wpath[b][k] = None

\* The undisturbed keys a builder is through with lead to its page.
Reached(b) ==
    msg[b] # None =>
        \A k \in msg[b].keys \ todo[b] :
            wpc[b][k] \in {"none", "done"} /\ <<msg[b].id, k>> \notin missed
                /\ Undisturbed(RowOf[k]) => HasPage(b, Index(k))

CurrentInv ==
    /\ OverlapInv
    /\ \A b \in Builders : Reached(b)
    /\ \A b \in Builders, k \in Keys : Undisturbed(RowOf[k]) => Merging(b, k)
    /\ IndexCurrent
=============================================================================
