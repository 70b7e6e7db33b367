----------------------------- MODULE Searchers ------------------------------
(***************************************************************************)
(* The threads of searcher.cpp around the search itself (which is module   *)
(* Search): each takes a query from the inbox, reads the list of each key  *)
(* with a MySQL connection, then looks the pages up and writes the answer  *)
(* with a redis and a MySQL connection.  Of the two pools there is how many *)
(* connections are free, and where a searcher is in get_conn: it polls      *)
(* without the mutex, then scans with it, and if no connection is free any *)
(* more by then it scans for ever.                                         *)
(***************************************************************************)
EXTENDS Naturals, Sequences, FiniteSets

CONSTANTS
    Searchers,
    Queries,
    Keys,
    KeysOf,        \* KeysOf[q]: the words of q, in order
    MysqlConns,    \* mysql_pool_max_conn
    RedisConns,    \* redis_pool_max_conn
    SearchFaults,  \* a subset of {"select", "refuse", "redis", "auth"}
    MaxVersion,    \* bound of the model: MaxVersion[k] versions of k's list
    MaxTrouble,    \* bound of the model: faults of the searchers' databases
    None

\* "select": MySQL refuses a SELECT; "refuse": redis answers a SET with an
\* error; "redis": a redis connection fails in a SET; "auth": the one that
\* replaces it is refused by AUTH.
ASSUME SearchersAssumption ==
    /\ IsFiniteSet(Searchers)
    /\ KeysOf \in [Queries -> Seq(Keys)]
    /\ {MysqlConns, RedisConns} \subseteq Nat \ {0}
    /\ SearchFaults \subseteq {"select", "refuse", "redis", "auth"}
    /\ MaxVersion \in [Keys -> Nat] /\ MaxTrouble \in Nat
    /\ None \notin Queries
    /\ \A K \in SUBSET Keys : None \notin [K -> Nat]

VARIABLES
    index,      \* index[k]: the version of k's list, 0 when k has no row
    inbox,      \* recv_from_WS_queue
    store,      \* redis: store[q] is the answer under "search:" \o id of q
    running,    \* the process runs
    sc,         \* sc[s]: where searcher s is
    query,      \* query[s]: what it works at
    n,          \* n[s]: the position in the words of its query it is at
    read,       \* read[s]: the version of each list read, 0 when none
    gc,         \* gc[s]: where in get_conn s is, if that is what it is at
    holds,      \* holds[s]: the pools s has a connection of
    free,       \* conn_num_free and empty_num: how many connections are free
    misses,     \* how many words without a row were looked up
    refused,    \* queries whose answer redis refused
    trouble     \* how often a fault happened

pools == <<gc, holds, free, misses>>
ghosts == <<refused, trouble>>
searcherVars == <<index, inbox, store, running, sc, query, n, read, pools, ghosts>>

Conns == [mysql |-> MysqlConns, redis |-> RedisConns]
Pools == DOMAIN Conns

Unread == [k \in Keys |-> 0]

KeySet(q) == {KeysOf[q][i] : i \in DOMAIN KeysOf[q]}

SearchersInit ==
    /\ index = [k \in Keys |-> 0]
    /\ inbox = <<>>
    /\ store = [q \in Queries |-> None]
    /\ running = TRUE
    /\ sc = [s \in Searchers |-> "idle"]
    /\ query = [s \in Searchers |-> None]
    /\ n = [s \in Searchers |-> 1]
    /\ read = [s \in Searchers |-> Unread]
    /\ gc = [s \in Searchers |-> "poll"]
    /\ holds = [s \in Searchers |-> {}]
    /\ free = Conns
    /\ misses = 0
    /\ refused = {} /\ trouble = 0

At(s, here) == running /\ sc[s] = here
Goto(s, to) == sc' = [sc EXCEPT ![s] = to]
Trouble(kind) ==
    kind \in SearchFaults /\ trouble < MaxTrouble /\ trouble' = trouble + 1

\* The indexBuilder gives k a new list.
Grow(k) ==
    /\ index[k] < MaxVersion[k]
    /\ index' = [index EXCEPT ![k] = @ + 1]
    /\ UNCHANGED <<inbox, store, running, sc, query, n, read, pools, ghosts>>

Words(s) == KeysOf[query[s]]
Word(s) == Words(s)[n[s]]

\* On from position i of words: to the next word that was not read yet, or to
\* the output.
OnFrom(s, words, i, done) ==
    LET todo == {j \in i .. Len(words) : done[words[j]] = 0}
    IN  IF todo = {}
        THEN Goto(s, "redis") /\ UNCHANGED n
        ELSE /\ Goto(s, "conn")
             /\ \E next \in todo :
                    /\ \A j \in todo : next <= j
                    /\ n' = [n EXCEPT ![s] = next]

GetFront(s) ==
    /\ At(s, "idle")
    /\ inbox # <<>>
    /\ inbox' = Tail(inbox)
    /\ query' = [query EXCEPT ![s] = Head(inbox)]
    /\ OnFrom(s, KeysOf[Head(inbox)], 1, read[s])
    /\ UNCHANGED <<index, store, running, read, pools, ghosts>>

(***************************************************************************)
(* The two pools.                                                          *)
(***************************************************************************)
\* Where the searchers call get_conn, and where they go with the connection.
Getting == [mysql |-> {"conn", "mysql"}, redis |-> {"redis", "again"}]
Got == [conn |-> "select", redis |-> "mysql", mysql |-> "pages", again |-> "set"]

\* Where they call free_conn.
Freeing == [mysql |-> {"freeword", "free", "throwword", "throw"},
            redis |-> {"failed", "freeredis", "throwredis"}]

\* Someone scans for a connection, has the mutex of the pool and keeps it.
Wedged(pool) == \E s \in Searchers : sc[s] \in Getting[pool] /\ gc[s] = "scan"

InGetConn(s, pool, here) == running /\ sc[s] \in Getting[pool] /\ gc[s] = here

\* Some connection is free.
Poll(s, pool) ==
    /\ InGetConn(s, pool, "poll")
    /\ free[pool] > 0
    /\ gc' = [gc EXCEPT ![s] = "lock"]
    /\ UNCHANGED <<index, inbox, store, running, sc, query, n, read, holds, free, misses, ghosts>>

\* The mutex is locked and one still is: the scan finds it.
TakeConn(s, pool) ==
    /\ InGetConn(s, pool, "lock")
    /\ ~ Wedged(pool)
    /\ free[pool] > 0
    /\ free' = [free EXCEPT ![pool] = @ - 1]
    /\ holds' = [holds EXCEPT ![s] = @ \cup {pool}]
    /\ gc' = [gc EXCEPT ![s] = "poll"]
    /\ Goto(s, Got[sc[s]])
    /\ UNCHANGED <<index, inbox, store, running, query, n, read, misses, ghosts>>

\* The mutex is locked and none is: who could free one waits for the mutex.
ScanForEver(s, pool) ==
    /\ InGetConn(s, pool, "lock")
    /\ ~ Wedged(pool)
    /\ free[pool] = 0
    /\ gc' = [gc EXCEPT ![s] = "scan"]
    /\ UNCHANGED <<index, inbox, store, running, sc, query, n, read, holds, free, misses, ghosts>>

\* free_conn; a redis connection that failed was replaced before.
FreeConn(s, pool) ==
    /\ running
    /\ sc[s] \in Freeing[pool]
    /\ ~ Wedged(pool)
    /\ free' = [free EXCEPT ![pool] = @ + 1]
    /\ holds' = [holds EXCEPT ![s] = @ \ {pool}]
    /\ UNCHANGED <<gc, misses>>

(***************************************************************************)
(* read_inv_index.                                                         *)
(***************************************************************************)
ReadList(s) ==
    /\ At(s, "select")
    /\ index[Word(s)] # 0
    /\ read' = [read EXCEPT ![s][Word(s)] = index[Word(s)]]
    /\ Goto(s, "freeword")
    /\ UNCHANGED <<index, inbox, store, running, query, n, pools, ghosts>>

\* Not in the code: the connection is freed but not given up.
BugFreeWord(s) ==
    /\ At(s, "freeword")
    /\ free' = [free EXCEPT !["mysql"] = @ + 1]
    /\ OnFrom(s, Words(s), n[s] + 1, read[s])
    /\ UNCHANGED <<index, inbox, store, running, query, read, gc, holds, misses, ghosts>>

FreeWord(s) ==
    /\ At(s, "freeword")
    /\ FreeConn(s, "mysql")
    /\ OnFrom(s, Words(s), n[s] + 1, read[s])
    /\ UNCHANGED <<index, inbox, store, running, query, read, ghosts>>

\* No row: the function returns without free_conn, and nobody else knows the id
\* of the connection.
NoRow(s) ==
    /\ At(s, "select")
    /\ index[Word(s)] = 0
    /\ holds' = [holds EXCEPT ![s] = {}]
    /\ misses' = misses + 1
    /\ OnFrom(s, Words(s), n[s] + 1, read[s])
    /\ UNCHANGED <<index, inbox, store, running, query, read, gc, free, ghosts>>

\* MySQL refuses the statement, here or for a page of the answer.
SelectRefused(s) ==
    /\ \/ At(s, "select") /\ Goto(s, "throwword")
       \/ At(s, "pages") /\ (\E k \in Keys : read[s][k] # 0) /\ Goto(s, "throw")
    /\ Trouble("select")
    /\ UNCHANGED <<index, inbox, store, running, query, n, read, pools, refused>>

\* What the searcher has is handed back, and a string thrown: run catches
\* std::exception only, so the process ends.
Throw(s) ==
    /\ \/ At(s, "throwword") /\ FreeConn(s, "mysql") /\ Goto(s, "ended")
       \/ At(s, "throw") /\ FreeConn(s, "mysql") /\ Goto(s, "throwredis")
       \/ At(s, "throwredis") /\ FreeConn(s, "redis") /\ Goto(s, "ended")
    /\ running' = (sc'[s] # "ended")
    /\ UNCHANGED <<index, inbox, store, query, n, read, ghosts>>

(***************************************************************************)
(* output_result.                                                          *)
(***************************************************************************)
Stored(s) ==
    store' = [store EXCEPT ![query[s]] = [k \in KeySet(query[s]) |-> read[s][k]]]

\* The pages are looked up when both connections are there, then the SET.  An
\* answer of redis that is an error leaves err at 0.
SetAnswer(s) ==
    /\ At(s, "pages") \/ At(s, "set")
    /\ Goto(s, "free")
    /\ \/ Stored(s) /\ UNCHANGED ghosts
       \/ /\ Trouble("refuse")
          /\ refused' = refused \cup {query[s]}
          /\ UNCHANGED store
    /\ UNCHANGED <<index, inbox, running, query, n, read, pools>>

\* The connection fails, before or after the command was carried out.
SetFails(s) ==
    /\ At(s, "pages") \/ At(s, "set")
    /\ Trouble("redis")
    /\ Stored(s) \/ UNCHANGED store
    /\ Goto(s, "failed")
    /\ UNCHANGED <<index, inbox, running, query, n, read, pools, refused>>

\* Not in the code: the failed connection is not handed back.
BugReplaceRedis(s) ==
    /\ At(s, "failed")
    /\ holds' = [holds EXCEPT ![s] = {"mysql"}]
    /\ Goto(s, "again")
    /\ UNCHANGED <<index, inbox, store, running, query, n, read, gc, free, misses, ghosts>>

\* It is handed back and another one taken.
ReplaceRedis(s) ==
    /\ At(s, "failed")
    /\ FreeConn(s, "redis")
    /\ Goto(s, "again")
    /\ UNCHANGED <<index, inbox, store, running, query, n, read, ghosts>>

\* redis refuses the password on the new connection: free_conn throws a string.
AuthRefused(s) ==
    /\ At(s, "failed")
    /\ "auth" \in SearchFaults
    /\ running' = FALSE
    /\ UNCHANGED <<index, inbox, store, sc, query, n, read, pools, ghosts>>

FreeMysql(s) ==
    /\ At(s, "free")
    /\ FreeConn(s, "mysql")
    /\ Goto(s, "freeredis")
    /\ UNCHANGED <<index, inbox, store, running, query, n, read, ghosts>>

\* Not in the code: the lists the searcher read for its query stay.
BugFreeRedis(s) ==
    /\ At(s, "freeredis")
    /\ FreeConn(s, "redis")
    /\ Goto(s, "idle")
    /\ query' = [query EXCEPT ![s] = None]
    /\ n' = [n EXCEPT ![s] = 1]
    /\ UNCHANGED <<index, inbox, store, running, read, ghosts>>

\* What belongs to the query goes with it.
FreeRedis(s) ==
    /\ At(s, "freeredis")
    /\ FreeConn(s, "redis")
    /\ Goto(s, "idle")
    /\ query' = [query EXCEPT ![s] = None]
    /\ n' = [n EXCEPT ![s] = 1]
    /\ read' = [read EXCEPT ![s] = Unread]
    /\ UNCHANGED <<index, inbox, store, running, ghosts>>

Work(s) ==
    \/ GetFront(s)
    \/ \E pool \in Pools : Poll(s, pool) \/ TakeConn(s, pool) \/ ScanForEver(s, pool)
    \/ ReadList(s) \/ FreeWord(s) \/ NoRow(s) \/ Throw(s)
    \/ SetAnswer(s) \/ ReplaceRedis(s) \/ FreeMysql(s) \/ FreeRedis(s)

SearcherTrips(s) == SelectRefused(s) \/ SetFails(s) \/ AuthRefused(s)

-----------------------------------------------------------------------------
Places ==
    {"idle", "conn", "select", "freeword", "redis", "mysql", "pages", "set",
     "failed", "again", "free", "freeredis", "throwword", "throw", "throwredis", "ended"}

SearchersTypeOK ==
    /\ index \in [Keys -> Nat] /\ \A k \in Keys : index[k] <= MaxVersion[k]
    /\ inbox \in Seq(Queries)
    /\ DOMAIN store = Queries
    /\ running \in BOOLEAN
    /\ sc \in [Searchers -> Places]
    /\ query \in [Searchers -> Queries \cup {None}]
    /\ n \in [Searchers -> Nat \ {0}]
    /\ read \in [Searchers -> [Keys -> Nat]]
    /\ gc \in [Searchers -> {"poll", "lock", "scan"}]
    /\ holds \in [Searchers -> SUBSET Pools]
    /\ free \in [Pools -> Nat] /\ misses \in Nat
    /\ refused \subseteq Queries /\ trouble \in Nat

\* The searchers that have a connection of the pool.
Holders(pool) == {s \in Searchers : pool \in holds[s]}

\* How many connections of the pool nobody knows of any more.
Lost(pool) == IF pool = "mysql" THEN misses ELSE 0

\* Every connection is free or with a searcher, except one MySQL connection for
\* each look-up of a word without a row, which is never handed back
\* (searcher.cpp:374): nothing else in read_inv_index and output_result loses a
\* connection or hands one back twice, whatever fails.
ConnsAccounted ==
    \A pool \in Pools : free[pool] + Lost(pool) + Cardinality(Holders(pool)) = Conns[pool]

\* A searcher that waits for what only another one can bring about.
Stuck(s) ==
    \E pool \in Pools :
        \/ /\ sc[s] \in Getting[pool]
           /\ \/ gc[s] = "poll" /\ free[pool] = 0
              \/ gc[s] = "lock" /\ Wedged(pool)
              \/ gc[s] = "scan"
        \/ sc[s] \in Freeing[pool] /\ Wedged(pool)

\* Fewer connections are left than there are searchers.
Scarce(pool) == Conns[pool] < Lost(pool) + Cardinality(Searchers)

\* Searchers take the two connections in both orders (searcher.cpp:422-425, and
\* 529 after a failure).  With no more of them than connections of each pool
\* they never all wait for one another before a look-up of a word without a row
\* has lost a MySQL connection; nor then, unless all are lost, or fewer are left
\* than searchers and two that polled for the last one meet (mysql_pool.h:101).
NoCircularWait ==
    LET busy == {s \in Searchers : sc[s] # "idle"}
    IN  /\ running /\ busy # {}
        /\ \A pool \in Pools : Cardinality(Searchers) <= Conns[pool]
        => \/ \E s \in busy : ~ Stuck(s)
           \/ misses = MysqlConns
           \/ Scarce("mysql") /\ Wedged("mysql")

\* The inductive invariant behind both: where a searcher is tells what it has,
\* and one scans for ever only where too few connections are left.
PoolTypes ==
    /\ sc \in [Searchers -> Places]
    /\ gc \in [Searchers -> {"poll", "lock", "scan"}]
    /\ holds \in [Searchers -> SUBSET Pools]
    /\ free \in [Pools -> Nat] /\ misses \in Nat

Having ==
    [mysql |-> {"select", "freeword", "pages", "set", "failed", "again", "free", "throwword", "throw"},
     redis |-> {"mysql", "pages", "set", "failed", "free", "freeredis", "throw", "throwredis"}]

HoldsByPlace ==
    \A s \in Searchers, pool \in Pools : pool \in holds[s] <=> sc[s] \in Having[pool]

ScansByPlace ==
    \A s \in Searchers :
        /\ gc[s] # "poll" => \E pool \in Pools : sc[s] \in Getting[pool]
        /\ \A pool \in Pools : sc[s] \in Getting[pool] /\ gc[s] = "scan" => Scarce(pool)

PoolInv == PoolTypes /\ HoldsByPlace /\ ScansByPlace /\ ConnsAccounted
=============================================================================
