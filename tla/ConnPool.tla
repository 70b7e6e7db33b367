------------------------------ MODULE ConnPool ------------------------------
(***************************************************************************)
(* The connection pools of src/database: mysql_pool.h, and the part of     *)
(* redis_pool.h that is the same code.  get_conn and free_conn are split   *)
(* where another thread can come between: the counter conn_num_free is     *)
(* polled WITHOUT the mutex, the flags are only touched under it.          *)
(*                                                                         *)
(* A client is one activity that holds at most one connection at a time    *)
(* (an index worker, a searcher, one slot of evaluator::run).  A thread    *)
(* that holds k connections is k clients.                                  *)
(***************************************************************************)
EXTENDS Naturals, FiniteSets

CONSTANTS
    Clients,   \* the activities that call get_conn
    Keepers,   \* those that never call free_conn (evaluators, init_mysql)
    N,         \* max_conn_num
    None       \* no client, no connection

ASSUME ConnPoolAssumption ==
    /\ N \in Nat \ {0}
    /\ IsFiniteSet(Clients)
    /\ Keepers \subseteq Clients
    /\ None \notin Clients
    /\ None \notin 0 .. N - 1

Conns == 0 .. N - 1

VARIABLES
    conn_flag,      \* conn_flag[i]: connection i is lent
    conn_num_free,  \* the counter that get_conn polls
    current_conn,   \* where the next scan starts
    mtx,            \* the client inside the mutex, or None
    id,             \* the output parameter of the client's get_conn
    pc              \* where the client is

vars == <<conn_flag, conn_num_free, current_conn, mtx, id, pc>>

Goto(c, to) == pc' = [pc EXCEPT ![c] = to]

Init ==
    /\ conn_flag = [i \in Conns |-> FALSE]
    /\ conn_num_free = N
    /\ current_conn = 0
    /\ mtx = None
    /\ id = [c \in Clients |-> None]
    /\ pc = [c \in Clients |-> "idle"]

(***************************************************************************)
(* get_conn                                                                *)
(***************************************************************************)
CallGet(c) ==
    /\ pc[c] = "idle"
    /\ Goto(c, "poll")
    /\ UNCHANGED <<conn_flag, conn_num_free, current_conn, mtx, id>>

\* The loop `while (conn_num_free == 0) usleep(...)`, left without the mutex.
PollFree(c) ==
    /\ pc[c] = "poll"
    /\ conn_num_free # 0
    /\ Goto(c, "lock")
    /\ UNCHANGED <<conn_flag, conn_num_free, current_conn, mtx, id>>

\* Not in the code: get_conn forgets the mutex.
BugLockGet(c) ==
    /\ pc[c] = "lock"
    /\ mtx' = c
    /\ Goto(c, "scan")
    /\ UNCHANGED <<conn_flag, conn_num_free, current_conn, id>>

LockGet(c) ==
    /\ pc[c] = "lock"
    /\ mtx = None
    /\ mtx' = c
    /\ Goto(c, "scan")
    /\ UNCHANGED <<conn_flag, conn_num_free, current_conn, id>>

\* Not in the code: the scan runs off the end of the pool.
BugScanNoWrap(c) ==
    /\ pc[c] = "scan"
    /\ conn_flag[current_conn]
    /\ current_conn' = current_conn + 1
    /\ UNCHANGED <<conn_flag, conn_num_free, mtx, id, pc>>

\* Not in the code: the scan looks at one connection only.
BugScanStuck(c) ==
    /\ pc[c] = "scan"
    /\ conn_flag[current_conn]
    /\ UNCHANGED vars

\* One turn of `while (conn_flag[current_conn])`, the mutex held.
Scan(c) ==
    /\ pc[c] = "scan"
    /\ conn_flag[current_conn]
    /\ current_conn' = (current_conn + 1) % N
    /\ UNCHANGED <<conn_flag, conn_num_free, mtx, id, pc>>

\* Not in the code: the flag is not looked at.
BugFound(c) ==
    /\ pc[c] = "scan"
    /\ Goto(c, "take")
    /\ UNCHANGED <<conn_flag, conn_num_free, current_conn, mtx, id>>

\* The scan stops at the first connection whose flag is clear.
Found(c) ==
    /\ pc[c] = "scan"
    /\ ~ conn_flag[current_conn]
    /\ Goto(c, "take")
    /\ UNCHANGED <<conn_flag, conn_num_free, current_conn, mtx, id>>

Take(c) ==
    /\ pc[c] = "take"
    /\ conn_flag' = [conn_flag EXCEPT ![current_conn] = TRUE]
    /\ conn_num_free' = conn_num_free - 1
    /\ id' = [id EXCEPT ![c] = current_conn]
    /\ current_conn' = (current_conn + 1) % N
    /\ Goto(c, "unlock")
    /\ UNCHANGED mtx

UnlockGet(c) ==
    /\ pc[c] = "unlock"
    /\ mtx' = None
    /\ Goto(c, "use")
    /\ UNCHANGED <<conn_flag, conn_num_free, current_conn, id>>

(***************************************************************************)
(* free_conn(id), id in range: the callers pass back what get_conn gave.   *)
(***************************************************************************)
CallFree(c) ==
    /\ pc[c] = "use"
    /\ c \notin Keepers
    /\ Goto(c, "freelock")
    /\ UNCHANGED <<conn_flag, conn_num_free, current_conn, mtx, id>>

LockFree(c) ==
    /\ pc[c] = "freelock"
    /\ mtx = None
    /\ mtx' = c
    /\ Goto(c, "clear")
    /\ UNCHANGED <<conn_flag, conn_num_free, current_conn, id>>

\* Not in the code: free_conn forgets the counter.
BugClearNoCount(c) ==
    /\ pc[c] = "clear"
    /\ conn_flag' = [conn_flag EXCEPT ![id[c]] = FALSE]
    /\ Goto(c, "freeunlock")
    /\ UNCHANGED <<conn_num_free, current_conn, mtx, id>>

\* Not in the code: free_conn forgets the flag.
BugClearNoFlag(c) ==
    /\ pc[c] = "clear"
    /\ conn_num_free' = conn_num_free + 1
    /\ Goto(c, "freeunlock")
    /\ UNCHANGED <<conn_flag, current_conn, mtx, id>>

Clear(c) ==
    /\ pc[c] = "clear"
    /\ conn_flag' = [conn_flag EXCEPT ![id[c]] = FALSE]
    /\ conn_num_free' = conn_num_free + 1
    /\ Goto(c, "freeunlock")
    /\ UNCHANGED <<current_conn, mtx, id>>

UnlockFree(c) ==
    /\ pc[c] = "freeunlock"
    /\ mtx' = None
    /\ Goto(c, "idle")
    /\ UNCHANGED <<conn_flag, conn_num_free, current_conn, id>>

Step(c) ==
    \/ PollFree(c) \/ LockGet(c) \/ Scan(c) \/ Found(c) \/ Take(c)
    \/ UnlockGet(c)
    \/ CallFree(c) \/ LockFree(c) \/ Clear(c) \/ UnlockFree(c)

Next == \E c \in Clients : CallGet(c) \/ Step(c)

Spec == Init /\ [][Next]_vars

\* The threads are scheduled, and whoever is not a keeper hands its connection
\* back.  std::mutex promises no order among the waiting, so a waiter may be
\* overtaken for ever: only weak fairness.
FairSpec == Spec /\ \A c \in Clients : WF_vars(Step(c))

-----------------------------------------------------------------------------
Holding == {"unlock", "use", "freelock", "clear"}

Holders == {c \in Clients : pc[c] \in Holding}

LockedTypes ==
    /\ conn_flag \in [Conns -> BOOLEAN]
    /\ conn_num_free \in 0 .. N
    /\ current_conn \in Conns
    /\ mtx \in Clients \cup {None}
    /\ id \in [Clients -> Conns \cup {None}]

TypeOK ==
    /\ LockedTypes
    /\ pc \in [Clients -> {"idle", "poll", "lock", "scan", "take", "unlock", "use",
                           "freelock", "clear", "freeunlock"}]

\* No connection is lent to two clients at once: MYSQL and redisContext
\* handles are not thread safe, which is why the pools exist
\* (redis_pool.h:24-25).
Exclusive ==
    \A c, d \in Holders : id[c] = id[d] => c = d

\* The counter that get_conn polls without the mutex is the number of clear
\* flags, at every moment and however get_conn and free_conn interleave.
CounterExact ==
    conn_num_free = Cardinality({i \in Conns : ~ conn_flag[i]})

\* No connection is lost: one whose flag is set is with a client that still
\* has its number and can hand it back.
NoConnLost ==
    \A i \in Conns : conn_flag[i] => \E c \in Holders : id[c] = i

\* Locked flags and polled counter are two records of one fact, and both agree
\* with who really has which connection.
PoolSafety == Exclusive /\ CounterExact /\ NoConnLost

\* The inductive invariant behind these: who is in a critical section
\* has the mutex, the flag found clear is still clear when it is set, and a
\* client that has a connection has its flag.
Critical == {"scan", "take", "unlock", "clear", "freeunlock"}

InCritical == \A c \in Clients : pc[c] \in Critical => mtx = c

FoundClear == \A c \in Clients : pc[c] = "take" => ~ conn_flag[current_conn]

HolderFlag ==
    \A c \in Holders : id[c] \in Conns /\ conn_flag[id[c]]

IInv ==
    /\ TypeOK
    /\ InCritical
    /\ FoundClear
    /\ HolderFlag
    /\ NoConnLost
    /\ Exclusive
    /\ CounterExact

\* With no more clients than connections the thread that has the mutex always
\* finds a connection to take: the unlocked poll does no harm there.
ScanFinds ==
    Cardinality(Clients) <= N =>
        \A c \in Clients : pc[c] = "scan" => \E i \in Conns : ~ conn_flag[i]

\* A client that got past the poll and has the mutex is given a connection, as
\* the comment of get_conn says ("@return", mysql_pool.h:95-99).
GetConnReturns ==
    \A c \in Clients : pc[c] = "scan" ~> pc[c] = "use"

\* The pool implements the abstract lending of connections.
Lending == INSTANCE ConnPoolAbstract WITH
    holding <- [c \in Clients |-> IF pc[c] \in Holding THEN id[c] ELSE None]

LendingSpec == Lending!Spec
=============================================================================
