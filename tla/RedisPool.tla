----------------------------- MODULE RedisPool ------------------------------
(***************************************************************************)
(* redis_pool.h: get_conn is ConnPool's; free_conn first looks at the      *)
(* context's err and, when it is set, replaces the context.  It does that  *)
(* WITHOUT the mutex: only the flag protects the slot.                     *)
(***************************************************************************)
EXTENDS ConnPool

CONSTANT HasPassword    \* ! redis_password.empty()

ASSUME RedisPoolAssumption == HasPassword \in BOOLEAN

\* context[i] is what conn_pool[i] points to: a context without error, one
\* whose err is set, one already given to redisFree, or a new one on which
\* AUTH has not succeeded.
VARIABLE context

redisVars == <<vars, context>>

RedisInit ==
    /\ Init
    /\ context = [i \in Conns |-> "ok"]

\* A command fails while the client uses its connection: hiredis sets err.
CommandFails(c) ==
    /\ pc[c] = "use"
    /\ context' = [context EXCEPT ![id[c]] = "err"]
    /\ UNCHANGED vars

\* Not in the code: free_conn does not look at err.
BugFreeHealthy(c) ==
    CallFree(c) /\ UNCHANGED context

FreeHealthy(c) ==
    /\ CallFree(c)
    /\ context[id[c]] = "ok"
    /\ UNCHANGED context

\* Not in the code: the flag is cleared before the context is replaced.
BugFreeFaulty(c) ==
    /\ pc[c] = "use"
    /\ context[id[c]] = "err"
    /\ context' = [context EXCEPT ![id[c]] = "freed"]
    /\ conn_flag' = [conn_flag EXCEPT ![id[c]] = FALSE]
    /\ conn_num_free' = conn_num_free + 1
    /\ Goto(c, "reconnect")
    /\ UNCHANGED <<current_conn, mtx, id>>

\* free_conn finds err set and gives the context to redisFree.
FreeFaulty(c) ==
    /\ pc[c] = "use"
    /\ c \notin Keepers
    /\ context[id[c]] = "err"
    /\ context' = [context EXCEPT ![id[c]] = "freed"]
    /\ Goto(c, "reconnect")
    /\ UNCHANGED <<conn_flag, conn_num_free, current_conn, mtx, id>>

\* redisConnect fails as often as the server likes; one success ends the loop.
Reconnect(c) ==
    /\ pc[c] = "reconnect"
    /\ context' = [context EXCEPT ![id[c]] =
                      IF HasPassword THEN "unauthenticated" ELSE "ok"]
    /\ Goto(c, IF HasPassword THEN "auth" ELSE "freelock")
    /\ UNCHANGED <<conn_flag, conn_num_free, current_conn, mtx, id>>

\* Not in the code: the flag is cleared without the mutex.
BugAuthenticate(c) ==
    /\ pc[c] = "auth"
    /\ context' = [context EXCEPT ![id[c]] = "ok"]
    /\ Goto(c, "clear")
    /\ UNCHANGED <<conn_flag, conn_num_free, current_conn, mtx, id>>

Authenticate(c) ==
    /\ pc[c] = "auth"
    /\ context' = [context EXCEPT ![id[c]] = "ok"]
    /\ Goto(c, "freelock")
    /\ UNCHANGED <<conn_flag, conn_num_free, current_conn, mtx, id>>

\* free_conn throws a string literal: the flag stays set, the counter low.
AuthRefused(c) ==
    /\ pc[c] = "auth"
    /\ Goto(c, "thrown")
    /\ UNCHANGED <<conn_flag, conn_num_free, current_conn, mtx, id, context>>

SamePool(c) ==
    \/ CallGet(c) \/ PollFree(c) \/ LockGet(c) \/ Scan(c) \/ Found(c)
    \/ Take(c) \/ UnlockGet(c) \/ LockFree(c) \/ Clear(c) \/ UnlockFree(c)

RedisStep(c) ==
    \/ SamePool(c) /\ UNCHANGED context
    \/ CommandFails(c)
    \/ FreeHealthy(c)
    \/ FreeFaulty(c) \/ Reconnect(c) \/ Authenticate(c) \/ AuthRefused(c)

RedisNext == \E c \in Clients : RedisStep(c)

RedisSpec == RedisInit /\ [][RedisNext]_redisVars

-----------------------------------------------------------------------------
RedisHolding == Holding \cup {"reconnect", "auth", "thrown"}

RedisPlaces == {"idle", "poll", "lock", "scan", "take", "unlock", "use",
                "freelock", "clear", "freeunlock", "reconnect", "auth", "thrown"}

RedisTypes ==
    /\ conn_flag \in [Conns -> BOOLEAN]
    /\ current_conn \in Conns
    /\ id \in [Clients -> Conns \cup {None}]
    /\ pc \in [Clients -> RedisPlaces]
    /\ context \in [Conns -> {"ok", "err", "freed", "unauthenticated"}]

RedisTypeOK ==
    /\ RedisTypes
    /\ conn_num_free \in 0 .. N
    /\ mtx \in Clients \cup {None}

\* Nobody is ever lent a broken context: every connection whose flag is clear
\* has a context without error, although contexts break while lent and are
\* replaced outside the mutex.
IdleHealthy == \A i \in Conns : ~ conn_flag[i] => context[i] = "ok"

\* A connection is used, or its context replaced outside the mutex, by at most
\* one client: no other client can reach a redisContext that was freed.
RedisExclusive ==
    \A c, d \in Clients :
        /\ pc[c] \in RedisHolding
        /\ pc[d] \in RedisHolding
        /\ id[c] = id[d]
        => c = d

\* Reconnecting is part of using the connection: seen through the flags, the
\* counter and the mutex, redis_pool is the pool of ConnPool.  A client whose
\* free_conn threw looks like one that keeps its connection.
Pool == INSTANCE ConnPool WITH
    pc <- [c \in Clients |->
              IF pc[c] \in {"reconnect", "auth", "thrown"} THEN "use" ELSE pc[c]]

PoolSpec == Pool!Spec

\* The inductive invariant: the pool's, without the counter, and that the
\* context a client is about to hand back has no error.
RedisHolderFlag ==
    \A c \in Clients :
        pc[c] \in RedisHolding => id[c] \in Conns /\ conn_flag[id[c]]

HandsBackHealthy ==
    \A c \in Clients :
        pc[c] \in {"freelock", "clear"} => context[id[c]] = "ok"

ReplacedNotKept ==
    \A c \in Clients : pc[c] \in {"reconnect", "auth"} => c \notin Keepers

RedisIInv ==
    /\ RedisTypes
    /\ InCritical
    /\ FoundClear
    /\ RedisHolderFlag
    /\ RedisExclusive
    /\ ReplacedNotKept
    /\ HandsBackHealthy
    /\ IdleHealthy
=============================================================================
