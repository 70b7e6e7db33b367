-------------------------- MODULE ConnPoolAbstract --------------------------
(***************************************************************************)
(* What a connection pool promises its clients: a connection is lent to at *)
(* most one client at a time, and a connection that is handed back can be  *)
(* lent again.  ConnPool (mysql_pool.h, redis_pool.h) implements it.       *)
(***************************************************************************)
EXTENDS Naturals

CONSTANTS
    Clients,   \* the activities that hold at most one connection each
    N,         \* how many connections the pool owns
    None       \* "holds no connection"

Conns == 0 .. N - 1

VARIABLE holding    \* holding[c] is the connection lent to c, or None

Init == holding = [c \in Clients |-> None]

Lend(c) ==
    /\ holding[c] = None
    /\ \E i \in Conns :
        /\ \A d \in Clients : holding[d] # i
        /\ holding' = [holding EXCEPT ![c] = i]

HandBack(c) ==
    /\ holding[c] # None
    /\ holding' = [holding EXCEPT ![c] = None]

Next == \E c \in Clients : Lend(c) \/ HandBack(c)

Spec == Init /\ [][Next]_holding
=============================================================================
