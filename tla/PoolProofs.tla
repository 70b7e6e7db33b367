----------------------------- MODULE PoolProofs -----------------------------
(***************************************************************************)
(* Proofs about the two connection pools, for every number of clients and  *)
(* connections.  ConnPool: its inductive invariant, the safety properties  *)
(* the runs check, and that it implements ConnPoolAbstract.  RedisPool: it *)
(* implements ConnPool, so that ConnPool's theorems hold of it, and it     *)
(* never lends a broken context.                                           *)
(***************************************************************************)
EXTENDS RedisPool, FiniteSetTheorems, TLAPS


\* The clear flags are a finite set of at most N connections.
LEMMA ClearFinite ==
    ASSUME NEW flags \in [Conns -> BOOLEAN]
    PROVE  /\ IsFiniteSet({i \in Conns : ~ flags[i]})
           /\ Cardinality({i \in Conns : ~ flags[i]}) \in 0 .. N
<1> DEFINE S == {i \in Conns : ~ flags[i]}
<1>1. IsFiniteSet(Conns) /\ Cardinality(Conns) = N
  <2>1. N \in Nat \ {0} /\ 0 \in Int /\ N - 1 \in Int
    BY ConnPoolAssumption
  <2>2. IsFiniteSet(0 .. N - 1)
        /\ Cardinality(0 .. N - 1) = IF 0 > N - 1 THEN 0 ELSE (N - 1) - 0 + 1
    BY <2>1, FS_Interval, Zenon
  <2> QED BY <2>1, <2>2 DEF Conns
<1>2. S \in SUBSET Conns
  OBVIOUS
<1>3. IsFiniteSet(S) /\ Cardinality(S) <= Cardinality(Conns)
  BY <1>1, <1>2, FS_Subset, Zenon
<1>4. Cardinality(S) \in Nat
  BY <1>3, FS_CardinalityType, Zenon
<1> QED BY <1>1, <1>3, <1>4, ConnPoolAssumption

\* Setting a clear flag removes one clear flag.
LEMMA SetFlag ==
    ASSUME NEW flags \in [Conns -> BOOLEAN], NEW j \in Conns, ~ flags[j]
    PROVE  LET new == [flags EXCEPT ![j] = TRUE]
           IN  Cardinality({i \in Conns : ~ new[i]})
                   = Cardinality({i \in Conns : ~ flags[i]}) - 1
<1> DEFINE S == {i \in Conns : ~ flags[i]}
           new == [flags EXCEPT ![j] = TRUE]
<1>1. IsFiniteSet(S)
  BY ClearFinite
<1>2. {i \in Conns : ~ new[i]} = S \ {j} /\ j \in S
  OBVIOUS
<1>3. Cardinality(S \ {j}) = Cardinality(S) - 1
  BY <1>1, <1>2, FS_RemoveElement, Zenon
<1> QED BY <1>2, <1>3

\* Clearing a set flag adds one clear flag.
LEMMA ClearFlag ==
    ASSUME NEW flags \in [Conns -> BOOLEAN], NEW j \in Conns, flags[j]
    PROVE  LET new == [flags EXCEPT ![j] = FALSE]
           IN  Cardinality({i \in Conns : ~ new[i]})
                   = Cardinality({i \in Conns : ~ flags[i]}) + 1
<1> DEFINE S == {i \in Conns : ~ flags[i]}
           new == [flags EXCEPT ![j] = FALSE]
<1>1. IsFiniteSet(S)
  BY ClearFinite
<1>2. {i \in Conns : ~ new[i]} = S \cup {j} /\ j \notin S
  OBVIOUS
<1>3. Cardinality(S \cup {j}) = Cardinality(S) + 1
  BY <1>1, <1>2, FS_AddElement, Zenon
<1> QED BY <1>2, <1>3

LEMMA InitIInv == Init => IInv
<1> SUFFICES ASSUME Init PROVE IInv
  OBVIOUS
<1> USE ConnPoolAssumption
<1>1. TypeOK
  BY DEF Init, TypeOK, LockedTypes, Conns
<1>2. InCritical /\ FoundClear
  BY DEF Init, InCritical, FoundClear, Critical
<1>3. Holders = {}
  BY DEF Init, Holders, Holding
<1>4. HolderFlag /\ NoConnLost /\ Exclusive
  BY <1>3 DEF Init, HolderFlag, NoConnLost, Exclusive
<1>5. CounterExact
  <2>1. {i \in Conns : ~ conn_flag[i]} = 0 .. N - 1
    BY DEF Init, Conns
  <2>2. 0 \in Int /\ N - 1 \in Int
    OBVIOUS
  <2>3. Cardinality(0 .. N - 1) = IF 0 > N - 1 THEN 0 ELSE (N - 1) - 0 + 1
    BY <2>2, FS_Interval, Zenon
  <2>4. Cardinality(0 .. N - 1) = N
    BY <2>3
  <2>5. conn_num_free = N
    BY DEF Init
  <2> QED BY <2>1, <2>4, <2>5, Zenon DEF CounterExact
<1> QED BY <1>1, <1>2, <1>4, <1>5 DEF IInv

\* A step that moves one client between places where it holds nothing, or
\* between places where it holds a connection, and touches at most the mutex
\* and the scan's start, keeps the connections' part of the invariant.
LEMMA HoldersKept ==
    ASSUME TypeOK, HolderFlag, NoConnLost, Exclusive, CounterExact,
           Holders' = Holders,
           UNCHANGED <<conn_flag, conn_num_free, id>>
    PROVE  (HolderFlag /\ NoConnLost /\ Exclusive /\ CounterExact)'
BY DEF HolderFlag, NoConnLost, Exclusive, CounterExact

LEMMA StepIInv == IInv /\ [Next]_vars => IInv'
<1> SUFFICES ASSUME IInv, [Next]_vars PROVE IInv'
  OBVIOUS
<1> USE ConnPoolAssumption
<1> USE DEF IInv
<1>1. ASSUME NEW c \in Clients, CallGet(c) PROVE IInv'
  <2>1. TypeOK'
    BY <1>1 DEF CallGet, Goto, TypeOK, LockedTypes
  <2>2. (InCritical /\ FoundClear)'
    BY <1>1 DEF CallGet, Goto, InCritical, FoundClear, Critical, TypeOK, LockedTypes
  <2>3. Holders' = Holders
    BY <1>1 DEF CallGet, Goto, Holders, Holding, TypeOK
  <2> QED BY <1>1, <2>1, <2>2, <2>3, HoldersKept DEF CallGet
<1>2. ASSUME NEW c \in Clients, PollFree(c) PROVE IInv'
  <2>1. TypeOK'
    BY <1>2 DEF PollFree, Goto, TypeOK, LockedTypes
  <2>2. (InCritical /\ FoundClear)'
    BY <1>2 DEF PollFree, Goto, InCritical, FoundClear, Critical, TypeOK, LockedTypes
  <2>3. Holders' = Holders
    BY <1>2 DEF PollFree, Goto, Holders, Holding, TypeOK
  <2> QED BY <1>2, <2>1, <2>2, <2>3, HoldersKept DEF PollFree
<1>3. ASSUME NEW c \in Clients, LockGet(c) PROVE IInv'
  <2>1. TypeOK'
    BY <1>3 DEF LockGet, Goto, TypeOK, LockedTypes
  <2>2. (InCritical /\ FoundClear)'
    BY <1>3 DEF LockGet, Goto, InCritical, FoundClear, Critical, TypeOK, LockedTypes
  <2>3. Holders' = Holders
    BY <1>3 DEF LockGet, Goto, Holders, Holding, TypeOK
  <2> QED BY <1>3, <2>1, <2>2, <2>3, HoldersKept DEF LockGet
<1>4. ASSUME NEW c \in Clients, Scan(c) PROVE IInv'
  <2>1. TypeOK'
    BY <1>4 DEF Scan, TypeOK, LockedTypes, Conns
  <2>2. (InCritical /\ FoundClear)'
    BY <1>4 DEF Scan, InCritical, FoundClear, Critical, TypeOK, LockedTypes
  <2>3. Holders' = Holders
    BY <1>4 DEF Scan, Holders, Holding
  <2> QED BY <1>4, <2>1, <2>2, <2>3, HoldersKept DEF Scan
<1>5. ASSUME NEW c \in Clients, Found(c) PROVE IInv'
  <2>1. TypeOK'
    BY <1>5 DEF Found, Goto, TypeOK, LockedTypes
  <2>2. (InCritical /\ FoundClear)'
    BY <1>5 DEF Found, Goto, InCritical, FoundClear, Critical, TypeOK, LockedTypes
  <2>3. Holders' = Holders
    BY <1>5 DEF Found, Goto, Holders, Holding, TypeOK
  <2> QED BY <1>5, <2>1, <2>2, <2>3, HoldersKept DEF Found
<1>6. ASSUME NEW c \in Clients, Take(c) PROVE IInv'
  <2>1. /\ c \notin Holders
        /\ Holders' = Holders \cup {c}
        /\ id'[c] = current_conn
        /\ \A d \in Holders : id'[d] = id[d]
    BY <1>6 DEF Take, Goto, Holders, Holding, TypeOK, LockedTypes
  <2>2. current_conn \in Conns /\ ~ conn_flag[current_conn]
    BY <1>6 DEF Take, FoundClear, TypeOK, LockedTypes
  <2>3. CounterExact'
    BY <1>6, <2>2, SetFlag DEF Take, CounterExact, TypeOK, LockedTypes
  <2>4. conn_num_free' \in 0 .. N
    <3>1. conn_flag' \in [Conns -> BOOLEAN]
      BY <1>6 DEF Take, TypeOK, LockedTypes
    <3> QED BY <2>3, <3>1, ClearFinite DEF CounterExact
  <2>5. TypeOK'
    BY <1>6, <2>2, <2>4 DEF Take, Goto, TypeOK, LockedTypes, Conns
  <2>6. (InCritical /\ FoundClear)'
    BY <1>6 DEF Take, Goto, InCritical, FoundClear, Critical, TypeOK, LockedTypes
  <2>7. HolderFlag'
    BY <1>6, <2>1, <2>2 DEF Take, HolderFlag, TypeOK, LockedTypes
  <2>8. NoConnLost'
    BY <1>6, <2>1, <2>2 DEF Take, NoConnLost, TypeOK, LockedTypes
  <2>9. Exclusive'
    BY <2>1, <2>2 DEF HolderFlag, Exclusive
  <2> QED BY <2>3, <2>5, <2>6, <2>7, <2>8, <2>9
<1>7. ASSUME NEW c \in Clients, UnlockGet(c) PROVE IInv'
  <2>1. TypeOK'
    BY <1>7 DEF UnlockGet, Goto, TypeOK, LockedTypes
  <2>2. (InCritical /\ FoundClear)'
    BY <1>7 DEF UnlockGet, Goto, InCritical, FoundClear, Critical, TypeOK, LockedTypes
  <2>3. Holders' = Holders
    BY <1>7 DEF UnlockGet, Goto, Holders, Holding, TypeOK
  <2> QED BY <1>7, <2>1, <2>2, <2>3, HoldersKept DEF UnlockGet
<1>8. ASSUME NEW c \in Clients, CallFree(c) PROVE IInv'
  <2>1. TypeOK'
    BY <1>8 DEF CallFree, Goto, TypeOK, LockedTypes
  <2>2. (InCritical /\ FoundClear)'
    BY <1>8 DEF CallFree, Goto, InCritical, FoundClear, Critical, TypeOK, LockedTypes
  <2>3. Holders' = Holders
    BY <1>8 DEF CallFree, Goto, Holders, Holding, TypeOK
  <2> QED BY <1>8, <2>1, <2>2, <2>3, HoldersKept DEF CallFree
<1>9. ASSUME NEW c \in Clients, LockFree(c) PROVE IInv'
  <2>1. TypeOK'
    BY <1>9 DEF LockFree, Goto, TypeOK, LockedTypes
  <2>2. (InCritical /\ FoundClear)'
    BY <1>9 DEF LockFree, Goto, InCritical, FoundClear, Critical, TypeOK, LockedTypes
  <2>3. Holders' = Holders
    BY <1>9 DEF LockFree, Goto, Holders, Holding, TypeOK
  <2> QED BY <1>9, <2>1, <2>2, <2>3, HoldersKept DEF LockFree
<1>10. ASSUME NEW c \in Clients, Clear(c) PROVE IInv'
  <2>1. /\ c \in Holders
        /\ Holders' = Holders \ {c}
        /\ id' = id
    BY <1>10 DEF Clear, Goto, Holders, Holding, TypeOK
  <2>2. id[c] \in Conns /\ conn_flag[id[c]]
    BY <2>1 DEF HolderFlag
  <2>3. CounterExact'
    <3>1. Cardinality({i \in Conns : ~ conn_flag[i]}) \in 0 .. N
      BY ClearFinite DEF TypeOK, LockedTypes
    <3> QED BY <1>10, <2>2, <3>1, ClearFlag DEF Clear, CounterExact, TypeOK, LockedTypes
  <2>4. conn_num_free' \in 0 .. N
    <3>1. conn_flag' \in [Conns -> BOOLEAN]
      BY <1>10 DEF Clear, TypeOK, LockedTypes
    <3> QED BY <2>3, <3>1, ClearFinite DEF CounterExact
  <2>5. TypeOK'
    BY <1>10, <2>4 DEF Clear, Goto, TypeOK, LockedTypes
  <2>6. (InCritical /\ FoundClear)'
    BY <1>10 DEF Clear, Goto, InCritical, FoundClear, Critical, TypeOK, LockedTypes
  <2>7. HolderFlag'
    BY <1>10, <2>1 DEF Clear, HolderFlag, Exclusive, TypeOK, LockedTypes
  <2>8. NoConnLost'
    BY <1>10, <2>1, <2>2 DEF Clear, NoConnLost, TypeOK, LockedTypes
  <2>9. Exclusive'
    BY <2>1 DEF Exclusive
  <2> QED BY <2>3, <2>5, <2>6, <2>7, <2>8, <2>9
<1>11. ASSUME NEW c \in Clients, UnlockFree(c) PROVE IInv'
  <2>1. TypeOK'
    BY <1>11 DEF UnlockFree, Goto, TypeOK, LockedTypes
  <2>2. (InCritical /\ FoundClear)'
    BY <1>11 DEF UnlockFree, Goto, InCritical, FoundClear, Critical, TypeOK, LockedTypes
  <2>3. Holders' = Holders
    BY <1>11 DEF UnlockFree, Goto, Holders, Holding, TypeOK
  <2> QED BY <1>11, <2>1, <2>2, <2>3, HoldersKept DEF UnlockFree
<1>12. CASE UNCHANGED vars
  BY <1>12 DEF vars, TypeOK, LockedTypes, InCritical, FoundClear, HolderFlag, NoConnLost,
               Exclusive, CounterExact, Holders
<1> QED
  BY <1>1, <1>2, <1>3, <1>4, <1>5, <1>6, <1>7, <1>8, <1>9, <1>10, <1>11, <1>12
  DEF Next, Step

\* The variables keep their types: the polled counter stays within 0 .. N and
\* the scan within the array.
THEOREM TypeCorrect == Spec => []TypeOK
<1>1. Spec => []IInv
  BY InitIInv, StepIInv, PTL DEF Spec
<1>2. IInv => TypeOK
  BY DEF IInv
<1> QED BY <1>1, <1>2, PTL

\* No connection is lent to two clients, none is lost, and the counter polled
\* without the mutex is exact, for every number of clients and connections.
THEOREM PoolSafe == Spec => []PoolSafety
<1>1. Spec => []IInv
  BY InitIInv, StepIInv, PTL DEF Spec
<1>2. IInv => PoolSafety
  BY DEF IInv, PoolSafety
<1> QED BY <1>1, <1>2, PTL

\* With no more clients than connections, whoever holds the mutex finds a
\* connection: had every connection a holder, the holders would outnumber the
\* clients other than the one that scans.
THEOREM EnoughConnections == Spec => []ScanFinds
<1> USE ConnPoolAssumption
<1>1. Spec => []IInv
  BY InitIInv, StepIInv, PTL DEF Spec
<1>2. IInv => ScanFinds
  <2>1. SUFFICES ASSUME IInv, Cardinality(Clients) <= N,
                        NEW c \in Clients, pc[c] = "scan",
                        \A i \in Conns : conn_flag[i]
                 PROVE  FALSE
    BY DEF ScanFinds
  <2> DEFINE others == Clients \ {c}
             lentTo == [i \in Conns |-> CHOOSE d \in Holders : id[d] = i]
  <2>2. \A i \in Conns : lentTo[i] \in Holders /\ id[lentTo[i]] = i
    BY <2>1 DEF IInv, NoConnLost
  <2>3. c \notin Holders /\ Holders \subseteq Clients
    BY <2>1 DEF Holders, Holding
  <2>4. lentTo \in [Conns -> others]
    BY <2>2, <2>3
  <2>5. IsFiniteSet(Conns) /\ Cardinality(Conns) = N
    <3>1. 0 \in Int /\ N - 1 \in Int
      OBVIOUS
    <3>2. IsFiniteSet(0 .. N - 1)
          /\ Cardinality(0 .. N - 1) = IF 0 > N - 1 THEN 0 ELSE (N - 1) - 0 + 1
      BY <3>1, FS_Interval, Zenon
    <3> QED BY <3>2 DEF Conns
  <2>6. IsFiniteSet(others) /\ Cardinality(others) = Cardinality(Clients) - 1
    BY FS_RemoveElement, Zenon
  <2>7. Cardinality(Clients) \in Nat
    BY FS_CardinalityType, Zenon
  <2>8. Cardinality(others) < Cardinality(Conns)
    BY <2>1, <2>5, <2>6, <2>7
  <2>9. PICK i, j \in Conns : i # j /\ lentTo[i] = lentTo[j]
    <3>1. Cardinality(Conns) > Cardinality(others)
      BY <2>5, <2>6, <2>7, <2>8
    <3> HIDE DEF lentTo, others
    <3> QED BY <2>4, <2>5, <2>6, <3>1, FS_PigeonHole
  <2> QED BY <2>2, <2>9
<1> QED BY <1>1, <1>2, PTL

\* The pool implements the abstract lending of connections: only Take lends,
\* only Clear hands back, and Take lends what no other client has.
THEOREM PoolImplementsLending == Spec => LendingSpec
<1> USE ConnPoolAssumption
<1> DEFINE held == [c \in Clients |-> IF pc[c] \in Holding THEN id[c] ELSE None]
<1>1. Spec => []IInv
  BY InitIInv, StepIInv, PTL DEF Spec
<1>2. Init => Lending!Init
  BY DEF Init, Lending!Init, Holding
<1>3. IInv /\ [Next]_vars => [Lending!Next]_held
  <2> SUFFICES ASSUME IInv, [Next]_vars PROVE [Lending!Next]_held
    OBVIOUS
  <2> USE DEF IInv
  <2>1. ASSUME NEW c \in Clients, Take(c) PROVE Lending!Lend(c)
    <3>1. current_conn \in Conns /\ ~ conn_flag[current_conn]
      BY <2>1 DEF Take, FoundClear, TypeOK, LockedTypes
    <3>2. held[c] = None
      BY <2>1 DEF Take, Holding
    <3>3. \A d \in Clients : held[d] # current_conn
      BY <3>1 DEF HolderFlag, Holders, Conns
    <3>4. held' = [held EXCEPT ![c] = current_conn]
      BY <2>1 DEF Take, Goto, Holding, TypeOK, LockedTypes
    <3> QED BY <3>1, <3>2, <3>3, <3>4 DEF Lending!Lend, Lending!Conns, Conns
  <2>2. ASSUME NEW c \in Clients, Clear(c) PROVE Lending!HandBack(c)
    <3>1. held[c] # None
      BY <2>2 DEF Clear, HolderFlag, Holders, Holding, Conns
    <3>2. held' = [held EXCEPT ![c] = None]
      BY <2>2 DEF Clear, Goto, Holding, TypeOK, LockedTypes
    <3> QED BY <3>1, <3>2 DEF Lending!HandBack
  <2>3. ASSUME NEW c \in Clients,
               CallGet(c) \/ PollFree(c) \/ LockGet(c) \/ Scan(c) \/ Found(c)
               \/ UnlockGet(c) \/ CallFree(c) \/ LockFree(c) \/ UnlockFree(c)
        PROVE  held' = held
    BY <2>3 DEF CallGet, PollFree, LockGet, Scan, Found, UnlockGet, CallFree,
                LockFree, UnlockFree, Goto, Holding, TypeOK
  <2>4. CASE UNCHANGED vars
    BY <2>4 DEF vars
  <2> QED BY <2>1, <2>2, <2>3, <2>4 DEF Next, Step, Lending!Next
<1> QED BY <1>1, <1>2, <1>3, PTL DEF Spec, LendingSpec, Lending!Spec

-----------------------------------------------------------------------------
(***************************************************************************)
(* RedisPool.                                                              *)
(***************************************************************************)

\* Every step of the redis pool is a step of the pool, or leaves the flags, the
\* counter, the mutex and the clients' places as they are.
LEMMA StepMaps ==
    RedisTypes /\ ReplacedNotKept /\ [RedisNext]_redisVars => [Pool!Next]_(Pool!vars)
<1> SUFFICES ASSUME RedisTypes, ReplacedNotKept, [RedisNext]_redisVars
             PROVE  [Pool!Next]_(Pool!vars)
  OBVIOUS
<1> USE DEF RedisTypes, RedisPlaces, Goto, Pool!Goto, Pool!vars
<1>1. ASSUME NEW c \in Clients, CallGet(c) PROVE Pool!CallGet(c)
  BY <1>1 DEF CallGet, Pool!CallGet
<1>2. ASSUME NEW c \in Clients, PollFree(c) PROVE Pool!PollFree(c)
  BY <1>2 DEF PollFree, Pool!PollFree
<1>3. ASSUME NEW c \in Clients, LockGet(c) PROVE Pool!LockGet(c)
  BY <1>3 DEF LockGet, Pool!LockGet
<1>4. ASSUME NEW c \in Clients, Scan(c) PROVE Pool!Scan(c)
  BY <1>4 DEF Scan, Pool!Scan
<1>5. ASSUME NEW c \in Clients, Found(c) PROVE Pool!Found(c)
  BY <1>5 DEF Found, Pool!Found
<1>6. ASSUME NEW c \in Clients, Take(c) PROVE Pool!Take(c)
  BY <1>6 DEF Take, Pool!Take
<1>7. ASSUME NEW c \in Clients, UnlockGet(c) PROVE Pool!UnlockGet(c)
  BY <1>7 DEF UnlockGet, Pool!UnlockGet
<1>8. ASSUME NEW c \in Clients, LockFree(c) PROVE Pool!LockFree(c)
  BY <1>8 DEF LockFree, Pool!LockFree
<1>9. ASSUME NEW c \in Clients, Clear(c) PROVE Pool!Clear(c)
  BY <1>9 DEF Clear, Pool!Clear
<1>10. ASSUME NEW c \in Clients, UnlockFree(c) PROVE Pool!UnlockFree(c)
  BY <1>10 DEF UnlockFree, Pool!UnlockFree
<1>11. ASSUME NEW c \in Clients, FreeHealthy(c) PROVE Pool!CallFree(c)
  BY <1>11 DEF FreeHealthy, CallFree, Pool!CallFree
<1>12. ASSUME NEW c \in Clients, Authenticate(c) PROVE Pool!CallFree(c)
  BY <1>12 DEF Authenticate, ReplacedNotKept, Pool!CallFree
<1>13. ASSUME NEW c \in Clients, Reconnect(c)
       PROVE  Pool!CallFree(c) \/ UNCHANGED Pool!vars
  <2>1. CASE HasPassword
    BY <1>13, <2>1 DEF Reconnect
  <2>2. CASE ~ HasPassword
    BY <1>13, <2>2 DEF Reconnect, ReplacedNotKept, Pool!CallFree
  <2> QED BY <2>1, <2>2
<1>14. ASSUME NEW c \in Clients, CommandFails(c) \/ FreeFaulty(c) \/ AuthRefused(c)
       PROVE  UNCHANGED Pool!vars
  BY <1>14 DEF CommandFails, FreeFaulty, AuthRefused, vars
<1>15. CASE UNCHANGED redisVars
  BY <1>15 DEF redisVars, vars
<1> QED
  BY <1>1, <1>2, <1>3, <1>4, <1>5, <1>6, <1>7, <1>8, <1>9, <1>10, <1>11, <1>12, <1>13,
     <1>14, <1>15
  DEF RedisNext, RedisStep, SamePool, Pool!Next, Pool!Step

LEMMA RedisInitIInv == RedisInit => RedisIInv
<1> SUFFICES ASSUME RedisInit PROVE RedisIInv
  OBVIOUS
<1> USE ConnPoolAssumption, RedisPoolAssumption
<1>1. RedisTypes
  BY DEF RedisInit, Init, RedisTypes, RedisPlaces, Conns
<1>2. InCritical /\ FoundClear /\ RedisHolderFlag /\ RedisExclusive
  BY DEF RedisInit, Init, InCritical, Critical, FoundClear, RedisHolderFlag,
         RedisExclusive, RedisHolding, Holding
<1>3. ReplacedNotKept /\ HandsBackHealthy /\ IdleHealthy
  BY DEF RedisInit, Init, ReplacedNotKept, HandsBackHealthy, IdleHealthy
<1> QED BY <1>1, <1>2, <1>3 DEF RedisIInv

LEMMA RedisStepIInv == RedisIInv /\ [RedisNext]_redisVars => RedisIInv'
<1> SUFFICES ASSUME RedisIInv, [RedisNext]_redisVars PROVE RedisIInv'
  OBVIOUS
<1> USE ConnPoolAssumption, RedisPoolAssumption
<1> USE DEF RedisIInv, RedisTypes, RedisPlaces, InCritical, Critical, FoundClear,
            RedisHolderFlag, RedisExclusive, ReplacedNotKept, HandsBackHealthy,
            IdleHealthy, RedisHolding, Holding, Goto
<1>1. ASSUME NEW c \in Clients, CallGet(c), UNCHANGED context PROVE RedisIInv'
  BY <1>1 DEF CallGet
<1>2. ASSUME NEW c \in Clients, PollFree(c), UNCHANGED context PROVE RedisIInv'
  BY <1>2 DEF PollFree
<1>3. ASSUME NEW c \in Clients, LockGet(c), UNCHANGED context PROVE RedisIInv'
  BY <1>3 DEF LockGet
<1>4. ASSUME NEW c \in Clients, Scan(c), UNCHANGED context PROVE RedisIInv'
  BY <1>4 DEF Scan, Conns
<1>5. ASSUME NEW c \in Clients, Found(c), UNCHANGED context PROVE RedisIInv'
  BY <1>5 DEF Found
<1>6. ASSUME NEW c \in Clients, Take(c), UNCHANGED context PROVE RedisIInv'
  BY <1>6 DEF Take, Conns
<1>7. ASSUME NEW c \in Clients, UnlockGet(c), UNCHANGED context PROVE RedisIInv'
  BY <1>7 DEF UnlockGet
<1>8. ASSUME NEW c \in Clients, LockFree(c), UNCHANGED context PROVE RedisIInv'
  BY <1>8 DEF LockFree
<1>9. ASSUME NEW c \in Clients, Clear(c), UNCHANGED context PROVE RedisIInv'
  BY <1>9 DEF Clear
<1>10. ASSUME NEW c \in Clients, UnlockFree(c), UNCHANGED context PROVE RedisIInv'
  BY <1>10 DEF UnlockFree
<1>11. ASSUME NEW c \in Clients, CommandFails(c) PROVE RedisIInv'
  BY <1>11 DEF CommandFails, vars
<1>12. ASSUME NEW c \in Clients, FreeHealthy(c) PROVE RedisIInv'
  BY <1>12 DEF FreeHealthy, CallFree
<1>13. ASSUME NEW c \in Clients, FreeFaulty(c) PROVE RedisIInv'
  BY <1>13 DEF FreeFaulty
<1>14. ASSUME NEW c \in Clients, Authenticate(c) PROVE RedisIInv'
  BY <1>14 DEF Authenticate
<1>15. ASSUME NEW c \in Clients, AuthRefused(c) PROVE RedisIInv'
  BY <1>15 DEF AuthRefused
<1>16. ASSUME NEW c \in Clients, Reconnect(c) PROVE RedisIInv'
  <2>1. CASE HasPassword
    BY <1>16, <2>1 DEF Reconnect
  <2>2. CASE ~ HasPassword
    BY <1>16, <2>2 DEF Reconnect
  <2> QED BY <2>1, <2>2
<1>17. CASE UNCHANGED redisVars
  BY <1>17 DEF redisVars, vars
<1> QED
  BY <1>1, <1>2, <1>3, <1>4, <1>5, <1>6, <1>7, <1>8, <1>9, <1>10, <1>11, <1>12, <1>13, <1>14, <1>15, <1>16, <1>17
  DEF RedisNext, RedisStep, SamePool

\* The redis pool is the pool of ConnPool: reconnecting outside the mutex does
\* not show through the flags, the counter and the mutex.
THEOREM RedisImplementsPool == RedisSpec => PoolSpec
<1>1. RedisSpec => []RedisIInv
  BY RedisInitIInv, RedisStepIInv, PTL DEF RedisSpec
<1>2. RedisInit => Pool!Init
  BY DEF RedisInit, Init, Pool!Init, Pool!Conns, Conns
<1>3. RedisIInv /\ [RedisNext]_redisVars => [Pool!Next]_(Pool!vars)
  BY StepMaps DEF RedisIInv
<1> QED BY <1>1, <1>2, <1>3, PTL DEF RedisSpec, PoolSpec, Pool!Spec

\* No client is ever lent a broken context.
THEOREM NeverLendsBroken == RedisSpec => []IdleHealthy
<1>1. RedisSpec => []RedisIInv
  BY RedisInitIInv, RedisStepIInv, PTL DEF RedisSpec
<1>2. RedisIInv => IdleHealthy
  BY DEF RedisIInv
<1> QED BY <1>1, <1>2, PTL

\* No two clients use or replace the same redisContext.
THEOREM RedisExclusion == RedisSpec => []RedisExclusive
<1>1. RedisSpec => []RedisIInv
  BY RedisInitIInv, RedisStepIInv, PTL DEF RedisSpec
<1>2. RedisIInv => RedisExclusive
  BY DEF RedisIInv
<1> QED BY <1>1, <1>2, PTL
=============================================================================
