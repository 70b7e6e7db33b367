--------------------------- MODULE PyKafkaProofs ----------------------------
(***************************************************************************)
(* Proofs about what is built on PyKafka.  Query, for every number of      *)
(* searchers, connections, queries and requests: where the connections     *)
(* are, that the searchers do not block one another, and that users get    *)
(* what QueryService promises.  Crawl, for every web of pages, size of the *)
(* queues and number of faults: no page is fetched again and again, and    *)
(* none gets lost on its way round.                                        *)
(***************************************************************************)
EXTENDS Query, Crawl, FiniteSetTheorems, TLAPS

\* One more searcher, or one less, has a connection.
LEMMA OneMore ==
    ASSUME NEW H \in SUBSET Searchers, NEW s \in Searchers, s \notin H
    PROVE  /\ Cardinality(H) \in Nat
           /\ Cardinality(H \cup {s}) = Cardinality(H) + 1
<1>1. IsFiniteSet(H)
  BY SearchersAssumption, FS_Subset, Zenon
<1> QED BY <1>1, FS_CardinalityType, FS_AddElement, Zenon

LEMMA OneLess ==
    ASSUME NEW H \in SUBSET Searchers, NEW s \in H
    PROVE  /\ Cardinality(H) \in Nat /\ Cardinality(H \ {s}) \in Nat
           /\ Cardinality(H \ {s}) = Cardinality(H) - 1
<1>1. IsFiniteSet(H) /\ IsFiniteSet(H \ {s})
  BY SearchersAssumption, FS_Subset, Zenon
<1> QED BY <1>1, FS_CardinalityType, FS_RemoveElement, Zenon

LEMMA HoldersCounted ==
    ASSUME NEW pool PROVE Cardinality(Holders(pool)) \in Nat
<1>1. Holders(pool) \in SUBSET Searchers
  BY DEF Holders
<1> QED BY <1>1, SearchersAssumption, FS_Subset, FS_CardinalityType, Zenon

LEMMA PoolFacts ==
    /\ Pools = {"mysql", "redis"}
    /\ Conns["mysql"] = MysqlConns /\ Conns["redis"] = RedisConns
    /\ MysqlConns \in Nat /\ RedisConns \in Nat
    /\ IsFiniteSet(Searchers) /\ Cardinality(Searchers) \in Nat
<1>1. Cardinality(Searchers) \in Nat
  BY SearchersAssumption, FS_CardinalityType, Zenon
<1> QED BY <1>1, SearchersAssumption DEF Pools, Conns

LEMMA InitPools == Init => PoolInv
<1> SUFFICES ASSUME Init PROVE PoolInv
  OBVIOUS
<1>1. PoolTypes
  BY PoolFacts DEF Init, SearchersInit, PoolTypes, Places, Conns
<1>2. HoldsByPlace /\ ScansByPlace
  BY PoolFacts DEF Init, SearchersInit, HoldsByPlace, ScansByPlace, Having
<1>3. \A pool : Holders(pool) = {}
  BY DEF Init, SearchersInit, Holders
<1>4. \A pool : Cardinality(Holders(pool)) = 0
  BY <1>3, FS_EmptySet, Zenon
<1>5. free = Conns /\ \A pool : Lost(pool) = 0
  BY DEF Init, SearchersInit, Lost
<1>6. ConnsAccounted
  BY <1>4, <1>5, PoolFacts DEF ConnsAccounted
<1> QED BY <1>1, <1>2, <1>6 DEF PoolInv

\* A searcher that is not in get_conn goes on with what it has.
Moves(from, to) ==
    \/ from = "idle" /\ to \in {"conn", "redis"}
    \/ from = "select" /\ to \in {"freeword", "throwword"}
    \/ from = "pages" /\ to \in {"free", "failed", "throw"}
    \/ from = "set" /\ to \in {"free", "failed"}

LEMMA MoveKeeps ==
    ASSUME PoolInv, NEW s \in Searchers, NEW to, Moves(sc[s], to),
           sc' = [sc EXCEPT ![s] = to], UNCHANGED pools
    PROVE  PoolInv'
<1> USE DEF PoolInv
<1>0. /\ to \in Places
      /\ \A pool \in Pools : sc[s] \notin Getting[pool]
      /\ \A pool \in Pools : to \in Having[pool] <=> sc[s] \in Having[pool]
  BY PoolFacts DEF Moves, Places, Getting, Having
<1>1. PoolTypes'
  BY <1>0 DEF PoolTypes, pools
<1>2. HoldsByPlace'
  BY <1>0 DEF HoldsByPlace, PoolTypes, pools
<1>3. gc[s] = "poll" /\ gc' = gc /\ \A pool : Scarce(pool)' <=> Scarce(pool)
  BY <1>0 DEF ScansByPlace, PoolTypes, Scarce, Lost, pools
<1>4. ScansByPlace'
  BY <1>3 DEF ScansByPlace, PoolTypes
<1>5. ConnsAccounted'
  BY DEF ConnsAccounted, Holders, Lost, pools
<1> QED BY <1>1, <1>2, <1>4, <1>5

\* The same with a connection handed back.
Frees(from, pool, to) ==
    \/ /\ pool = "mysql"
       /\ \/ from = "freeword" /\ to \in {"conn", "redis"}
          \/ from = "free" /\ to = "freeredis"
          \/ from = "throwword" /\ to = "ended"
          \/ from = "throw" /\ to = "throwredis"
    \/ /\ pool = "redis"
       /\ \/ from = "failed" /\ to = "again"
          \/ from = "freeredis" /\ to = "idle"
          \/ from = "throwredis" /\ to = "ended"

LEMMA FreeKeeps ==
    ASSUME PoolInv, NEW s \in Searchers, NEW p, NEW to, Frees(sc[s], p, to),
           sc' = [sc EXCEPT ![s] = to], FreeConn(s, p)
    PROVE  PoolInv'
<1> USE DEF PoolInv
<1>0. /\ to \in Places /\ p \in Pools
      /\ \A pool \in Pools : to \in Having[pool] <=> sc[s] \in Having[pool] /\ pool # p
  BY PoolFacts DEF Frees, Places, Having
<1>1. /\ sc[s] \in Freeing[p]
      /\ free' = [free EXCEPT ![p] = @ + 1]
      /\ holds' = [holds EXCEPT ![s] = @ \ {p}]
      /\ gc' = gc /\ misses' = misses
  BY DEF FreeConn
<1>2. sc[s] \in Having[p] /\ \A pool \in Pools : sc[s] \notin Getting[pool]
  BY <1>0, <1>1, PoolFacts DEF Freeing, Having, Getting
<1>3. PoolTypes'
  BY <1>0, <1>1 DEF PoolTypes
<1>4. HoldsByPlace'
  BY <1>0, <1>1 DEF HoldsByPlace, PoolTypes
<1>5. gc[s] = "poll" /\ \A pool : Scarce(pool)' <=> Scarce(pool)
  BY <1>1, <1>2 DEF ScansByPlace, PoolTypes, Scarce, Lost
<1>6. ScansByPlace'
  BY <1>0, <1>1, <1>5 DEF ScansByPlace, PoolTypes
<1>7. s \in Holders(p) /\ Holders(p) \in SUBSET Searchers
  BY <1>0, <1>2 DEF HoldsByPlace, Holders
<1>8. /\ Holders(p)' = Holders(p) \ {s}
      /\ \A pool \in Pools : pool # p => Holders(pool)' = Holders(pool)
  BY <1>1 DEF PoolTypes, Holders
<1>9. /\ Cardinality(Holders(p)) \in Nat
      /\ Cardinality(Holders(p)') = Cardinality(Holders(p)) - 1
  BY <1>7, <1>8, OneLess
<1>10. ASSUME NEW pool \in Pools
       PROVE  free'[pool] + Lost(pool)' + Cardinality(Holders(pool)') = Conns[pool]
  <2>1. /\ free[pool] + Lost(pool) + Cardinality(Holders(pool)) = Conns[pool]
        /\ free[pool] \in Nat /\ Lost(pool) \in Nat /\ Lost(pool)' = Lost(pool)
    BY <1>1 DEF ConnsAccounted, PoolTypes, Lost
  <2>2. CASE pool = p
    <3>1. free'[p] = free[p] + 1
      BY <1>0, <1>1 DEF PoolTypes
    <3> QED BY <1>9, <2>1, <2>2, <3>1
  <2>3. CASE pool # p
    BY <1>1, <1>8, <2>1, <2>3 DEF PoolTypes
  <2> QED BY <2>2, <2>3
<1>11. ConnsAccounted'
  BY <1>10 DEF ConnsAccounted
<1> QED BY <1>3, <1>4, <1>6, <1>11

\* get_conn, and what it returns.
LEMMA GetConnKeeps ==
    ASSUME PoolInv, NEW s \in Searchers, NEW p \in Pools,
           Poll(s, p) \/ TakeConn(s, p) \/ ScanForEver(s, p)
    PROVE  PoolInv'
<1> USE DEF PoolInv
<1>1. CASE Poll(s, p)
  <2>1. /\ sc[s] \in Getting[p]
        /\ gc' = [gc EXCEPT ![s] = "lock"]
        /\ UNCHANGED <<sc, holds, free, misses>>
    BY <1>1 DEF Poll, InGetConn
  <2>2. PoolTypes' /\ HoldsByPlace' /\ ConnsAccounted'
    BY <2>1 DEF PoolTypes, HoldsByPlace, ConnsAccounted, Holders, Lost
  <2>3. ScansByPlace'
    BY <2>1 DEF ScansByPlace, PoolTypes, Scarce, Lost
  <2> QED BY <2>2, <2>3
<1>2. CASE TakeConn(s, p)
  <2>1. PICK to \in Places : to = Got[sc[s]]
    BY <1>2, PoolFacts DEF TakeConn, InGetConn, Getting, Got, Places
  <2>2. /\ sc[s] \in Getting[p] /\ free[p] > 0
        /\ free' = [free EXCEPT ![p] = @ - 1]
        /\ holds' = [holds EXCEPT ![s] = @ \cup {p}]
        /\ gc' = [gc EXCEPT ![s] = "poll"]
        /\ sc' = [sc EXCEPT ![s] = to] /\ misses' = misses
    BY <1>2, <2>1 DEF TakeConn, InGetConn, Goto
  <2>3. /\ sc[s] \notin Having[p]
        /\ \A pool \in Pools : to \in Having[pool] <=> sc[s] \in Having[pool] \/ pool = p
    BY <2>1, <2>2, PoolFacts DEF Getting, Got, Having
  <2>4. PoolTypes'
    BY <2>2 DEF PoolTypes
  <2>5. HoldsByPlace'
    BY <2>2, <2>3 DEF HoldsByPlace, PoolTypes
  <2>6. ScansByPlace'
    BY <2>2 DEF ScansByPlace, PoolTypes, Scarce, Lost
  <2>7. s \notin Holders(p) /\ Holders(p) \in SUBSET Searchers
    BY <2>3 DEF HoldsByPlace, Holders
  <2>8. /\ Holders(p)' = Holders(p) \cup {s}
        /\ \A pool \in Pools : pool # p => Holders(pool)' = Holders(pool)
    BY <2>2 DEF PoolTypes, Holders
  <2>9. /\ Cardinality(Holders(p)) \in Nat
        /\ Cardinality(Holders(p)') = Cardinality(Holders(p)) + 1
    BY <2>7, <2>8, OneMore
  <2>10. ASSUME NEW pool \in Pools
         PROVE  free'[pool] + Lost(pool)' + Cardinality(Holders(pool)') = Conns[pool]
    <3>1. /\ free[pool] + Lost(pool) + Cardinality(Holders(pool)) = Conns[pool]
          /\ free[pool] \in Nat /\ Lost(pool) \in Nat /\ Lost(pool)' = Lost(pool)
      BY <2>2 DEF ConnsAccounted, PoolTypes, Lost
    <3>2. CASE pool = p
      <4>1. free'[p] = free[p] - 1
        BY <2>2 DEF PoolTypes
      <4> QED BY <2>9, <3>1, <3>2, <4>1
    <3>3. CASE pool # p
      BY <2>2, <2>8, <3>1, <3>3 DEF PoolTypes
    <3> QED BY <3>2, <3>3
  <2>11. ConnsAccounted'
    BY <2>10 DEF ConnsAccounted
  <2> QED BY <2>4, <2>5, <2>6, <2>11
<1>3. CASE ScanForEver(s, p)
  <2>1. /\ sc[s] \in Getting[p] /\ free[p] = 0
        /\ gc' = [gc EXCEPT ![s] = "scan"]
        /\ UNCHANGED <<sc, holds, free, misses>>
    BY <1>3 DEF ScanForEver, InGetConn
  <2>2. PoolTypes' /\ HoldsByPlace' /\ ConnsAccounted'
    BY <2>1 DEF PoolTypes, HoldsByPlace, ConnsAccounted, Holders, Lost
  <2>3. Scarce(p)
    <3>1. Holders(p) \in SUBSET (Searchers \ {s})
      BY <2>1, PoolFacts DEF HoldsByPlace, Having, Getting, Holders
    <3>2. /\ IsFiniteSet(Searchers \ {s})
          /\ Cardinality(Searchers \ {s}) = Cardinality(Searchers) - 1
      BY PoolFacts, FS_RemoveElement, Zenon
    <3>3. Cardinality(Holders(p)) <= Cardinality(Searchers \ {s})
      BY <3>1, <3>2, FS_Subset, Zenon
    <3>4. Cardinality(Holders(p)) \in Nat
      BY HoldersCounted
    <3>5. Lost(p) + Cardinality(Holders(p)) = Conns[p] /\ Lost(p) \in Nat
      BY <2>1, <3>4 DEF ConnsAccounted, PoolTypes, Lost
    <3> QED BY <3>2, <3>3, <3>4, <3>5, PoolFacts DEF Scarce
  <2>4. \A pool \in Pools : sc[s] \in Getting[pool] => pool = p
    BY <2>1, PoolFacts DEF Getting
  <2>5. \A pool : Scarce(pool)' <=> Scarce(pool)
    BY <2>1 DEF Scarce, Lost
  <2>6. ScansByPlace'
    BY <2>1, <2>3, <2>4, <2>5 DEF ScansByPlace, PoolTypes
  <2> QED BY <2>2, <2>6
<1> QED BY <1>1, <1>2, <1>3

\* From a searcher's next word on: it waits for a connection, or goes to the output.
LEMMA OnFromGoes ==
    ASSUME NEW s, NEW words, NEW i, NEW done, OnFrom(s, words, i, done)
    PROVE  \E to \in {"conn", "redis"} : sc' = [sc EXCEPT ![s] = to]
BY DEF OnFrom, Goto

\* A connection fewer that anybody knows of.
LEMMA NoRowKeeps ==
    ASSUME PoolInv, NEW s \in Searchers, NoRow(s)
    PROVE  PoolInv'
<1> USE DEF PoolInv
<1>1. PICK to \in {"conn", "redis"} : sc' = [sc EXCEPT ![s] = to]
  BY OnFromGoes DEF NoRow
<1>2. /\ sc[s] = "select"
      /\ holds' = [holds EXCEPT ![s] = {}]
      /\ misses' = misses + 1
      /\ UNCHANGED <<gc, free>>
  BY DEF NoRow, At
<1>3. PoolTypes'
  BY <1>1, <1>2 DEF PoolTypes, Places
<1>4. HoldsByPlace'
  BY <1>1, <1>2, PoolFacts DEF HoldsByPlace, PoolTypes, Having
<1>5. gc[s] = "poll" /\ \A pool \in Pools : Scarce(pool) => Scarce(pool)'
  BY <1>2, PoolFacts DEF ScansByPlace, PoolTypes, Getting, Scarce, Lost
<1>6. ScansByPlace'
  BY <1>1, <1>2, <1>5 DEF ScansByPlace, PoolTypes
<1>7. s \in Holders("mysql") /\ Holders("mysql") \in SUBSET Searchers
  BY <1>2, PoolFacts DEF HoldsByPlace, Having, Holders
<1>8. Holders("mysql")' = Holders("mysql") \ {s} /\ Holders("redis")' = Holders("redis")
  BY <1>2, PoolFacts DEF HoldsByPlace, Having, PoolTypes, Holders
<1>9. /\ Cardinality(Holders("mysql")) \in Nat
      /\ Cardinality(Holders("mysql")') = Cardinality(Holders("mysql")) - 1
  BY <1>7, <1>8, OneLess
<1>10. ConnsAccounted'
  BY <1>2, <1>8, <1>9, PoolFacts DEF ConnsAccounted, PoolTypes, Lost
<1> QED BY <1>3, <1>4, <1>6, <1>10

LEMMA StepPools == PoolInv /\ [Next]_vars => PoolInv'
<1> SUFFICES ASSUME PoolInv, [Next]_vars PROVE PoolInv'
  OBVIOUS
<1> USE DEF Moves, Frees
<1>1. ASSUME NEW s \in Searchers, GetFront(s) PROVE PoolInv'
  <2>1. PICK to \in {"conn", "redis"} : sc' = [sc EXCEPT ![s] = to]
    BY <1>1, OnFromGoes DEF GetFront
  <2> QED BY <1>1, <2>1, MoveKeeps DEF GetFront, At
<1>2. ASSUME NEW s \in Searchers, ReadList(s) PROVE PoolInv'
  BY <1>2, MoveKeeps DEF ReadList, At, Goto
<1>3. ASSUME NEW s \in Searchers, FreeWord(s) PROVE PoolInv'
  <2>1. PICK to \in {"conn", "redis"} : sc' = [sc EXCEPT ![s] = to]
    BY <1>3, OnFromGoes DEF FreeWord
  <2> QED BY <1>3, <2>1, FreeKeeps DEF FreeWord, At
<1>4. ASSUME NEW s \in Searchers, SelectRefused(s) PROVE PoolInv'
  <2>1. PICK to \in {"throwword", "throw"} :
            /\ sc' = [sc EXCEPT ![s] = to]
            /\ sc[s] = IF to = "throw" THEN "pages" ELSE "select"
    BY <1>4 DEF SelectRefused, At, Goto
  <2> QED BY <1>4, <2>1, MoveKeeps DEF SelectRefused
<1>5. ASSUME NEW s \in Searchers, Throw(s) PROVE PoolInv'
  <2>1. CASE At(s, "throwword") /\ FreeConn(s, "mysql") /\ Goto(s, "ended")
    BY <2>1, FreeKeeps DEF At, Goto
  <2>2. CASE At(s, "throw") /\ FreeConn(s, "mysql") /\ Goto(s, "throwredis")
    BY <2>2, FreeKeeps DEF At, Goto
  <2>3. CASE At(s, "throwredis") /\ FreeConn(s, "redis") /\ Goto(s, "ended")
    BY <2>3, FreeKeeps DEF At, Goto
  <2> QED BY <1>5, <2>1, <2>2, <2>3 DEF Throw
<1>6. ASSUME NEW s \in Searchers, SetAnswer(s) PROVE PoolInv'
  BY <1>6, MoveKeeps DEF SetAnswer, At, Goto
<1>7. ASSUME NEW s \in Searchers, SetFails(s) PROVE PoolInv'
  BY <1>7, MoveKeeps DEF SetFails, At, Goto
<1>8. ASSUME NEW s \in Searchers, ReplaceRedis(s) PROVE PoolInv'
  BY <1>8, FreeKeeps DEF ReplaceRedis, At, Goto
<1>9. ASSUME NEW s \in Searchers, FreeMysql(s) PROVE PoolInv'
  BY <1>9, FreeKeeps DEF FreeMysql, At, Goto
<1>10. ASSUME NEW s \in Searchers, FreeRedis(s) PROVE PoolInv'
  BY <1>10, FreeKeeps DEF FreeRedis, At, Goto
<1>11. ASSUME UNCHANGED <<sc, pools>> PROVE PoolInv'
  <2>1. (PoolTypes /\ HoldsByPlace /\ ConnsAccounted)'
    BY <1>11 DEF pools, PoolInv, PoolTypes, HoldsByPlace, ConnsAccounted, Holders, Lost
  <2>2. ScansByPlace'
    BY <1>11 DEF pools, PoolInv, ScansByPlace, Scarce, Lost
  <2> QED BY <2>1, <2>2 DEF PoolInv
<1>12. ASSUME NEW s \in Searchers, AuthRefused(s) PROVE PoolInv'
  BY <1>12, <1>11 DEF AuthRefused
<1>13. ASSUME NEW r \in Requests, Request(r) PROVE PoolInv'
  BY <1>13, <1>11 DEF Request, Hit, PutRequest, MissAgain, searcherVars
<1>14. CASE HttpHandler \/ ReceiveFromWordSplit
  BY <1>14, <1>11 DEF HttpHandler, ReceiveFromWordSplit, searcherVars
<1>15. ASSUME NEW r \in Requests, NEW q \in Queries, Post(r, q) PROVE PoolInv'
  BY <1>15, <1>11 DEF Post, searcherVars
<1>16. ASSUME NEW k \in Keys, Grow(k) PROVE PoolInv'
  BY <1>16, <1>11 DEF Grow
<1>17. CASE UNCHANGED searcherVars
  BY <1>17, <1>11 DEF searcherVars
<1>18. CASE UNCHANGED vars
  BY <1>18, <1>17 DEF vars
<1>19. CASE Progress
  BY <1>19, <1>1, <1>2, <1>3, <1>5, <1>6, <1>8, <1>9, <1>10, <1>13, <1>14, <1>17,
     GetConnKeeps, NoRowKeeps DEF Progress, Work
<1>20. CASE Environment
  BY <1>20, <1>4, <1>7, <1>12, <1>15, <1>16, <1>17 DEF Environment, SearcherTrips
<1> QED BY <1>18, <1>19, <1>20 DEF Next

\* For any number of searchers and connections: every connection is free or with a
\* searcher, but for one for each look-up of a word without a row.
THEOREM ConnsAreAccounted == Spec => []ConnsAccounted
<1>1. PoolInv => ConnsAccounted
  BY DEF PoolInv
<1> QED BY <1>1, InitPools, StepPools, PTL DEF Spec

\* Where there are as many connections as searchers nobody scans for ever, so that
\* who waits polls a pool without a free one.  If one of them polls redis, then the
\* others hold every redis connection, of which there are as many as searchers; and
\* if all of them poll MySQL nobody has a connection of it.
LEMMA SomebodyGoesOn == PoolInv => NoCircularWait
<1> SUFFICES ASSUME PoolInv, NEW s \in Searchers, sc[s] # "idle",
                    \A pool \in Pools : Cardinality(Searchers) <= Conns[pool],
                    \A t \in Searchers : sc[t] # "idle" => Stuck(t),
                    misses # MysqlConns, ~ (Scarce("mysql") /\ Wedged("mysql"))
             PROVE  FALSE
  BY DEF NoCircularWait
<1> USE PoolFacts
<1>1. \A pool \in Pools : Wedged(pool) => Scarce(pool)
  BY DEF PoolInv, ScansByPlace, Wedged
<1>2. ~ Scarce("redis")
  BY DEF Scarce, Lost
<1>3. ASSUME NEW t \in Searchers, sc[t] # "idle"
      PROVE  \E pool \in Pools : sc[t] \in Getting[pool] /\ free[pool] = 0
  BY <1>1, <1>2, <1>3 DEF Stuck, Wedged
<1>4. CASE \E t \in Searchers : sc[t] \in Getting["redis"]
  <2>1. PICK t \in Searchers : sc[t] \in Getting["redis"]
    BY <1>4
  <2>2. free["redis"] = 0 /\ t \notin Holders("redis") /\ Holders("redis") \in SUBSET Searchers
    BY <1>3, <2>1 DEF PoolInv, HoldsByPlace, Holders, Having, Getting
  <2>3. Cardinality(Holders("redis")) = RedisConns
    BY <2>2, HoldersCounted DEF PoolInv, PoolTypes, ConnsAccounted, Lost
  <2>4. Holders("redis") \in SUBSET (Searchers \ {t})
    BY <2>2
  <2>5. /\ IsFiniteSet(Searchers \ {t})
        /\ Cardinality(Searchers \ {t}) = Cardinality(Searchers) - 1
    BY FS_RemoveElement, FS_Subset, Zenon
  <2>6. Cardinality(Holders("redis")) <= Cardinality(Searchers \ {t})
    BY <2>4, <2>5, FS_Subset, Zenon
  <2> QED BY <2>3, <2>5, <2>6
<1>5. CASE \A t \in Searchers : sc[t] \notin Getting["redis"]
  <2>1. \A t \in Searchers : sc[t] \in {"idle", "conn", "mysql"}
    BY <1>3, <1>5 DEF Getting
  <2>2. free["mysql"] = 0 /\ Holders("mysql") = {}
    BY <1>3, <1>5, <2>1 DEF PoolInv, HoldsByPlace, Holders, Having
  <2>3. Cardinality(Holders("mysql")) = 0
    BY <2>2, FS_EmptySet, Zenon
  <2> QED BY <2>2, <2>3 DEF PoolInv, PoolTypes, ConnsAccounted, Lost
<1> QED BY <1>4, <1>5

\* For any number of searchers, with as many connections of each pool: unless all
\* MySQL connections are lost, or fewer are left than searchers and one scans for
\* ever for the last of them, one of the searchers at work can go on.
THEOREM SearchersGoOn == Spec => []NoCircularWait
BY InitPools, StepPools, SomebodyGoesOn, PTL DEF Spec
-----------------------------------------------------------------------------
\* A searcher that goes on from position i of its words comes to one that it has
\* not read, and has read or found without a list all that it is past.
LEMMA OnFromReads ==
    ASSUME NEW s \in Searchers, NEW words \in Seq(Keys), NEW i \in Nat \ {0},
           NEW done \in [Keys -> Nat], NEW old \in [Keys -> Nat],
           OnFrom(s, words, i, done), n \in [Searchers -> Nat \ {0}],
           \A k \in Keys : done[k] # 0 => old[k] <= done[k],
           \A j \in DOMAIN words : j < i => old[words[j]] <= done[words[j]]
    PROVE  \E to \in {"conn", "redis"}, m \in Nat \ {0} :
               /\ sc' = [sc EXCEPT ![s] = to] /\ n' = [n EXCEPT ![s] = m]
               /\ to = "conn" => m \in DOMAIN words
               /\ \A j \in DOMAIN words :
                      j < m \/ to = "redis" => old[words[j]] <= done[words[j]]
<1> DEFINE todo == {j \in i .. Len(words) : done[words[j]] = 0}
<1>1. \A j \in DOMAIN words : j \notin todo => old[words[j]] <= done[words[j]]
  <2> SUFFICES ASSUME NEW j \in DOMAIN words, j \notin todo
               PROVE  old[words[j]] <= done[words[j]]
    OBVIOUS
  <2>1. j \in 1 .. Len(words) /\ words[j] \in Keys
    OBVIOUS
  <2>2. CASE j < i
    BY <2>2
  <2>3. CASE ~ (j < i)
    <3>1. j \in i .. Len(words)
      BY <2>1, <2>3
    <3>2. done[words[j]] # 0
      BY <3>1
    <3> QED BY <2>1, <3>2
  <2> QED BY <2>2, <2>3
<1>2. CASE todo = {}
  <2>1. sc' = [sc EXCEPT ![s] = "redis"] /\ n' = [n EXCEPT ![s] = n[s]]
    BY <1>2 DEF OnFrom, Goto
  <2> QED BY <1>1, <1>2, <2>1
<1>3. CASE todo # {}
  <2>1. PICK next \in todo : /\ \A j \in todo : next <= j
                             /\ n' = [n EXCEPT ![s] = next]
    BY <1>3 DEF OnFrom
  <2>2. sc' = [sc EXCEPT ![s] = "conn"]
    BY <1>3 DEF OnFrom, Goto
  <2>3. next \in Nat \ {0} /\ next \in DOMAIN words
    OBVIOUS
  <2>4. \A j \in DOMAIN words : j < next => j \notin todo
    BY <2>1, <2>3
  <2> HIDE DEF todo
  <2> QED BY <1>1, <2>1, <2>2, <2>3, <2>4
<1> QED BY <1>2, <1>3

LEMMA InitService == Init => ServiceInv
<1> SUFFICES ASSUME Init PROVE ServiceInv
  OBVIOUS
<1> USE SearchersAssumption DEF Init, SearchersInit, KafkaInit
<1>1. QueryTypes
  BY DEF QueryTypes, Places, Unread
<1>2. OnlyAsked
  BY DEF OnlyAsked, Asked
<1>3. \A s \in Searchers : sc[s] = "idle" /\ read[s] = Unread
  OBVIOUS
<1> QED BY <1>1, <1>2, <1>3 DEF ServiceInv, Over

LEMMA SeqGrows ==
    ASSUME NEW S, NEW T, S \subseteq T PROVE Seq(S) \subseteq Seq(T)
OBVIOUS

\* What a searcher has read stays right as long as it does nothing.
LEMMA ReadStays ==
    ASSUME ServiceInv, NEW t \in Searchers, sc[t] \notin Over,
           sc'[t] = sc[t], query'[t] = query[t], n'[t] = n[t], read'[t] = read[t],
           since'[query[t]] = since[query[t]],
           \A k \in Keys : index[k] <= index'[k] /\ index'[k] \in Nat
    PROVE  ReadSince(t)'
<1>1. ReadSince(t)
  BY DEF ServiceInv
<1>2. \A k \in Keys : read[t][k] \in Nat /\ index[k] \in Nat
  BY DEF ServiceInv, QueryTypes
<1>3. \A k \in Keys : read'[t][k] <= index'[k]
  BY <1>1, <1>2 DEF ReadSince
<1> QED BY <1>1, <1>3 DEF ReadSince, Words, Word

\* A searcher's step that changes nothing of the index and the requests.
LEMMA SearcherMoves ==
    ASSUME ServiceInv, NEW s \in Searchers, QueryTypes',
           UNCHANGED <<index, since, at, want, reply, queue, flight, topic>>,
           inbox' \in Seq(Asked),
           \A t \in Searchers \ {s} : /\ sc'[t] = sc[t] /\ query'[t] = query[t]
                                      /\ n'[t] = n[t] /\ read'[t] = read[t],
           sc'[s] # "idle" => query'[s] \in Asked,
           sc'[s] = "idle" => read'[s] = Unread,
           sc'[s] \notin Over => ReadSince(s)'
    PROVE  ServiceInv'
<1>1. Asked' = Asked
  BY DEF Asked
<1>2. OnlyAsked'
  BY <1>1 DEF ServiceInv, OnlyAsked
<1>3. ASSUME NEW t \in Searchers, sc'[t] \notin Over PROVE ReadSince(t)'
  <2>1. CASE t = s
    BY <1>3, <2>1
  <2>2. CASE t # s
    BY <1>3, <2>2, ReadStays DEF ServiceInv, QueryTypes
  <2> QED BY <2>1, <2>2
<1>4. \A t \in Searchers : sc'[t] = "idle" => read'[t] = Unread
  BY DEF ServiceInv
<1> QED BY <1>2, <1>3, <1>4 DEF ServiceInv

LEMMA SearcherStep ==
    ASSUME ServiceInv, NEW s \in Searchers, Work(s) \/ SearcherTrips(s),
           UNCHANGED <<kafkaVars, apiVars>>
    PROVE  ServiceInv'
<1> USE DEF ServiceInv, kafkaVars, apiVars
<1>0. \A q \in Queries : KeysOf[q] \in Seq(Keys)
  BY SearchersAssumption
<1>1. CASE GetFront(s)
  <2> DEFINE q == Head(inbox)
             none == Unread
  <2>1. q \in Asked /\ q \in Queries /\ Tail(inbox) \in Seq(Asked)
    BY <1>1 DEF GetFront, OnlyAsked, Asked
  <2>2. since[q] \in [Keys -> Nat]
    BY <2>1 DEF QueryTypes, Asked
  <2>3. read[s] = none /\ OnFrom(s, KeysOf[q], 1, none)
    BY <1>1 DEF GetFront, At
  <2>4. PICK to \in {"conn", "redis"}, m \in Nat \ {0} :
               /\ sc' = [sc EXCEPT ![s] = to] /\ n' = [n EXCEPT ![s] = m]
               /\ to = "conn" => m \in DOMAIN KeysOf[q]
               /\ \A j \in DOMAIN KeysOf[q] :
                      j < m \/ to = "redis" => since[q][KeysOf[q][j]] <= none[KeysOf[q][j]]
    <3> HIDE DEF q
    <3>1. none \in [Keys -> Nat] /\ \A k \in Keys : none[k] = 0
      BY DEF Unread
    <3> HIDE DEF none
    <3>2. KeysOf[q] \in Seq(Keys) /\ \A j \in DOMAIN KeysOf[q] : ~ (j < 1)
      BY <1>0, <2>1
    <3>3. \A k \in Keys : none[k] # 0 => since[q][k] <= none[k]
      BY <3>1
    <3>4. 1 \in Nat \ {0} /\ n \in [Searchers -> Nat \ {0}]
      BY DEF QueryTypes
    <3>5. OnFrom(s, KeysOf[q], 1, none)
      BY <2>3
    <3> QED BY <2>2, <3>1, <3>2, <3>3, <3>4, <3>5, OnFromReads
  <2>5. query'[s] = q /\ read'[s] = none /\ UNCHANGED index
    BY <1>1, <2>3 DEF GetFront, QueryTypes
  <2>6. QueryTypes'
    BY <1>1, <2>4 DEF GetFront, QueryTypes, Places
  <2>7. sc'[s] = to /\ n'[s] = m
    BY <2>4 DEF QueryTypes
  <2>8. ReadSince(s)'
    <3> HIDE DEF q
    <3>1. \A k \in Keys : none[k] = 0 /\ index[k] \in Nat
      BY DEF QueryTypes, Unread
    <3> HIDE DEF none
    <3> QED BY <2>4, <2>5, <2>7, <3>1 DEF ReadSince, Words
  <2>9. \A t \in Searchers \ {s} : /\ sc'[t] = sc[t] /\ query'[t] = query[t]
                                   /\ n'[t] = n[t] /\ read'[t] = read[t]
    BY <1>1, <2>4 DEF GetFront, QueryTypes
  <2>10. UNCHANGED index /\ inbox' \in Seq(Asked)
    BY <1>1, <2>1 DEF GetFront
  <2> HIDE DEF q
  <2> QED BY <2>1, <2>5, <2>6, <2>7, <2>8, <2>9, <2>10, SearcherMoves
<1>2. ASSUME sc[s] \in {"select", "freeword"}, ~ (sc[s] \in Over)
      PROVE  /\ ReadSince(s) /\ query[s] \in Asked /\ query[s] \in Queries
             /\ KeysOf[query[s]] \in Seq(Keys)
             /\ n[s] \in DOMAIN KeysOf[query[s]] /\ n[s] \in Nat \ {0}
             /\ KeysOf[query[s]][n[s]] \in Keys
             /\ since[query[s]] \in [Keys -> Nat] /\ read[s] \in [Keys -> Nat]
             /\ index \in [Keys -> Nat]
             /\ \A k \in Keys : since[query[s]][k] <= index[k]
  <2>1. ReadSince(s) /\ query[s] \in Asked /\ query[s] \in Queries
    BY <1>2 DEF OnlyAsked, Asked
  <2>2. KeysOf[query[s]] \in Seq(Keys) /\ n[s] \in DOMAIN KeysOf[query[s]]
    BY <1>0, <1>2, <2>1 DEF ReadSince, Words
  <2> QED BY <2>1, <2>2 DEF QueryTypes, OnlyAsked, Asked
<1>3. CASE ReadList(s)
  <2> DEFINE q == query[s]
             w == KeysOf[q][n[s]]
             old == since[q]
             done == [read[s] EXCEPT ![w] = index[w]]
  <2>1. sc[s] = "select" /\ index[w] # 0
    BY <1>3 DEF ReadList, At, Word, Words
  <2>2. /\ ReadSince(s) /\ q \in Asked /\ w \in Keys
        /\ n[s] \in DOMAIN KeysOf[q] /\ KeysOf[q] \in Seq(Keys)
        /\ old \in [Keys -> Nat] /\ read[s] \in [Keys -> Nat] /\ index \in [Keys -> Nat]
        /\ \A k \in Keys : old[k] <= index[k]
    BY <1>2, <2>1 DEF Over
  <2>3. /\ \A k \in Keys : read[s][k] <= index[k]
        /\ \A k \in Keys : read[s][k] # 0 => old[k] <= read[s][k]
        /\ \A i \in DOMAIN KeysOf[q] : i < n[s] => old[KeysOf[q][i]] <= read[s][KeysOf[q][i]]
    BY <2>1, <2>2 DEF ReadSince, Words
  <2>4. /\ sc' = [sc EXCEPT ![s] = "freeword"] /\ read' = [read EXCEPT ![s] = done]
        /\ UNCHANGED <<index, query, n, inbox, store>>
    BY <1>3, <2>2 DEF ReadList, Goto, Word, Words, QueryTypes
  <2>5. /\ done \in [Keys -> Nat] /\ done[w] = index[w]
        /\ \A k \in Keys : k # w => done[k] = read[s][k]
    BY <2>2
  <2>6. QueryTypes'
    <3> HIDE DEF done
    <3> QED BY <2>4, <2>5 DEF QueryTypes, Places
  <2>7. sc'[s] = "freeword" /\ read'[s] = done
    BY <2>4 DEF QueryTypes
  <2>8. \A j \in DOMAIN KeysOf[q] : KeysOf[q][j] \in Keys
    BY <2>2
  <2>9. ReadSince(s)'
    <3> HIDE DEF done, old, w, q
    <3>1. ASSUME NEW k \in Keys
          PROVE  done[k] <= index[k] /\ (done[k] # 0 => old[k] <= done[k])
      <4>1. CASE k = w
        BY <2>2, <2>5, <4>1
      <4>2. CASE k # w
        BY <2>3, <2>5, <4>2
      <4> QED BY <4>1, <4>2
    <3>2. \A j \in DOMAIN KeysOf[q] : j < n[s] => old[KeysOf[q][j]] <= done[KeysOf[q][j]]
      BY <2>2, <2>3, <2>5, <2>8
    <3>3. done[w] # 0 /\ n[s] \in DOMAIN KeysOf[q]
      BY <2>1, <2>2, <2>5
    <3> QED BY <2>4, <2>7, <3>1, <3>2, <3>3 DEF ReadSince, Words, Word, q, old, w
  <2>10. \A t \in Searchers \ {s} : sc'[t] = sc[t] /\ read'[t] = read[t]
    BY <2>4 DEF QueryTypes
  <2> HIDE DEF q, done
  <2> QED BY <2>2, <2>4, <2>6, <2>7, <2>9, <2>10, SearcherMoves DEF OnlyAsked, q
<1>4. ASSUME FreeWord(s) \/ NoRow(s) PROVE ServiceInv'
  <2> DEFINE q == query[s]
             w == KeysOf[q][n[s]]
             old == since[q]
  <2>1. /\ sc[s] = IF NoRow(s) THEN "select" ELSE "freeword"
        /\ OnFrom(s, KeysOf[q], n[s] + 1, read[s])
        /\ NoRow(s) => index[w] = 0
        /\ UNCHANGED <<index, query, read, inbox, store>>
    BY <1>4 DEF FreeWord, NoRow, At, Word, Words
  <2>2. /\ ReadSince(s) /\ q \in Asked /\ w \in Keys
        /\ n[s] \in DOMAIN KeysOf[q] /\ KeysOf[q] \in Seq(Keys) /\ n[s] \in Nat \ {0}
        /\ old \in [Keys -> Nat] /\ read[s] \in [Keys -> Nat] /\ index \in [Keys -> Nat]
        /\ \A k \in Keys : old[k] <= index[k]
    BY <1>2, <2>1 DEF Over
  <2>3. /\ \A k \in Keys : read[s][k] <= index[k]
        /\ \A k \in Keys : read[s][k] # 0 => old[k] <= read[s][k]
        /\ \A i \in DOMAIN KeysOf[q] : i < n[s] => old[KeysOf[q][i]] <= read[s][KeysOf[q][i]]
        /\ sc[s] = "freeword" => read[s][w] # 0
    BY <2>1, <2>2 DEF ReadSince, Words, Word
  <2>4. old[w] <= read[s][w]
    <3>1. old[w] \in Nat /\ read[s][w] \in Nat /\ old[w] <= index[w]
      BY <2>2
    <3> HIDE DEF old, w
    <3>2. CASE NoRow(s)
      BY <2>1, <3>1, <3>2
    <3>3. CASE ~ NoRow(s)
      BY <2>1, <2>2, <2>3, <3>3
    <3> QED BY <3>2, <3>3
  <2>5. \A j \in DOMAIN KeysOf[q] : j < n[s] + 1 => old[KeysOf[q][j]] <= read[s][KeysOf[q][j]]
    <3>1. \A j \in DOMAIN KeysOf[q] : j < n[s] + 1 => j < n[s] \/ j = n[s]
      <4>1. \A words \in Seq(Keys) : \A j \in DOMAIN words : j \in Nat
        OBVIOUS
      <4> HIDE DEF q
      <4>2. KeysOf[q] \in Seq(Keys) /\ n[s] \in Nat
        BY <2>2
      <4> QED BY <4>1, <4>2
    <3>2. \A j \in DOMAIN KeysOf[q] : j = n[s] => KeysOf[q][j] = w
      OBVIOUS
    <3>3. \A j \in DOMAIN KeysOf[q] : j < n[s] => old[KeysOf[q][j]] <= read[s][KeysOf[q][j]]
      BY <2>3
    <3> HIDE DEF q, w, old
    <3> QED BY <2>4, <3>1, <3>2, <3>3
  <2>6. PICK to \in {"conn", "redis"}, m \in Nat \ {0} :
               /\ sc' = [sc EXCEPT ![s] = to] /\ n' = [n EXCEPT ![s] = m]
               /\ to = "conn" => m \in DOMAIN KeysOf[q]
               /\ \A j \in DOMAIN KeysOf[q] :
                      j < m \/ to = "redis" => old[KeysOf[q][j]] <= read[s][KeysOf[q][j]]
    <3> HIDE DEF q, old
    <3>1. n[s] + 1 \in Nat \ {0} /\ n \in [Searchers -> Nat \ {0}]
      BY <2>2 DEF QueryTypes
    <3> QED BY <2>1, <2>2, <2>3, <2>5, <3>1, OnFromReads
  <2>7. sc'[s] = to /\ n'[s] = m
    BY <2>6 DEF QueryTypes
  <2>8. QueryTypes'
    BY <2>1, <2>6 DEF QueryTypes, Places
  <2>9. ReadSince(s)'
    BY <2>1, <2>3, <2>6, <2>7 DEF ReadSince, Words
  <2>10. \A t \in Searchers \ {s} : sc'[t] = sc[t] /\ n'[t] = n[t]
    BY <2>6 DEF QueryTypes
  <2> QED BY <2>1, <2>2, <2>7, <2>8, <2>9, <2>10, SearcherMoves DEF OnlyAsked
<1>5. ASSUME NEW to \in Places \ (Over \cup {"freeword"}), sc[s] \notin Over \cup {"freeword"},
             sc' = [sc EXCEPT ![s] = to],
             to \in {"conn", "select"} <=> sc[s] \in {"conn", "select"},
             UNCHANGED <<index, inbox, query, n, read>>, DOMAIN store' = Queries
      PROVE  ServiceInv'
  <2>1. QueryTypes'
    BY <1>5 DEF QueryTypes
  <2>2. sc'[s] = to /\ query[s] \in Asked /\ ReadSince(s)
    BY <1>5 DEF QueryTypes, OnlyAsked, Over
  <2>3. ReadSince(s)'
    BY <1>5, <2>2 DEF ReadSince, Words
  <2>4. inbox' \in Seq(Asked)
    BY <1>5 DEF OnlyAsked
  <2> QED BY <1>5, <2>1, <2>2, <2>3, <2>4, SearcherMoves DEF QueryTypes, Over
<1>6. ASSUME NEW to \in Over \ {"idle"}, sc[s] # "idle", sc' = [sc EXCEPT ![s] = to],
             UNCHANGED <<index, inbox, store, query, n, read>>
      PROVE  ServiceInv'
  <2>1. QueryTypes'
    BY <1>6 DEF QueryTypes, Over, Places
  <2> QED BY <1>6, <2>1, SearcherMoves DEF QueryTypes, OnlyAsked
<1>7. ASSUME NEW pool \in Pools, Poll(s, pool) \/ TakeConn(s, pool) \/ ScanForEver(s, pool)
      PROVE  ServiceInv'
  <2>1. sc[s] \in {"conn", "mysql", "redis", "again"}
    BY <1>7, PoolFacts DEF Poll, TakeConn, ScanForEver, InGetConn, Getting
  <2>2. UNCHANGED <<index, inbox, store, query, n, read>>
    BY <1>7 DEF Poll, TakeConn, ScanForEver
  <2>3. \/ sc' = [sc EXCEPT ![s] = sc[s]]
        \/ sc' = [sc EXCEPT ![s] = Got[sc[s]]]
    BY <1>7 DEF Poll, TakeConn, ScanForEver, Goto, QueryTypes
  <2> QED BY <1>5, <2>1, <2>2, <2>3 DEF Got, Places, Over, QueryTypes
<1>8. CASE SetAnswer(s) \/ SetFails(s)
  <2>1. /\ sc[s] \in {"pages", "set"} /\ DOMAIN store' = Queries
        /\ UNCHANGED <<index, inbox, query, n, read>>
        /\ sc' = [sc EXCEPT ![s] = "free"] \/ sc' = [sc EXCEPT ![s] = "failed"]
    BY <1>8 DEF SetAnswer, SetFails, At, Goto, Stored, QueryTypes
  <2> QED BY <1>5, <2>1 DEF Places, Over
<1>9. CASE ReplaceRedis(s) \/ FreeMysql(s)
  <2>1. /\ sc[s] \in {"failed", "free"}
        /\ UNCHANGED <<index, inbox, store, query, n, read>>
        /\ sc' = [sc EXCEPT ![s] = "again"] \/ sc' = [sc EXCEPT ![s] = "freeredis"]
    BY <1>9 DEF ReplaceRedis, FreeMysql, At, Goto
  <2> QED BY <1>5, <2>1 DEF Places, Over, QueryTypes
<1>10. CASE FreeRedis(s)
  <2>1. /\ sc' = [sc EXCEPT ![s] = "idle"] /\ UNCHANGED <<index, inbox, store>>
        /\ query' = [query EXCEPT ![s] = None]
        /\ n' = [n EXCEPT ![s] = 1]
        /\ read' = [read EXCEPT ![s] = Unread]
    BY <1>10 DEF FreeRedis, Goto
  <2>2. QueryTypes'
    BY <2>1 DEF QueryTypes, Places, Unread
  <2> QED BY <2>1, <2>2, SearcherMoves DEF QueryTypes, OnlyAsked, Over
<1>11. CASE SelectRefused(s)
  <2>1. PICK to \in {"throwword", "throw"} : sc' = [sc EXCEPT ![s] = to]
    BY <1>11 DEF SelectRefused, Goto
  <2> QED BY <1>6, <1>11, <2>1 DEF SelectRefused, At, Over
<1>12. CASE Throw(s)
  <2>1. PICK to \in {"throwredis", "ended"} : sc' = [sc EXCEPT ![s] = to]
    BY <1>12 DEF Throw, Goto
  <2> QED BY <1>6, <1>12, <2>1 DEF Throw, At, Over
<1>13. CASE AuthRefused(s)
  BY <1>13, SearcherMoves DEF AuthRefused, QueryTypes, OnlyAsked, ReadSince, Words, Word
<1> QED
  BY <1>1, <1>3, <1>4, <1>7, <1>8, <1>9, <1>10, <1>11, <1>12, <1>13
  DEF Work, SearcherTrips

\* A step of the web API, of Kafka or of the index: no searcher moves.
LEMMA SearchersStay ==
    ASSUME ServiceInv, QueryTypes', OnlyAsked',
           UNCHANGED <<sc, query, n, read>>,
           \A q \in Asked : since'[q] = since[q],
           \A k \in Keys : index[k] <= index'[k] /\ index'[k] \in Nat
    PROVE  ServiceInv'
BY ReadStays DEF ServiceInv, OnlyAsked, Over

LEMMA RequestStep ==
    ASSUME ServiceInv, NEW r \in Requests,
           Request(r) \/ \E q \in Queries : Post(r, q)
    PROVE  ServiceInv'
<1> USE DEF ServiceInv
<1>1. ASSUME NEW q \in Queries, Post(r, q) PROVE ServiceInv'
  <2>1. /\ UNCHANGED searcherVars /\ UNCHANGED kafkaVars /\ UNCHANGED <<left, reply>>
        /\ want' = [want EXCEPT ![r] = q] /\ at' = [at EXCEPT ![r] = "get"] /\ at[r] = "new"
        /\ since' = [since EXCEPT ![q] = IF since[q] = None THEN index ELSE since[q]]
    BY <1>1 DEF Post
  <2>2. None \notin [Keys -> Nat]
    BY SearchersAssumption
  <2>3. QueryTypes'
    BY <2>1 DEF QueryTypes, searcherVars
  <2>4. /\ Asked \subseteq Asked' /\ q \in Asked'
        /\ \A p \in Asked : since'[p] = since[p]
        /\ \A p \in Asked' : p \in Asked \/ since'[p] = index
    BY <2>1, <2>2 DEF QueryTypes, Asked
  <2>5. Seq(Asked) \subseteq Seq(Asked')
    BY <2>4, SeqGrows
  <2>6. /\ inbox' \in Seq(Asked')
        /\ queue' \in [Topics -> Seq(Asked')]
        /\ flight' \in [Topics -> Seq(Asked')]
        /\ topic' \in [Topics -> Seq(Asked')]
    BY <2>1, <2>5 DEF OnlyAsked, searcherVars, kafkaVars
  <2>7. \A s \in Searchers : sc'[s] # "idle" => query'[s] \in Asked'
    BY <2>1, <2>4 DEF OnlyAsked, searcherVars
  <2>8. \A p \in Requests :
           /\ at'[p] = "new" => want'[p] = None
           /\ at'[p] # "new" => want'[p] \in Asked'
           /\ at'[p] # "done" => reply'[p] = None
    BY <2>1, <2>4 DEF OnlyAsked, QueryTypes
  <2>9. \A p \in Asked' : \A k \in Keys : since'[p][k] <= index'[k]
    <3>1. \A k \in Keys : index'[k] = index[k] /\ index[k] \in Nat
      BY <2>1 DEF searcherVars, QueryTypes
    <3>2. \A p \in Asked : \A k \in Keys : since[p][k] <= index[k]
      BY DEF OnlyAsked
    <3>3. UNCHANGED index
      BY <2>1 DEF searcherVars
    <3> QED BY <2>4, <3>1, <3>2, <3>3
  <2>10. OnlyAsked'
    BY <2>6, <2>7, <2>8, <2>9 DEF OnlyAsked
  <2> QED BY <2>1, <2>3, <2>4, <2>10, SearchersStay DEF searcherVars, QueryTypes
<1>2. ASSUME UNCHANGED <<searcherVars, want, since, flight, topic>>,
             at[r] # "new", at' \in [Requests -> {"new", "get", "poll", "done"}],
             at'[r] # "new", at'[r] # "done" => reply'[r] = None, DOMAIN reply' = Requests,
             \A p \in Requests \ {r} : at'[p] = at[p] /\ reply'[p] = reply[p],
             queue' \in [Topics -> Seq(Asked)]
      PROVE  ServiceInv'
  <2>1. QueryTypes'
    BY <1>2 DEF QueryTypes, searcherVars
  <2>2. Asked' = Asked
    BY <1>2 DEF Asked
  <2>3. \A p \in Requests :
           /\ at'[p] = "new" => want'[p] = None
           /\ at'[p] # "new" => want'[p] \in Asked
           /\ at'[p] # "done" => reply'[p] = None
    BY <1>2 DEF OnlyAsked
  <2>4. OnlyAsked'
    BY <1>2, <2>2, <2>3 DEF OnlyAsked, searcherVars
  <2> QED BY <1>2, <2>1, <2>4, SearchersStay DEF searcherVars, QueryTypes
<1>3. CASE Hit(r)
  BY <1>2, <1>3 DEF Hit, QueryTypes, OnlyAsked, kafkaVars
<1>4. CASE PutRequest(r)
  <2>1. Append(queue["API2WordSplit"], want[r]) \in Seq(Asked)
    BY <1>4, QueryAssumption DEF PutRequest, OnlyAsked
  <2>2. queue' \in [Topics -> Seq(Asked)]
    BY <1>4, <2>1, QueryAssumption DEF PutRequest, Put, OnlyAsked
  <2> QED BY <1>2, <1>4, <2>2 DEF PutRequest, QueryTypes, OnlyAsked
<1>5. CASE MissAgain(r)
  <2>1. CASE left[r] = 1
    BY <1>2, <1>5, <2>1 DEF MissAgain, QueryTypes, OnlyAsked, kafkaVars
  <2>2. CASE left[r] # 1
    BY <1>2, <1>5, <2>2 DEF MissAgain, QueryTypes, OnlyAsked, kafkaVars
  <2> QED BY <2>1, <2>2
<1> QED BY <1>1, <1>3, <1>4, <1>5 DEF Request

LEMMA MessageStep ==
    ASSUME ServiceInv, UNCHANGED apiVars,
           \/ HttpHandler \/ ReceiveFromWordSplit
           \/ (\E t \in Topics : Send(t) \/ Arrive(t) \/ Trip(t)) /\ UNCHANGED searcherVars
    PROVE  ServiceInv'
<1> USE DEF ServiceInv
<1>1. ASSUME UNCHANGED <<index, store, sc, query, n, read>>,
             inbox' \in Seq(Asked), queue' \in [Topics -> Seq(Asked)],
             flight' \in [Topics -> Seq(Asked)], topic' \in [Topics -> Seq(Asked)]
      PROVE  ServiceInv'
  <2>1. QueryTypes'
    BY <1>1 DEF QueryTypes, apiVars
  <2>2. Asked' = Asked
    BY DEF Asked, apiVars
  <2>3. OnlyAsked'
    BY <1>1, <2>2 DEF OnlyAsked, apiVars
  <2> QED BY <1>1, <2>1, <2>3, SearchersStay DEF QueryTypes, apiVars
<1>2. ASSUME NEW S, NEW q \in Seq(S), q # <<>>
      PROVE  Head(q) \in S /\ Tail(q) \in Seq(S)
  BY <1>2
<1>3. ASSUME NEW S, NEW q \in Seq(S), NEW x \in S PROVE Append(q, x) \in Seq(S)
  BY <1>3
<1>4. /\ inbox \in Seq(Asked) /\ queue \in [Topics -> Seq(Asked)]
      /\ flight \in [Topics -> Seq(Asked)] /\ topic \in [Topics -> Seq(Asked)]
  BY DEF OnlyAsked
<1>5. CASE HttpHandler
  BY <1>1, <1>2, <1>3, <1>4, <1>5, QueryAssumption
  DEF HttpHandler, Consume, Put, searcherVars
<1>6. CASE ReceiveFromWordSplit
  BY <1>1, <1>2, <1>3, <1>4, <1>6, QueryAssumption DEF ReceiveFromWordSplit, Consume
<1>7. ASSUME NEW t \in Topics, Send(t), UNCHANGED searcherVars PROVE ServiceInv'
  <2>1. Head(queue[t]) \in Asked /\ Tail(queue[t]) \in Seq(Asked)
    BY <1>2, <1>4, <1>7 DEF Send
  <2>2. Append(flight[t], Head(queue[t])) \in Seq(Asked)
    BY <1>3, <1>4, <2>1
  <2>3. /\ queue' \in [Topics -> Seq(Asked)] /\ flight' \in [Topics -> Seq(Asked)]
        /\ UNCHANGED topic
    BY <1>4, <1>7, <2>1, <2>2 DEF Send
  <2> QED BY <1>1, <1>4, <1>7, <2>3 DEF searcherVars
<1>8. ASSUME NEW t \in Topics, Arrive(t), UNCHANGED searcherVars PROVE ServiceInv'
  BY <1>1, <1>2, <1>3, <1>4, <1>8 DEF Arrive, Answered, searcherVars
<1>9. ASSUME NEW t \in Topics, Trip(t), UNCHANGED searcherVars PROVE ServiceInv'
  <2>1. CASE SendRaises(t)
    <3>1. Tail(queue[t]) \in Seq(Asked)
      BY <1>2, <1>4, <2>1 DEF SendRaises
    <3>2. queue' \in [Topics -> Seq(Asked)] /\ UNCHANGED <<flight, topic>>
      BY <1>4, <2>1, <3>1 DEF SendRaises
    <3> QED BY <1>1, <1>4, <1>9, <3>2 DEF searcherVars
  <2>2. CASE SendFails(t)
    <3>1. Tail(flight[t]) \in Seq(Asked)
      BY <1>2, <1>4, <2>2 DEF SendFails, Answered
    <3>2. flight' \in [Topics -> Seq(Asked)] /\ UNCHANGED <<queue, topic>>
      BY <1>4, <2>2, <3>1 DEF SendFails, Answered
    <3> QED BY <1>1, <1>4, <1>9, <3>2 DEF searcherVars
  <2>3. CASE SendTimeout(t)
    BY <1>1, <1>4, <1>9, <2>3 DEF SendTimeout, searcherVars
  <2> QED BY <1>9, <2>1, <2>2, <2>3 DEF Trip
<1> QED BY <1>5, <1>6, <1>7, <1>8, <1>9

LEMMA StepService == ServiceInv /\ [Next]_vars => ServiceInv'
<1> SUFFICES ASSUME ServiceInv, [Next]_vars PROVE ServiceInv'
  OBVIOUS
<1>1. ASSUME NEW k \in Keys, Grow(k), UNCHANGED kafkaVars, UNCHANGED apiVars PROVE ServiceInv'
  <2>1. index' = [index EXCEPT ![k] = @ + 1] /\ index \in [Keys -> Nat]
        /\ UNCHANGED <<inbox, store, sc, query, n, read>>
    BY <1>1 DEF Grow, ServiceInv, QueryTypes
  <2>2. \A j \in Keys : index[j] <= index'[j] /\ index'[j] \in Nat /\ index[j] \in Nat
    BY <2>1
  <2>3. QueryTypes'
    BY <1>1, <2>1 DEF ServiceInv, QueryTypes, apiVars
  <2>4. Asked' = Asked /\ \A q \in Asked : since[q] \in [Keys -> Nat]
    BY <1>1 DEF Asked, apiVars, ServiceInv, QueryTypes
  <2>5. \A q \in Asked : \A j \in Keys : since[q][j] <= index'[j]
    BY <2>2, <2>4 DEF ServiceInv, OnlyAsked
  <2>6. OnlyAsked'
    <3>1. UNCHANGED <<queue, flight, topic, at, want, reply, since>>
      BY <1>1 DEF apiVars, kafkaVars
    <3>2. OnlyAsked
      BY DEF ServiceInv
    <3> HIDE DEF ServiceInv
    <3>3. QED
      BY <2>1, <2>4, <2>5, <3>1, <3>2 DEF OnlyAsked
  <2> QED BY <1>1, <2>1, <2>2, <2>3, <2>6, SearchersStay DEF apiVars
<1>2. CASE UNCHANGED vars
  BY <1>2, SearchersStay
  DEF vars, searcherVars, kafkaVars, apiVars, ServiceInv, QueryTypes, OnlyAsked, Asked
<1>3. CASE Progress
  BY <1>3, RequestStep, MessageStep, SearcherStep
  DEF Progress, HttpHandler, ReceiveFromWordSplit
<1>4. CASE Environment
  BY <1>1, <1>4, RequestStep, MessageStep, SearcherStep DEF Environment
<1> QED BY <1>2, <1>3, <1>4 DEF Next

\* Each step of the system is one of the service or none.
LEMMA StepImplements ==
    ServiceInv /\ [Next]_vars => [Service!Next]_(Service!serviceVars)
<1> SUFFICES ASSUME ServiceInv, [Next]_vars PROVE [Service!Next]_(Service!serviceVars)
  OBVIOUS
<1> USE DEF ServiceInv, Service!serviceVars
<1>1. ASSUME NEW s \in Searchers, UNCHANGED <<index, apiVars>>,
             sc[s] \in {"pages", "set"}, Stored(s)
      PROVE  Service!Answer(query[s])
  <2> DEFINE q == query[s]
             a == [k \in KeySet(q) |-> read[s][k]]
  <2>1. /\ q \in Queries /\ since[q] # None /\ ReadSince(s) /\ KeysOf[q] \in Seq(Keys)
    BY <1>1, SearchersAssumption DEF OnlyAsked, Asked, Over
  <2>2. \A k \in KeySet(q) : /\ k \in Keys
                             /\ since[q][k] <= read[s][k] /\ read[s][k] <= index[k]
    BY <1>1, <2>1 DEF ReadSince, Words, KeySet
  <2>3. a \in [KeySet(q) -> Nat] /\ KeySet(q) \in SUBSET Keys
    BY <2>2 DEF QueryTypes
  <2>4. a # None
    BY <2>3, SearchersAssumption
  <2>5. store'[q] = a /\ \A p \in Queries \ {q} : store'[p] = store[p]
    BY <1>1, <2>1 DEF Stored, QueryTypes
  <2>6. Service!Current(q, a)
    BY <2>1, <2>2 DEF Service!Current
  <2> QED BY <1>1, <2>1, <2>4, <2>5, <2>6 DEF Service!Answer, Service!Current, apiVars
<1>2. ASSUME NEW s \in Searchers, SetAnswer(s) \/ SetFails(s), UNCHANGED apiVars
      PROVE  [Service!Next]_(Service!serviceVars)
  <2>1. sc[s] \in {"pages", "set"} /\ UNCHANGED index /\ (Stored(s) \/ UNCHANGED store)
    BY <1>2 DEF SetAnswer, SetFails, At
  <2>2. query[s] \in Queries
    BY <2>1 DEF OnlyAsked, Asked
  <2> QED BY <1>1, <1>2, <2>1, <2>2 DEF Service!Next, apiVars
<1>3. ASSUME NEW r \in Requests, Request(r) PROVE [Service!Next]_(Service!serviceVars)
  <2>1. /\ UNCHANGED <<index, since, store, want>>
        /\ at[r] # "new" /\ at[r] # "done" /\ want[r] # None /\ reply[r] = None
    BY <1>3, SearchersAssumption
    DEF Request, Hit, PutRequest, MissAgain, searcherVars, OnlyAsked, Asked
  <2>2. CASE Hit(r)
    BY <2>1, <2>2 DEF Hit, Service!Reply, Service!Next, QueryTypes
  <2>3. CASE PutRequest(r)
    BY <2>1, <2>3 DEF PutRequest
  <2>4. CASE MissAgain(r)
    BY <2>1, <2>4 DEF MissAgain, Service!GiveUp, Service!Next
  <2> QED BY <1>3, <2>2, <2>3, <2>4 DEF Request
<1>4. ASSUME NEW r \in Requests, NEW q \in Queries, Post(r, q)
      PROVE  Service!Ask(r, q)
  BY <1>4 DEF Post, Service!Ask, OnlyAsked, searcherVars
<1>5. ASSUME NEW k \in Keys, Grow(k), UNCHANGED apiVars PROVE Service!Grow(k)
  BY <1>5 DEF Grow, Service!Grow, apiVars
<1>6. ASSUME NEW s \in Searchers, Work(s) \/ SearcherTrips(s), UNCHANGED apiVars
      PROVE  [Service!Next]_(Service!serviceVars)
  BY <1>2, <1>6
  DEF Work, SearcherTrips, GetFront, Poll, TakeConn, ScanForEver, ReadList, FreeWord, NoRow,
      Throw, ReplaceRedis, AuthRefused, FreeMysql, FreeRedis, SelectRefused, apiVars
<1>7. CASE UNCHANGED vars
  BY <1>7 DEF vars, searcherVars, apiVars
<1>8. CASE Progress
  BY <1>3, <1>6, <1>8
  DEF Progress, HttpHandler, ReceiveFromWordSplit, searcherVars, apiVars
<1>9. CASE Environment
  BY <1>4, <1>5, <1>6, <1>9 DEF Environment, Service!Next, searcherVars, apiVars
<1> QED BY <1>7, <1>8, <1>9 DEF Next

\* For any number of users, queries, searchers, connections and faults: a user gets
\* an answer that was made from lists the index had since the query was first
\* asked, or is told that there is none.
THEOREM QueryImplementsService == Spec => ServiceSpec
<1>1. Init => Service!Init
  BY DEF Init, SearchersInit, Service!Init
<1> QED BY <1>1, InitService, StepService, StepImplements, PTL DEF Spec, ServiceSpec, Service!Spec

-----------------------------------------------------------------------------
(***************************************************************************)
(* The crawl.                                                              *)
(***************************************************************************)
LEMMA BothTopics ==
    /\ "Crawler2WordSplit" \in Topics /\ "Crawler2Evaluator" \in Topics
    /\ NoPage \notin Urls
BY CrawlAssumption

LEMMA LinksAreUrls == \A p \in Urls : Links[p] \in Seq(Urls)
BY CrawlAssumption

\* The members of a sequence that is taken from, or added to.
LEMMA TakenFrom ==
    ASSUME NEW s \in Seq(Urls), s # <<>>
    PROVE  /\ Head(s) \in Urls /\ Tail(s) \in Seq(Urls)
           /\ Range(s) = {Head(s)} \cup Range(Tail(s))
<1>1. Head(s) \in Urls /\ Tail(s) \in Seq(Urls)
  OBVIOUS
<1>2. Range(s) \subseteq {Head(s)} \cup Range(Tail(s))
  <2>1. SUFFICES ASSUME NEW m \in 1 .. Len(s)
                 PROVE  s[m] \in {Head(s)} \cup Range(Tail(s))
    BY DEF Range
  <2>2. CASE m = 1
    BY <2>2
  <2>3. CASE m # 1
    <3>1. m - 1 \in DOMAIN Tail(s) /\ Tail(s)[m - 1] = s[m]
      BY <2>3
    <3> QED BY <3>1 DEF Range
  <2> QED BY <2>2, <2>3
<1>3. Head(s) \in Range(s)
  <2>1. 1 \in DOMAIN s /\ s[1] = Head(s)
    OBVIOUS
  <2> QED BY <2>1 DEF Range
<1>4. Range(Tail(s)) \subseteq Range(s)
  <2>1. SUFFICES ASSUME NEW m \in DOMAIN Tail(s) PROVE Tail(s)[m] \in Range(s)
    BY DEF Range
  <2>2. m + 1 \in DOMAIN s /\ s[m + 1] = Tail(s)[m]
    OBVIOUS
  <2> QED BY <2>2 DEF Range
<1> QED BY <1>1, <1>2, <1>3, <1>4

LEMMA PutInto ==
    ASSUME NEW s \in Seq(Urls), NEW u \in Urls
    PROVE  Append(s, u) \in Seq(Urls) /\ Range(Append(s, u)) = Range(s) \cup {u}
<1>1. Append(s, u) \in Seq(Urls) /\ DOMAIN Append(s, u) = 1 .. Len(s) + 1
  OBVIOUS
<1>2. 1 .. Len(s) + 1 = 1 .. Len(s) \cup {Len(s) + 1} /\ DOMAIN s = 1 .. Len(s)
  OBVIOUS
<1>3. Append(s, u)[Len(s) + 1] = u /\ \A m \in 1 .. Len(s) : Append(s, u)[m] = s[m]
  OBVIOUS
<1> QED BY <1>1, <1>2, <1>3 DEF Range

LEMMA AllPutInto ==
    ASSUME NEW s \in Seq(Urls), NEW r \in Seq(Urls)
    PROVE  s \o r \in Seq(Urls) /\ Range(s \o r) = Range(s) \cup Range(r)
<1>1. s \o r \in Seq(Urls) /\ DOMAIN (s \o r) = 1 .. Len(s) + Len(r)
  OBVIOUS
<1>2. \A m \in 1 .. Len(s) : m \in DOMAIN (s \o r) /\ (s \o r)[m] = s[m]
  OBVIOUS
<1>3. \A m \in 1 .. Len(r) : Len(s) + m \in DOMAIN (s \o r) /\ (s \o r)[Len(s) + m] = r[m]
  OBVIOUS
<1>4. \A m \in DOMAIN (s \o r) :
          m \in 1 .. Len(s) \/ (m - Len(s) \in 1 .. Len(r) /\ (s \o r)[m] = r[m - Len(s)])
  OBVIOUS
<1>5. Range(s) \subseteq Range(s \o r) /\ Range(r) \subseteq Range(s \o r)
  <2>1. ASSUME NEW m \in DOMAIN s PROVE s[m] \in Range(s \o r)
    BY <1>2 DEF Range
  <2>2. ASSUME NEW m \in DOMAIN r PROVE r[m] \in Range(s \o r)
    <3>1. Len(s) + m \in DOMAIN (s \o r) /\ (s \o r)[Len(s) + m] = r[m]
      BY <1>3
    <3> QED BY <3>1 DEF Range
  <2> QED BY <2>1, <2>2 DEF Range
<1>6. Range(s \o r) \subseteq Range(s) \cup Range(r)
  BY <1>1, <1>2, <1>4 DEF Range
<1> QED BY <1>1, <1>5, <1>6

LEMMA InitCrawl == CrawlInit => CrawlInv
<1> SUFFICES ASSUME CrawlInit PROVE CrawlInv
  OBVIOUS
<1>1. CrawlTypes
  BY CrawlAssumption DEF CrawlInit, KafkaInit, CrawlTypes
<1>2. FetchInv
  BY DEF CrawlInit, FetchInv, ToFetch, Due
<1>3. AstrayInv
  BY DEF CrawlInit, AstrayInv
<1> QED BY <1>1, <1>2, <1>3 DEF CrawlInv

\* A step that leaves the spider and its fetches alone.
LEMMA NotFetched ==
    ASSUME FetchInv, UNCHANGED <<spider, page, crawledSet, first, fetched>>
    PROVE  FetchInv'
BY DEF FetchInv, ToFetch, Due

LEMMA StepFetch == CrawlInv /\ [CrawlNext]_loopVars => FetchInv'
<1> SUFFICES ASSUME CrawlInv, [CrawlNext]_loopVars PROVE FetchInv'
  OBVIOUS
<1>1. CASE StartRequests
  <2>1. /\ spider = "start" /\ spider' = "fetch" /\ page' = Head(que) /\ first' = Head(que)
        /\ first = NoPage /\ UNCHANGED <<crawledSet, fetched>>
    BY <1>1 DEF StartRequests, CrawlInv, CrawlTypes
  <2> SUFFICES ASSUME NEW u \in Urls PROVE (fetched[u] + ToFetch(u) <= Due(u))'
    BY DEF FetchInv
  <2>2. fetched[u] \in Nat /\ fetched[u] + ToFetch(u) <= Due(u)
    BY DEF CrawlInv, CrawlTypes, FetchInv
  <2>3. ToFetch(u) = 0 /\ Due(u) = IF u \in crawledSet THEN 1 ELSE 0
    BY <2>1, BothTopics DEF ToFetch, Due
  <2> QED BY <2>1, <2>2, <2>3 DEF ToFetch, Due
<1>2. CASE FetchAndParse
  <2>1. /\ spider = "fetch" /\ spider' = "wait" /\ page \in Urls
        /\ fetched' = [fetched EXCEPT ![page] = @ + 1]
        /\ UNCHANGED <<page, crawledSet, first>>
    BY <1>2 DEF FetchAndParse, CrawlInv, CrawlTypes
  <2> SUFFICES ASSUME NEW u \in Urls PROVE (fetched[u] + ToFetch(u) <= Due(u))'
    BY DEF FetchInv
  <2>2. fetched[u] \in Nat /\ fetched[u] + ToFetch(u) <= Due(u)
    BY DEF CrawlInv, CrawlTypes, FetchInv
  <2>3. fetched'[u] = fetched[u] + ToFetch(u) /\ ToFetch(u)' = 0 /\ Due(u)' = Due(u)
    BY <2>1, <2>2 DEF ToFetch, Due, CrawlInv, CrawlTypes
  <2>4. ToFetch(u) \in Nat
    BY DEF ToFetch
  <2> QED BY <2>2, <2>3, <2>4
<1>3. CASE NextUrl
  <2>1. CASE Head(que) \in crawledSet
    BY <1>3, <2>1, NotFetched DEF NextUrl, CrawlInv
  <2>2. CASE Head(que) \notin crawledSet
    <3>1. /\ spider = "wait" /\ spider' = "fetch" /\ page' = Head(que)
          /\ crawledSet' = crawledSet \cup {Head(que)} /\ UNCHANGED <<first, fetched>>
      BY <1>3, <2>2 DEF NextUrl
    <3> SUFFICES ASSUME NEW u \in Urls PROVE (fetched[u] + ToFetch(u) <= Due(u))'
      BY DEF FetchInv
    <3>2. fetched[u] \in Nat /\ fetched[u] + ToFetch(u) <= Due(u)
      BY DEF CrawlInv, CrawlTypes, FetchInv
    <3>3. ToFetch(u) = 0
      BY <3>1 DEF ToFetch
    <3> QED BY <2>2, <3>1, <3>2, <3>3 DEF ToFetch, Due
  <2> QED BY <2>1, <2>2
<1>4. CASE SpiderEnds
  <2>1. spider' = "ended" /\ UNCHANGED <<page, crawledSet, first, fetched>>
    BY <1>4 DEF SpiderEnds
  <2> SUFFICES ASSUME NEW u \in Urls PROVE (fetched[u] + ToFetch(u) <= Due(u))'
    BY DEF FetchInv
  <2>2. fetched[u] \in Nat /\ fetched[u] + ToFetch(u) <= Due(u)
    BY DEF CrawlInv, CrawlTypes, FetchInv
  <2> QED BY <2>1, <2>2 DEF ToFetch, Due
<1>5. CASE UNCHANGED crawlVars
  BY <1>5, NotFetched DEF crawlVars, CrawlInv
<1>6. CASE SendToSpider \/ SendElsewhere \/ SenderRaises \/ CrawlHandler \/ Evaluate
           \/ EvaluatorGivesUp
  <2>1. UNCHANGED <<spider, page, crawledSet, first, fetched>>
    BY <1>6 DEF SendToSpider, SendElsewhere, SenderRaises, CrawlHandler, crawlVars,
                Evaluate, EvaluatorGivesUp
  <2> QED BY <2>1, NotFetched DEF CrawlInv
<1>7. CASE UNCHANGED loopVars
  BY <1>5, <1>7 DEF loopVars
<1> QED BY <1>1, <1>2, <1>3, <1>4, <1>5, <1>6, <1>7 DEF CrawlNext, CrawlProgress

\* What the Producers do to the messages on their way.
LEMMA KafkaTypes ==
    ASSUME CrawlTypes, NEW t \in Topics, Send(t) \/ Arrive(t) \/ Trip(t)
    PROVE  /\ {queue', flight', topic'} \subseteq [Topics -> Seq(Urls)]
           /\ dead' \in [Topics -> BOOLEAN]
<1>1. queue[t] # <<>> => Head(queue[t]) \in Urls /\ Tail(queue[t]) \in Seq(Urls)
  BY TakenFrom DEF CrawlTypes
<1>2. flight[t] # <<>> => Head(flight[t]) \in Urls /\ Tail(flight[t]) \in Seq(Urls)
  BY TakenFrom DEF CrawlTypes
<1>3. /\ queue \in [Topics -> Seq(Urls)] /\ flight \in [Topics -> Seq(Urls)]
      /\ topic \in [Topics -> Seq(Urls)] /\ dead \in [Topics -> BOOLEAN]
  BY DEF CrawlTypes
<1>4. CASE Send(t)
  <2>1. Append(flight[t], Head(queue[t])) \in Seq(Urls)
    BY <1>1, <1>3, <1>4, PutInto DEF Send
  <2> QED BY <1>1, <1>3, <1>4, <2>1 DEF Send
<1>5. CASE Arrive(t)
  <2>1. Append(topic[t], Head(flight[t])) \in Seq(Urls)
    BY <1>2, <1>3, <1>5, PutInto DEF Arrive, Answered
  <2> QED BY <1>2, <1>3, <1>5, <2>1 DEF Arrive, Answered
<1>6. CASE SendRaises(t)
  BY <1>1, <1>3, <1>6 DEF SendRaises
<1>7. CASE SendFails(t)
  BY <1>2, <1>3, <1>7 DEF SendFails, Answered
<1>8. CASE SendTimeout(t)
  BY <1>3, <1>8 DEF SendTimeout
<1> QED BY <1>4, <1>5, <1>6, <1>7, <1>8 DEF Trip

LEMMA StepTypes == CrawlTypes /\ [CrawlNext]_loopVars => CrawlTypes'
<1> SUFFICES ASSUME CrawlTypes, [CrawlNext]_loopVars PROVE CrawlTypes'
  OBVIOUS
<1>1. /\ queue \in [Topics -> Seq(Urls)] /\ flight \in [Topics -> Seq(Urls)]
      /\ topic \in [Topics -> Seq(Urls)] /\ dead \in [Topics -> BOOLEAN]
      /\ urls \in Seq(Urls) /\ que \in Seq(Urls)
  BY DEF CrawlTypes
<1>2. urls # <<>> => Head(urls) \in Urls /\ Tail(urls) \in Seq(Urls)
  BY <1>1, TakenFrom
<1>3. que # <<>> => Head(que) \in Urls /\ Tail(que) \in Seq(Urls)
  BY <1>1, TakenFrom
<1>4. CASE SendToSpider
  <2>1. Append(que, Head(urls)) \in Seq(Urls)
    BY <1>1, <1>2, <1>4, PutInto DEF SendToSpider
  <2> QED BY <1>2, <1>4, <2>1 DEF SendToSpider, kafkaVars, CrawlTypes
<1>5. CASE SendElsewhere \/ SenderRaises
  BY <1>2, <1>5 DEF SendElsewhere, SenderRaises, kafkaVars, CrawlTypes
<1>6. CASE StartRequests
  BY <1>3, <1>6 DEF StartRequests, kafkaVars, CrawlTypes
<1>7. CASE FetchAndParse
  <2>1. page \in Urls
    BY <1>7 DEF FetchAndParse, CrawlTypes
  <2>2. Append(queue["Crawler2WordSplit"], page) \in Seq(Urls)
    BY <1>1, <2>1, BothTopics, PutInto
  <2>3. queue' \in [Topics -> Seq(Urls)]
    BY <1>1, <1>7, <2>2 DEF FetchAndParse, Put
  <2>4. fetched' \in [Urls -> Nat]
    BY <1>7 DEF FetchAndParse, CrawlTypes
  <2> QED BY <1>7, <2>3, <2>4 DEF FetchAndParse, CrawlTypes
<1>8. CASE NextUrl
  BY <1>3, <1>8 DEF NextUrl, kafkaVars, CrawlTypes
<1>9. CASE SpiderEnds
  BY <1>9 DEF SpiderEnds, CrawlTypes
<1>10. CASE CrawlHandler
  <2> DEFINE s == topic["Crawler2WordSplit"]
             r == queue["Crawler2Evaluator"]
  <2>1. s \in Seq(Urls) /\ s # <<>> /\ r \in Seq(Urls)
    BY <1>1, <1>10, BothTopics DEF CrawlHandler, Consume
  <2>2. Head(s) \in Urls /\ Tail(s) \in Seq(Urls) /\ Append(r, Head(s)) \in Seq(Urls)
    BY <2>1, TakenFrom, PutInto
  <2>3. queue' \in [Topics -> Seq(Urls)] /\ topic' \in [Topics -> Seq(Urls)]
    BY <1>1, <1>10, <2>2 DEF CrawlHandler, Consume, Put
  <2> QED BY <1>10, <2>3 DEF CrawlHandler, crawlVars, CrawlTypes
<1>11. CASE Evaluate \/ EvaluatorGivesUp
  <2> DEFINE s == topic["Crawler2Evaluator"]
             p == Head(s)
  <2>1. s \in Seq(Urls) /\ s # <<>>
    BY <1>1, <1>11, BothTopics DEF Evaluate, EvaluatorGivesUp, Consume
  <2>2. p \in Urls /\ Tail(s) \in Seq(Urls)
    BY <2>1, TakenFrom
  <2>3. topic' \in [Topics -> Seq(Urls)]
    BY <1>1, <1>11, <2>2 DEF Evaluate, EvaluatorGivesUp, Consume
  <2>4. urls' \in Seq(Urls)
    <3>1. Links[p] \in Seq(Urls)
      BY <2>2, LinksAreUrls
    <3>2. \A i \in 0 .. Len(Links[p]) : SubSeq(Links[p], 1, i) \in Seq(Urls)
      BY <3>1
    <3>3. urls' = urls \o Links[p]
          \/ \E i \in 0 .. Len(Links[p]) : urls' = urls \o SubSeq(Links[p], 1, i)
      BY <1>11 DEF Evaluate, EvaluatorGivesUp
    <3> HIDE DEF p
    <3> QED BY <1>1, <3>1, <3>2, <3>3, AllPutInto
  <2>5. passedOn' \subseteq Urls
    BY <1>11, <2>2 DEF Evaluate, EvaluatorGivesUp, CrawlTypes
  <2>6. UNCHANGED <<queue, flight, dead, que, spider, page, first, fetched>>
    BY <1>11 DEF Evaluate, EvaluatorGivesUp
  <2> HIDE DEF s, p
  <2> QED BY <2>3, <2>4, <2>5, <2>6 DEF CrawlTypes
<1>12. ASSUME NEW t \in Topics, Send(t) \/ Arrive(t) \/ Trip(t), UNCHANGED crawlVars
       PROVE  CrawlTypes'
  BY <1>12, KafkaTypes DEF crawlVars, CrawlTypes
<1>13. CASE UNCHANGED loopVars
  BY <1>13 DEF loopVars, kafkaVars, crawlVars, CrawlTypes
<1> QED BY <1>4, <1>5, <1>6, <1>7, <1>8, <1>9, <1>10, <1>11, <1>12, <1>13
        DEF CrawlNext, CrawlProgress

\* What stopped a url on its way stays so.
LEMMA StaysStopped == CrawlTypes /\ [CrawlNext]_loopVars /\ Stopped => Stopped'
<1> SUFFICES ASSUME CrawlTypes, [CrawlNext]_loopVars, Stopped PROVE Stopped'
  OBVIOUS
<1>1. /\ dropped \subseteq dropped'
      /\ \A t \in Topics : dead[t] => dead'[t]
  <2>1. CASE UNCHANGED kafkaVars
    BY <2>1 DEF kafkaVars
  <2>2. CASE UNCHANGED <<dropped, dead>>
    BY <2>2
  <2>3. ASSUME NEW t \in Topics, Send(t) \/ Arrive(t) \/ Trip(t)
        PROVE  dropped \subseteq dropped' /\ \A x \in Topics : dead[x] => dead'[x]
    BY <2>3 DEF Send, Arrive, Trip, SendRaises, SendFails, SendTimeout, Answered, CrawlTypes
  <2> QED BY <2>1, <2>2, <2>3
    DEF CrawlNext, CrawlProgress, SendToSpider, SendElsewhere, SenderRaises, StartRequests,
        FetchAndParse, NextUrl, SpiderEnds, CrawlHandler, Evaluate, EvaluatorGivesUp, loopVars
<1>2. /\ gaveUp => gaveUp'
      /\ ~ consumer => ~ consumer'
      /\ spider = "ended" => spider' = "ended"
  BY DEF CrawlNext, CrawlProgress, SendToSpider, SendElsewhere, SenderRaises, StartRequests,
        FetchAndParse, NextUrl, SpiderEnds, CrawlHandler, Evaluate, EvaluatorGivesUp, loopVars,
        crawlVars
<1> QED BY <1>1, <1>2 DEF Stopped

\* What one step of a Producer does to the pipe, unless it stops something.
LEMMA PipeFlows ==
    ASSUME CrawlTypes, NEW t \in Topics, Send(t) \/ Arrive(t) \/ Trip(t), ~ Stopped',
           NEW p \in Urls, InPipe(p)
    PROVE  InPipe(p)'
<1>1. /\ queue \in [Topics -> Seq(Urls)] /\ flight \in [Topics -> Seq(Urls)]
      /\ topic \in [Topics -> Seq(Urls)]
  BY DEF CrawlTypes
<1>2. PICK x \in Topics : p \in Range(queue[x]) \cup Range(flight[x]) \cup Range(topic[x])
  BY DEF InPipe
<1>3. CASE Send(t)
  <2>1. /\ queue[t] # <<>> /\ queue'[t] = Tail(queue[t]) /\ topic' = topic
        /\ flight'[t] = Append(flight[t], Head(queue[t]))
        /\ \A y \in Topics : y # t => queue'[y] = queue[y] /\ flight'[y] = flight[y]
    BY <1>1, <1>3 DEF Send
  <2>2. /\ Range(queue[t]) = {Head(queue[t])} \cup Range(Tail(queue[t]))
        /\ Head(queue[t]) \in Urls
    BY <1>1, <2>1, TakenFrom
  <2>3. Range(flight'[t]) = Range(flight[t]) \cup {Head(queue[t])}
    BY <1>1, <2>1, <2>2, PutInto
  <2>4. Range(queue[x]) \cup Range(flight[x]) \cup Range(topic[x])
            \subseteq Range(queue'[x]) \cup Range(flight'[x]) \cup Range(topic'[x])
    BY <2>1, <2>2, <2>3
  <2> QED BY <1>2, <2>4 DEF InPipe
<1>4. CASE Arrive(t)
  <2>1. /\ flight[t] # <<>> /\ flight'[t] = Tail(flight[t]) /\ queue' = queue
        /\ topic'[t] = Append(topic[t], Head(flight[t]))
        /\ \A y \in Topics : y # t => topic'[y] = topic[y] /\ flight'[y] = flight[y]
    BY <1>1, <1>4 DEF Arrive, Answered
  <2>2. /\ Range(flight[t]) = {Head(flight[t])} \cup Range(Tail(flight[t]))
        /\ Head(flight[t]) \in Urls
    BY <1>1, <2>1, TakenFrom
  <2>3. Range(topic'[t]) = Range(topic[t]) \cup {Head(flight[t])}
    BY <1>1, <2>1, <2>2, PutInto
  <2>4. Range(queue[x]) \cup Range(flight[x]) \cup Range(topic[x])
            \subseteq Range(queue'[x]) \cup Range(flight'[x]) \cup Range(topic'[x])
    BY <2>1, <2>2, <2>3
  <2> QED BY <1>2, <2>4 DEF InPipe
<1>5. CASE SendRaises(t) \/ SendFails(t)
  <2>1. dropped' # {}
    BY <1>5 DEF SendRaises, SendFails
  <2> QED BY <2>1 DEF Stopped
<1>6. CASE SendTimeout(t)
  BY <1>2, <1>6 DEF SendTimeout, InPipe
<1> QED BY <1>3, <1>4, <1>5, <1>6 DEF Trip

\* A step that leaves on its way what is on its way.
LEMMA NothingTaken ==
    ASSUME CrawlTypes, AstrayInv, Stopped => Stopped', UNCHANGED <<fetched, passedOn>>,
           \A u \in Urls : Kind[u] = "csdn" /\ u \in Known => u \in Known',
           \A p \in Urls : ~ Stopped' /\ InPipe(p) => InPipe(p)'
    PROVE  AstrayInv'
<1> SUFFICES ASSUME ~ Stopped'
             PROVE  /\ \A p \in Urls : fetched[p] > 0 => p \in passedOn \/ InPipe(p)'
                    /\ \A p \in passedOn : \A u \in Range(Links[p]) :
                           Kind[u] = "csdn" => u \in Known'
  BY DEF AstrayInv
<1>1. \A p \in passedOn : Range(Links[p]) \subseteq Urls
  BY LinksAreUrls DEF CrawlTypes, Range
<1> QED BY <1>1 DEF AstrayInv

LEMMA StepAstray == CrawlInv /\ [CrawlNext]_loopVars => AstrayInv'
<1> SUFFICES ASSUME CrawlInv, [CrawlNext]_loopVars PROVE AstrayInv'
  OBVIOUS
<1>1. /\ queue \in [Topics -> Seq(Urls)] /\ flight \in [Topics -> Seq(Urls)]
      /\ topic \in [Topics -> Seq(Urls)]
      /\ urls \in Seq(Urls) /\ que \in Seq(Urls)
      /\ AstrayInv /\ CrawlTypes
  BY DEF CrawlInv, CrawlTypes
<1>2. Stopped => Stopped'
  BY <1>1, StaysStopped
<1>3. urls # <<>> => Head(urls) \in Urls /\ Range(urls) = {Head(urls)} \cup Range(Tail(urls))
  BY <1>1, TakenFrom
<1>4. que # <<>> => Head(que) \in Urls /\ Range(que) = {Head(que)} \cup Range(Tail(que))
  BY <1>1, TakenFrom
<1>5. ASSUME UNCHANGED kafkaVars PROVE \A p \in Urls : InPipe(p) => InPipe(p)'
  BY <1>5 DEF kafkaVars, InPipe
<1>6. CASE SendToSpider
  <2>1. Range(que') = Range(que) \cup {Head(urls)}
    BY <1>1, <1>3, <1>6, PutInto DEF SendToSpider
  <2>2. Known' = Known
    BY <1>3, <1>6, <2>1 DEF SendToSpider, Known
  <2> QED BY <1>1, <1>2, <1>5, <1>6, <2>2, NothingTaken DEF SendToSpider
<1>7. CASE SendElsewhere
  <2>1. Kind[Head(urls)] # "csdn"
    BY <1>7 DEF SendElsewhere
  <2>2. Known \subseteq Known' \cup {Head(urls)}
    BY <1>3, <1>7 DEF SendElsewhere, Known
  <2> QED BY <1>1, <1>2, <1>5, <1>7, <2>1, <2>2, NothingTaken DEF SendElsewhere
<1>8. CASE SenderRaises \/ SpiderEnds \/ EvaluatorGivesUp
  BY <1>8 DEF SenderRaises, SpiderEnds, EvaluatorGivesUp, Stopped, AstrayInv
<1>9. CASE StartRequests
  <2>1. first = NoPage /\ first' = Head(que)
    BY <1>1, <1>9 DEF StartRequests, CrawlTypes
  <2>2. Known \subseteq Known' \cup {NoPage}
    BY <1>4, <1>9, <2>1 DEF StartRequests, Known
  <2> QED BY <1>1, <1>2, <1>5, <1>9, <2>2, BothTopics, NothingTaken DEF StartRequests
<1>10. CASE NextUrl
  <2>1. Known' = Known
    BY <1>4, <1>10 DEF NextUrl, Known
  <2> QED BY <1>1, <1>2, <1>5, <1>10, <2>1, NothingTaken DEF NextUrl
<1>11. CASE FetchAndParse
  <2> DEFINE t == "Crawler2WordSplit"
  <2>1. /\ page \in Urls /\ fetched' = [fetched EXCEPT ![page] = @ + 1]
        /\ UNCHANGED <<flight, topic, passedOn>> /\ Known' = Known
    BY <1>1, <1>11 DEF FetchAndParse, CrawlTypes, Known
  <2>2. /\ t \in Topics /\ queue'[t] = Append(queue[t], page)
        /\ \A x \in Topics : x # t => queue'[x] = queue[x]
    BY <1>1, <1>11, BothTopics DEF FetchAndParse, Put
  <2>3. Range(queue'[t]) = Range(queue[t]) \cup {page}
    BY <1>1, <2>1, <2>2, PutInto
  <2> HIDE DEF t
  <2>4. \A p \in Urls : p = page \/ InPipe(p) => InPipe(p)'
    <3>1. ASSUME NEW p \in Urls, p = page PROVE InPipe(p)'
      BY <2>2, <2>3, <3>1 DEF InPipe
    <3>2. ASSUME NEW p \in Urls, InPipe(p) PROVE InPipe(p)'
      <4>1. PICK x \in Topics : p \in Range(queue[x]) \cup Range(flight[x]) \cup Range(topic[x])
        BY <3>2 DEF InPipe
      <4>2. Range(queue[x]) \subseteq Range(queue'[x])
        BY <2>2, <2>3
      <4> QED BY <2>1, <4>1, <4>2 DEF InPipe
    <3> QED BY <3>1, <3>2
  <2>5. \A p \in Urls : fetched'[p] > 0 => p = page \/ fetched[p] > 0
    BY <1>1, <2>1 DEF CrawlTypes
  <2> QED BY <1>1, <1>2, <2>1, <2>4, <2>5 DEF AstrayInv
<1>12. CASE CrawlHandler
  <2> DEFINE t == "Crawler2WordSplit"
             to == "Crawler2Evaluator"
             p0 == Head(topic[t])
  <2>1. /\ t \in Topics /\ to \in Topics /\ t # to /\ topic[t] # <<>>
        /\ topic'[t] = Tail(topic[t]) /\ queue'[to] = Append(queue[to], p0)
        /\ \A x \in Topics : /\ x # t => topic'[x] = topic[x]
                             /\ x # to => queue'[x] = queue[x]
        /\ UNCHANGED flight
    BY <1>1, <1>12, BothTopics DEF CrawlHandler, Consume, Put
  <2>2. p0 \in Urls /\ Range(topic[t]) = {p0} \cup Range(topic'[t])
    BY <1>1, <2>1, TakenFrom
  <2>3. Range(queue'[to]) = Range(queue[to]) \cup {p0}
    BY <1>1, <2>1, <2>2, PutInto
  <2> HIDE DEF t, to, p0
  <2>4. ASSUME NEW p \in Urls, InPipe(p) PROVE InPipe(p)'
    <3>1. PICK x \in Topics : p \in Range(queue[x]) \cup Range(flight[x]) \cup Range(topic[x])
      BY <2>4 DEF InPipe
    <3>2. p \in Range(queue'[x]) \cup Range(flight'[x]) \cup Range(topic'[x]) \/ p = p0
      BY <2>1, <2>2, <2>3, <3>1
    <3>3. p0 \in Range(queue'[to])
      BY <2>3
    <3> QED BY <2>1, <3>2, <3>3 DEF InPipe
  <2>5. UNCHANGED <<fetched, passedOn>> /\ Known' = Known
    BY <1>12 DEF CrawlHandler, crawlVars, Known
  <2> QED BY <1>1, <1>2, <2>4, <2>5, NothingTaken
<1>13. CASE Evaluate
  <2> DEFINE t == "Crawler2Evaluator"
             p0 == Head(topic[t])
  <2>1. /\ t \in Topics /\ topic[t] # <<>> /\ topic'[t] = Tail(topic[t])
        /\ \A x \in Topics : x # t => topic'[x] = topic[x]
        /\ urls' = urls \o Links[p0] /\ passedOn' = passedOn \cup {p0}
        /\ UNCHANGED <<queue, flight, que, crawledSet, first, fetched>>
    BY <1>1, <1>13, BothTopics DEF Evaluate, Consume
  <2>2. p0 \in Urls /\ Range(topic[t]) = {p0} \cup Range(topic'[t])
    BY <1>1, <2>1, TakenFrom
  <2> HIDE DEF t, p0
  <2>3. Range(urls') = Range(urls) \cup Range(Links[p0])
    <3>1. Links[p0] \in Seq(Urls)
      BY <2>2, LinksAreUrls
    <3> QED BY <1>1, <2>1, <3>1, AllPutInto
  <2>4. ASSUME NEW p \in Urls, InPipe(p), p # p0 PROVE InPipe(p)'
    <3>1. PICK x \in Topics : p \in Range(queue[x]) \cup Range(flight[x]) \cup Range(topic[x])
      BY <2>4 DEF InPipe
    <3>2. p \in Range(queue'[x]) \cup Range(flight'[x]) \cup Range(topic'[x])
      BY <2>1, <2>2, <2>4, <3>1
    <3> QED BY <3>2 DEF InPipe
  <2>5. Known \cup Range(Links[p0]) \subseteq Known'
    BY <2>1, <2>3 DEF Known
  <2> QED BY <1>1, <1>2, <2>1, <2>4, <2>5 DEF AstrayInv
<1>14. ASSUME NEW t \in Topics, Send(t) \/ Arrive(t) \/ Trip(t), UNCHANGED crawlVars
       PROVE  AstrayInv'
  <2>1. Known' = Known /\ UNCHANGED <<fetched, passedOn>>
    BY <1>14 DEF crawlVars, Known
  <2>2. \A p \in Urls : ~ Stopped' /\ InPipe(p) => InPipe(p)'
    BY <1>1, <1>14, PipeFlows
  <2> QED BY <1>1, <1>2, <2>1, <2>2, NothingTaken
<1>15. CASE UNCHANGED loopVars
  <2>1. UNCHANGED <<kafkaVars, crawlVars>>
    BY <1>15 DEF loopVars
  <2>2. Known' = Known /\ UNCHANGED <<fetched, passedOn>>
    BY <2>1 DEF crawlVars, Known
  <2> QED BY <1>1, <1>2, <1>5, <2>1, <2>2, NothingTaken
<1> QED BY <1>6, <1>7, <1>8, <1>9, <1>10, <1>11, <1>12, <1>13, <1>14, <1>15
        DEF CrawlNext, CrawlProgress

LEMMA CrawlIsInvariant == CrawlSpec => []CrawlInv
<1>1. CrawlInv /\ [CrawlNext]_loopVars => CrawlInv'
  BY StepTypes, StepFetch, StepAstray DEF CrawlInv
<1> QED BY <1>1, InitCrawl, PTL DEF CrawlSpec

\* For every web of pages and size of the queues: a page is fetched at most once, the
\* first one at most twice.
THEOREM FetchesAreBounded == CrawlSpec => []FetchedOnce
<1>1. CrawlInv => FetchedOnce
  <2> SUFFICES ASSUME CrawlInv, NEW u \in Urls
               PROVE  fetched[u] <= (IF u = first THEN 2 ELSE 1)
    BY DEF FetchedOnce
  <2>1. fetched[u] \in Nat /\ fetched[u] + ToFetch(u) <= Due(u)
    BY DEF CrawlInv, CrawlTypes, FetchInv
  <2> QED BY <2>1 DEF Due, ToFetch
<1> QED BY <1>1, CrawlIsInvariant, PTL

\* For every web of pages, every size of the queues and any number of late answers:
\* unless something stopped it, a fetched page is in the pipe to the evaluator or passed
\* on, and the csdn links of a page passed on are on their way to the spider, in its
\* queue, crawled, or the first page.
THEOREM NothingGoesAstray == CrawlSpec => []NothingAstray
<1>1. CrawlInv => NothingAstray
  <2> SUFFICES ASSUME CrawlInv, ~ Stopped, NEW p \in Urls, fetched[p] > 0
               PROVE  /\ p \in passedOn \/ InPipe(p)
                      /\ p \in passedOn => \A u \in Range(Links[p]) : Kind[u] = "csdn" =>
                             u \in Range(urls) \cup Range(que) \cup crawledSet \cup {first}
    BY DEF NothingAstray
  <2> QED BY DEF CrawlInv, AstrayInv, Known
<1> QED BY <1>1, CrawlIsInvariant, PTL
=============================================================================
