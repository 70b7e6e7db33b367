---------------------------- MODULE StartUpProofs ----------------------------
(***************************************************************************)
(* Proofs about StartUp, for every number of processes, modules and        *)
(* faults: a partition has one owner, and init-mysql reports no success    *)
(* that it does not have.                                                  *)
(***************************************************************************)
EXTENDS StartUp, TLAPS

LEMMA InitGroup == Init => GroupInv
BY DEF Init, GroupInit, GroupInv, MemberStates

\* A process that ends is out of its groups and reads nothing any more.
LEMMA VanishGroup ==
    ASSUME GroupInv, NEW p \in Processes, Vanish(p) PROVE GroupInv'
BY DEF Vanish, GroupInv, MemberStates, Consumers

LEMMA StepGroup == GroupInv /\ [Next]_vars => GroupInv'
<1> SUFFICES ASSUME GroupInv, [Next]_vars PROVE GroupInv'
  OBVIOUS
<1>1. ASSUME NEW p \in Processes, End(p) PROVE GroupInv'
  BY <1>1, VanishGroup DEF End
<1>2. ASSUME UNCHANGED groupVars PROVE GroupInv'
  BY <1>2 DEF groupVars, GroupInv
<1>3. ASSUME NEW g \in Groups, Join(g) PROVE GroupInv'
  <2>1. member' \in [Consumers -> MemberStates] /\ UNCHANGED assigned
    BY <1>3 DEF Join, GroupInv, MemberStates
  <2>2. ASSUME NEW c \in Consumers, assigned[c]
        PROVE  /\ member'[c] \in {"in", "kicked"}
               /\ member'[c] = "in" => owner'[c[2]] = c[1]
    <3>1. member[c] \in {"in", "kicked"} /\ (member[c] = "in" => owner[c[2]] = c[1])
      BY <2>2 DEF GroupInv
    <3>2. CASE c[2] = g
      <4>1. c[1] \in Processes /\ c = <<c[1], g>>
        BY <3>2 DEF Consumers
      <4>2. c[1] \notin Members(g)
        BY <1>3, <3>1, <4>1 DEF Join
      <4>3. member[c] = "kicked"
        BY <3>1, <4>1, <4>2 DEF Members
      <4> QED BY <1>3, <4>2, <4>3 DEF Join
    <3>3. CASE c[2] # g
      <4>1. member'[c] = member[c]
        BY <1>3, <3>3 DEF Join
      <4>2. owner'[c[2]] = owner[c[2]]
        BY <1>3, <3>3 DEF Join
      <4> QED BY <3>1, <4>1, <4>2
    <3> QED BY <3>2, <3>3
  <2> QED BY <2>1, <2>2 DEF GroupInv
<1>4. ASSUME NEW g \in Groups, SessionTimeout(g) PROVE GroupInv'
  BY <1>4 DEF SessionTimeout, GroupInv
<1>5. ASSUME NEW c \in Consumers, Subscribe(c) PROVE GroupInv'
  BY <1>5 DEF Subscribe, Rejoin, GroupInv, MemberStates
<1>6. ASSUME NEW c \in Consumers, OnRevoked(c) PROVE GroupInv'
  BY <1>6 DEF OnRevoked, Rejoin, GroupInv, MemberStates
<1>7. ASSUME NEW c \in Consumers, OnAssigned(c) PROVE GroupInv'
  BY <1>7 DEF OnAssigned, GroupInv, MemberStates
<1>8. ASSUME NEW c \in Consumers, Kick(c) PROVE GroupInv'
  BY <1>8 DEF Kick, GroupInv, MemberStates
<1>9. ASSUME NEW p \in Processes, NEW g \in Groups,
             ConsumerStep(p, g) \/ NoClient(p, g) \/ SubscribeTimeout(p, g) \/ PollTimeout(p, g)
      PROVE  GroupInv'
  <2>1. <<p, g>> \in Consumers
    BY DEF Consumers
  <2> QED BY <1>1, <1>2, <1>5, <1>6, <1>7, <1>8, <1>9, <2>1
    DEF ConsumerStep, StartConsumer, Rebalance, Subscribed, PollRecord, Handled, NoClient,
        SubscribeTimeout, PollTimeout
<1>10. ASSUME NEW p \in Processes, NEW m \in Modules,
              ModuleStep(p, m) \/ RunScript(p, m) \/ PoolsFail(p, m)
       PROVE  GroupInv'
  BY <1>1, <1>2, <1>10
  DEF ModuleStep, ReadIni, NoConfig, CheckConfig, BadConfig, OpenPools, RunScript, PoolsFail
<1>11. ASSUME NEW p \in Processes,
              \/ TakeConns(p) \/ Execute(p) \/ Initialized(p)
              \/ Race(p) \/ Kill(p) \/ Restart(p) \/ ExecuteFails(p)
       PROVE  GroupInv'
  BY <1>1, <1>2, <1>11
  DEF TakeConns, Execute, Initialized, Race, Kill, Restart, ExecuteFails
<1>12. CASE UNCHANGED vars
  BY <1>2, <1>12 DEF vars
<1>13. CASE Progress
  BY <1>3, <1>4, <1>9, <1>10, <1>11, <1>13 DEF Progress, Modules
<1>14. CASE Trouble
  BY <1>9, <1>10, <1>11, <1>14 DEF Trouble
<1> QED BY <1>12, <1>13, <1>14 DEF Next

\* For any number of processes, rebalances and restarts: two consumers both hold the
\* partition of a topic only while one of them does not know yet that it lost it.
THEOREM PartitionHasOneOwner == Spec => []OneOwner
<1>1. GroupInv => OneOwner
  <2> SUFFICES ASSUME GroupInv, NEW g \in Groups, NEW p \in Processes, NEW q \in Processes,
                      p # q, assigned[<<p, g>>], assigned[<<q, g>>],
                      member[<<p, g>>] # "kicked", member[<<q, g>>] # "kicked"
               PROVE  FALSE
    BY DEF OneOwner
  <2>1. <<p, g>> \in Consumers /\ <<q, g>> \in Consumers
    BY DEF Consumers
  <2>2. owner[g] = p /\ owner[g] = q
    BY <2>1 DEF GroupInv
  <2> QED BY <2>2
<1> QED BY <1>1, InitGroup, StepGroup, PTL DEF Spec

-----------------------------------------------------------------------------
LEMMA StatementsAreCounted == Statements \in Nat
BY StartUpAssumption

LEMMA InitTables == Init => InitInv
<1> SUFFICES ASSUME Init PROVE InitInv
  OBVIOUS
<1>1. at \in [Processes -> [Modules -> Stages]] /\ \A p \in Processes : at[p]["init"] # "done"
  BY DEF Init, Modules, Stages
<1>2. statement \in [Processes -> 0 .. Statements] /\ tables = {}
  BY StatementsAreCounted DEF Init
<1>3. \A p \in Processes : 1 .. statement[p] = {}
  <2>1. 1 .. 0 = {}
    OBVIOUS
  <2>2. \A p \in Processes : statement[p] = 0
    BY DEF Init
  <2> QED BY <2>1, <2>2
<1> QED BY <1>1, <1>2, <1>3 DEF InitInv

\* A step that leaves the statements alone and does not report success.
LEMMA NothingExecuted ==
    ASSUME InitInv, UNCHANGED <<statement, tables>>,
           at' \in [Processes -> [Modules -> Stages]],
           \A p \in Processes : at'[p]["init"] = "done" => at[p]["init"] = "done"
    PROVE  InitInv'
BY DEF InitInv

LEMMA EndExecutesNothing ==
    ASSUME InitInv, NEW p \in Processes, End(p) PROVE InitInv'
<1>1. "init" \in Modules
  BY DEF Modules
<1> QED BY <1>1, NothingExecuted DEF End, InitInv, Stages

LEMMA GoExecutesNothing ==
    ASSUME InitInv, NEW p \in Processes, NEW m \in Modules, NEW to \in Stages, Go(p, m, to),
           m # "init" \/ to # "done", UNCHANGED <<statement, tables>>
    PROVE  InitInv'
<1>1. "init" \in Modules
  BY DEF Modules
<1> QED BY <1>1, NothingExecuted DEF Go, InitInv

LEMMA StepTables == InitInv /\ [Next]_vars => InitInv'
<1> SUFFICES ASSUME InitInv, [Next]_vars PROVE InitInv'
  OBVIOUS
<1> USE DEF startVars
<1>1. ASSUME NEW p \in Processes, Execute(p) PROVE InitInv'
  <2> DEFINE i == statement[p] + 1
  <2>1. statement[p] \in Nat /\ statement[p] < Statements /\ Statements \in Nat
    BY <1>1, StatementsAreCounted DEF Execute, InitInv
  <2>2. statement' = [statement EXCEPT ![p] = i] /\ tables' = tables \cup {i} /\ UNCHANGED at
    BY <1>1 DEF Execute, InitInv
  <2>3. i \in 1 .. Statements /\ 1 .. i = (1 .. statement[p]) \cup {i}
    BY <2>1
  <2>4. /\ 1 .. statement[p] \subseteq tables
        /\ at[p]["init"] # "done"
    BY <1>1 DEF Execute, InitInv
  <2> HIDE DEF i
  <2>5. statement' \in [Processes -> 0 .. Statements] /\ tables' \subseteq 1 .. Statements
    BY <2>2, <2>3 DEF InitInv
  <2>6. ASSUME NEW q \in Processes
        PROVE  /\ 1 .. statement'[q] \subseteq tables'
               /\ at'[q]["init"] = "done" => statement'[q] = Statements
    <3>1. CASE q = p
      BY <2>2, <2>3, <2>4, <3>1 DEF InitInv
    <3>2. CASE q # p
      BY <2>2, <3>2 DEF InitInv
    <3> QED BY <3>1, <3>2
  <2> QED BY <2>2, <2>5, <2>6 DEF InitInv
<1>2. ASSUME NEW p \in Processes, Initialized(p) PROVE InitInv'
  BY <1>2 DEF Initialized, Go, InitInv, Modules, Stages
<1>3. ASSUME NEW p \in Processes, Restart(p) PROVE InitInv'
  <2>1. 0 \in 0 .. Statements /\ 1 .. 0 = {} /\ "init" \in Modules
    BY StatementsAreCounted DEF Modules
  <2> QED BY <1>3, <2>1 DEF Restart, InitInv, Stages
<1>4. ASSUME NEW p \in Processes, NEW m \in Modules,
             ModuleStep(p, m) \/ (RunScript(p, m) /\ m \in Scripts) \/ PoolsFail(p, m)
      PROVE  InitInv'
  <2>1. CASE ModuleStep(p, m)
    BY <1>4, <2>1, EndExecutesNothing, GoExecutesNothing
    DEF ModuleStep, ReadIni, NoConfig, CheckConfig, BadConfig, OpenPools, AfterPools, Stages
  <2>2. CASE RunScript(p, m) /\ m \in Scripts
    BY <2>2, GoExecutesNothing DEF RunScript, Scripts, Stages
  <2>3. CASE PoolsFail(p, m)
    BY <2>3, EndExecutesNothing DEF PoolsFail
  <2> QED BY <1>4, <2>1, <2>2, <2>3
<1>5. ASSUME NEW p \in Processes, NEW g \in Groups,
             ConsumerStep(p, g) \/ NoClient(p, g) \/ SubscribeTimeout(p, g) \/ PollTimeout(p, g)
      PROVE  InitInv'
  <2>1. g \in Modules /\ g # "init"
    BY StartUpAssumption DEF Modules
  <2> QED BY <1>5, <2>1, EndExecutesNothing, GoExecutesNothing, NothingExecuted
    DEF ConsumerStep, StartConsumer, Rebalance, Subscribed, PollRecord, Handled, NoClient,
        SubscribeTimeout, PollTimeout, InitInv, Stages
<1>6. ASSUME NEW p \in Processes, TakeConns(p) \/ Race(p) \/ Kill(p) \/ ExecuteFails(p)
      PROVE  InitInv'
  <2>1. CASE TakeConns(p)
    <3>1. UNCHANGED <<statement, tables>>
      BY <2>1 DEF TakeConns
    <3>2. at' = at \/ Go(p, "evaluator", "subscribe")
      BY <2>1 DEF TakeConns
    <3>3. CASE "evaluator" \in Modules /\ Go(p, "evaluator", "subscribe")
      BY <3>1, <3>3, GoExecutesNothing DEF Stages
    <3>4. CASE at' = at
      BY <3>1, <3>4, NothingExecuted DEF InitInv
    <3>5. "evaluator" \notin Modules /\ Go(p, "evaluator", "subscribe") => at' = at
      BY DEF Go, InitInv
    <3> QED BY <3>2, <3>3, <3>4, <3>5
  <2>2. CASE Race(p)
    <3>1. End(p) \/ (UNCHANGED <<statement, tables>> /\ \E n \in Modules : Go(p, n, "hung"))
      BY <2>2 DEF Race
    <3> QED BY <3>1, EndExecutesNothing, GoExecutesNothing DEF Stages
  <2>3. CASE Kill(p) \/ ExecuteFails(p)
    BY <2>3, EndExecutesNothing DEF Kill, ExecuteFails
  <2> QED BY <1>6, <2>1, <2>2, <2>3
<1>7. CASE UNCHANGED startVars
  BY <1>7, NothingExecuted DEF InitInv
<1>8. CASE Progress
  BY <1>1, <1>2, <1>4, <1>5, <1>6, <1>7, <1>8 DEF Progress, Modules
<1>9. CASE Trouble
  BY <1>3, <1>4, <1>5, <1>6, <1>9 DEF Trouble
<1> QED BY <1>7, <1>8, <1>9 DEF Next, vars

\* For any number of processes, failures and restarts: init-mysql reports success
\* only when every statement has been carried out.
THEOREM InitIsDone == Spec => []InitDone
<1>1. InitInv => InitDone
  BY DEF InitInv, InitDone
<1> QED BY <1>1, InitTables, StepTables, PTL DEF Spec
=============================================================================
