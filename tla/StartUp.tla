------------------------------ MODULE StartUp -------------------------------
(***************************************************************************)
(* From main to running modules: a thread for each module that the command *)
(* line asks for, config.ini, the connection pools, the evaluators'        *)
(* connections, and the Kafka consumer's subscription (ConsumerGroup); and *)
(* the set-up of the MySQL tables.  Processes may run on several machines  *)
(* with the same modules.  One that ends is started again by hand.         *)
(***************************************************************************)
EXTENDS ConsumerGroup

CONSTANTS
    Commands,      \* the sets of modules asked for: functions on Processes
    Files,         \* what config.ini may be: functions on Keys, or NoFile
    NoFile,
    EvaluatorNum,  \* Evaluator.evaluator_num
    PoolSize,      \* DataBase.mysql_pool_max_conn and redis_pool_max_conn
    Statements,    \* the number of statements of create_database.sql
    MaxFaults,     \* bound of the model: failures, crashes, time-outs
    MaxRecords     \* bound of the model: records of each topic

\* The keys of config.ini, each with whether it must have a value.
config_req ==
    [k \in {"DataBase.mysql_host", "DataBase.mysql_port", "DataBase.mysql_username",
            "DataBase.mysql_password", "DataBase.mysql_database_name",
            "DataBase.mysql_pool_max_conn", "DataBase.redis_host", "DataBase.redis_port",
            "DataBase.redis_password", "DataBase.redis_pool_max_conn",
            "Kafka.kafka_brokers", "Evaluator.evaluator_num",
            "indexBuilder.indexBuilder_num", "Searcher.Searcher_num"} |->
        k \in {"DataBase.mysql_host", "DataBase.mysql_username",
               "DataBase.mysql_database_name", "DataBase.redis_host",
               "Kafka.kafka_brokers"}]

Keys == DOMAIN config_req

\* The keys of config_default_val: mysql_password, which need not have a value, is
\* none of them, and [] then makes it the empty string.
Defaults ==
    {"DataBase.mysql_port", "DataBase.redis_port", "DataBase.redis_password",
     "DataBase.redis_pool_max_conn", "DataBase.mysql_pool_max_conn",
     "Evaluator.evaluator_num", "indexBuilder.indexBuilder_num", "Searcher.Searcher_num"}

\* The modules that main knows.  "init" is --init-mysql, in the main thread.
Scripts == {"wordsplit", "webapi", "crawler"}
Modules == Groups \cup Scripts \cup {"init"}

\* What do_run_wordsplit, do_run_webapi and do_run_crawler start.
ScriptOf(m) == IF m = "wordsplit" THEN "wordSplitServer.py" ELSE "webapi.py"

ASSUME StartUpAssumption ==
    /\ Groups \subseteq {"evaluator", "indexBuilder", "searcher"}
    /\ \A asked \in Commands : asked \in [Processes -> SUBSET Modules]
    /\ Files \subseteq [Keys -> {"value", "empty", "absent"}] \cup {NoFile}
    /\ EvaluatorNum \in Nat /\ PoolSize \in Nat /\ Statements \in Nat
    /\ MaxFaults \in Nat /\ MaxRecords \in Nat

VARIABLES
    asked,      \* the command lines
    file,       \* config.ini
    at,         \* at[p][m]: where the thread of module m in process p is
    configMap,  \* configMap[p]: config_map, "unset", "value", "default" or "nothing" for a key
    lent,       \* lent[p]: the evaluators of p that have their connections
    statement,  \* statement[p]: statements that init_mysql in p is through with
    tables,     \* the statements whose effect is in the database
    records,    \* records[g]: records of the topic not polled yet
    raced,      \* a data race on config or config_map has done harm
    faults

startVars == <<asked, file, at, configMap, lent, statement, tables, records, raced, faults>>
vars == <<groupVars, startVars>>

Init ==
    /\ GroupInit
    /\ asked \in Commands
    /\ file \in Files
    /\ at = [p \in Processes |-> [m \in Modules |->
                IF m \in asked[p] THEN "start" ELSE "none"]]
    /\ configMap = [p \in Processes |-> [k \in Keys |-> "unset"]]
    /\ lent = [p \in Processes |-> 0]
    /\ statement = [p \in Processes |-> 0]
    /\ tables = {}
    /\ records = [g \in Groups |-> MaxRecords]
    /\ raced = FALSE
    /\ faults = 0

Go(p, m, to) == at' = [at EXCEPT ![p][m] = to]

Fault == faults < MaxFaults /\ faults' = faults + 1

\* exit(0), an exception that no thread catches, or a kill.
End(p) ==
    /\ at' = [at EXCEPT ![p] = [m \in Modules |-> "ended"]]
    /\ Vanish(p)
    /\ UNCHANGED <<asked, file, configMap, lent, statement, tables, records>>

(***************************************************************************)
(* configParser::parse and check_config_integrity.                         *)
(***************************************************************************)
ReadIni(p, m) ==
    /\ m \notin Scripts /\ at[p][m] = "start"
    /\ file # NoFile
    /\ Go(p, m, "parsing")
    /\ UNCHANGED <<groupVars, asked, file, configMap, lent, statement, tables, records,
                   raced, faults>>

NoConfig(p, m) ==
    /\ m \notin Scripts /\ at[p][m] = "start"
    /\ file = NoFile
    /\ End(p)
    /\ UNCHANGED <<raced, faults>>

\* A key that is not in the file throws, even if it has a default; an empty one
\* is an error only if it is required.
Complete ==
    /\ \A k \in Keys : file[k] # "absent"
    /\ \A k \in Keys : config_req[k] => file[k] # "empty"

CheckConfig(p, m) ==
    /\ at[p][m] = "parsing"
    /\ Complete
    /\ configMap' = [configMap EXCEPT ![p] =
           [k \in Keys |-> CASE file[k] # "empty" -> "value"
                             [] file[k] = "empty" /\ k \in Defaults -> "default"
                             [] OTHER -> "nothing"]]
    /\ Go(p, m, "pools")
    /\ UNCHANGED <<groupVars, asked, file, lent, statement, tables, records, raced, faults>>

BadConfig(p, m) ==
    /\ at[p][m] = "parsing"
    /\ ~ Complete
    /\ End(p)
    /\ UNCHANGED <<raced, faults>>

\* A key that is not there yet gets no error from [], which makes an empty string.
get_config(p, k) == configMap[p][k]

\* The threads of one process write config and config_map, which another of them
\* reads or writes, without a lock: it ends the process or a thread never returns.
Race(p) ==
    /\ \E m \in Modules : \E n \in Modules \ {m} :
           /\ at[p][m] = "parsing"
           /\ at[p][n] \in {"parsing", "pools", "evaluators", "subscribe"}
           /\ \/ End(p)
              \/ Go(p, n, "hung") /\ UNCHANGED <<groupVars, asked, file, configMap, lent,
                                                 statement, tables, records>>
    /\ raced' = TRUE
    /\ UNCHANGED faults

(***************************************************************************)
(* The DataBase constructor, and what each module does then.               *)
(***************************************************************************)
AfterPools(m) ==
    CASE m = "evaluator" -> "evaluators"
      [] m = "init" -> "statements"
      [] OTHER -> "subscribe"

OpenPools(p, m) ==
    /\ at[p][m] = "pools"
    /\ Go(p, m, AfterPools(m))
    /\ UNCHANGED <<groupVars, asked, file, configMap, lent, statement, tables, records,
                   raced, faults>>

\* A connection that cannot be opened, a wrong password.
PoolsFail(p, m) ==
    /\ at[p][m] = "pools"
    /\ Fault
    /\ End(p)
    /\ UNCHANGED raced

\* Not in the code: one evaluator too many.
BugTakeConns(p) ==
    /\ at[p]["evaluator"] = "evaluators"
    /\ lent[p] < EvaluatorNum + 1 /\ lent[p] < PoolSize
    /\ lent' = [lent EXCEPT ![p] = @ + 1]
    /\ IF lent'[p] = EvaluatorNum + 1 THEN Go(p, "evaluator", "subscribe") ELSE UNCHANGED at
    /\ UNCHANGED <<groupVars, asked, file, configMap, statement, tables, records, raced,
                   faults>>

\* Evaluator::run takes the connections of the next evaluator.  It waits for
\* them, although nobody ever gives one back.
TakeConns(p) ==
    /\ at[p]["evaluator"] = "evaluators"
    /\ lent[p] < EvaluatorNum /\ lent[p] < PoolSize
    /\ lent' = [lent EXCEPT ![p] = @ + 1]
    /\ IF lent'[p] = EvaluatorNum THEN Go(p, "evaluator", "subscribe") ELSE UNCHANGED at
    /\ UNCHANGED <<groupVars, asked, file, configMap, statement, tables, records, raced,
                   faults>>

(***************************************************************************)
(* init_mysql.  MySQL commits a CREATE at once, whatever autocommit says,  *)
(* so the rollback after an error takes nothing back.                      *)
(***************************************************************************)
Execute(p) ==
    /\ at[p]["init"] = "statements"
    /\ statement[p] < Statements
    /\ statement' = [statement EXCEPT ![p] = @ + 1]
    /\ tables' = tables \cup {statement'[p]}
    /\ UNCHANGED <<groupVars, asked, file, at, configMap, lent, records, raced, faults>>

\* Not in the code: the statement after it is tried.
BugExecuteFails(p) ==
    /\ at[p]["init"] = "statements"
    /\ statement[p] < Statements
    /\ Fault
    /\ statement' = [statement EXCEPT ![p] = @ + 1]
    /\ UNCHANGED <<groupVars, asked, file, at, configMap, lent, tables, records, raced>>

ExecuteFails(p) ==
    /\ at[p]["init"] = "statements"
    /\ statement[p] < Statements
    /\ Fault
    /\ End(p)
    /\ UNCHANGED raced

Initialized(p) ==
    /\ at[p]["init"] = "statements"
    /\ statement[p] = Statements
    /\ Go(p, "init", "done")
    /\ UNCHANGED <<groupVars, asked, file, configMap, lent, statement, tables, records,
                   raced, faults>>

(***************************************************************************)
(* The consumer thread: subscribe, then poll and the handler in turns.     *)
(***************************************************************************)

\* The constructor of the Kafka client throws, and nobody catches it: no broker
\* can be made of kafka_brokers, or the group's queue is not to be had.
NoClient(p, g) ==
    /\ at[p][g] = "subscribe"
    /\ Fault
    /\ End(p)
    /\ UNCHANGED raced

StartConsumer(p, g) ==
    /\ at[p][g] = "subscribe"
    /\ Subscribe(<<p, g>>)
    /\ Go(p, g, "subscribing")
    /\ UNCHANGED <<asked, file, configMap, lent, statement, tables, records, raced, faults>>

Polls(p, g) == at[p][g] \in {"subscribing", "polling"}

Rebalance(p, g) ==
    /\ Polls(p, g)
    /\ OnRevoked(<<p, g>>) \/ OnAssigned(<<p, g>>)
    /\ UNCHANGED startVars

Subscribed(p, g) ==
    /\ at[p][g] = "subscribing"
    /\ ~ pendingEvent[<<p, g>>]
    /\ Go(p, g, "polling")
    /\ UNCHANGED <<groupVars, asked, file, configMap, lent, statement, tables, records,
                   raced, faults>>

\* Thirty seconds without the assignment: the exception is thrown outside the
\* try of worker.
SubscribeTimeout(p, g) ==
    /\ at[p][g] = "subscribing"
    /\ pendingEvent[<<p, g>>]
    /\ Fault
    /\ End(p)
    /\ UNCHANGED raced

PollRecord(p, g) ==
    /\ at[p][g] = "polling"
    /\ member[<<p, g>>] = "in" /\ assigned[<<p, g>>]
    /\ records[g] > 0
    /\ records' = [records EXCEPT ![g] = @ - 1]
    /\ Go(p, g, "handling")
    /\ UNCHANGED <<groupVars, asked, file, configMap, lent, statement, tables, raced, faults>>

Handled(p, g) ==
    /\ at[p][g] = "handling"
    /\ Go(p, g, "polling")
    /\ UNCHANGED <<groupVars, asked, file, configMap, lent, statement, tables, records,
                   raced, faults>>

PollTimeout(p, g) ==
    /\ at[p][g] = "handling"
    /\ Fault
    /\ Kick(<<p, g>>)
    /\ UNCHANGED <<asked, file, at, configMap, lent, statement, tables, records, raced>>

(***************************************************************************)
(* The Python modules: system returns when the script ends, which touches  *)
(* nothing else.  A second webapi.py finds its port in use.                *)
(***************************************************************************)
ScriptRuns(s) ==
    \E p \in Processes, m \in Scripts : at[p][m] = "script" /\ ScriptOf(m) = s

RunScript(p, m) ==
    /\ at[p][m] = "start"
    /\ \/ /\ file # NoFile
          /\ ScriptOf(m) = "webapi.py" => ~ ScriptRuns("webapi.py")
          /\ Go(p, m, "script")
       \/ /\ \/ file = NoFile
             \/ file # NoFile /\ ~ Complete
             \/ ScriptOf(m) = "webapi.py" /\ ScriptRuns("webapi.py")
          /\ Go(p, m, "done")
    /\ UNCHANGED <<groupVars, asked, file, configMap, lent, statement, tables, records,
                   raced, faults>>

(***************************************************************************)
(* A kill, and the next start.                                             *)
(***************************************************************************)
Kill(p) ==
    /\ \E m \in Modules : at[p][m] \notin {"none", "ended"}
    /\ Fault
    /\ End(p)
    /\ UNCHANGED raced

Restart(p) ==
    /\ \A m \in Modules : at[p][m] = "ended"
    /\ Fault
    /\ at' = [at EXCEPT ![p] = [m \in Modules |->
                IF m \in asked[p] THEN "start" ELSE "none"]]
    /\ configMap' = [configMap EXCEPT ![p] = [k \in Keys |-> "unset"]]
    /\ lent' = [lent EXCEPT ![p] = 0]
    /\ statement' = [statement EXCEPT ![p] = 0]
    /\ UNCHANGED <<groupVars, asked, file, tables, records, raced>>

ModuleStep(p, m) ==
    \/ ReadIni(p, m) \/ NoConfig(p, m) \/ CheckConfig(p, m) \/ BadConfig(p, m)
    \/ OpenPools(p, m)

ConsumerStep(p, g) ==
    StartConsumer(p, g) \/ Rebalance(p, g) \/ Subscribed(p, g) \/ PollRecord(p, g)
    \/ Handled(p, g)

Progress ==
    \/ \E p \in Processes :
           \/ \E m \in Modules \ Scripts : ModuleStep(p, m)
           \/ \E m \in Scripts : RunScript(p, m)
           \/ \E g \in Groups : ConsumerStep(p, g)
           \/ TakeConns(p) \/ Execute(p) \/ Initialized(p)
    \/ \E g \in Groups : (Join(g) \/ SessionTimeout(g)) /\ UNCHANGED startVars

Trouble ==
    \E p \in Processes :
        \/ Race(p) \/ Kill(p) \/ Restart(p) \/ ExecuteFails(p)
        \/ \E m \in Modules : PoolsFail(p, m)
        \/ \E g \in Groups :
               NoClient(p, g) \/ SubscribeTimeout(p, g) \/ PollTimeout(p, g)

Next == Progress \/ Trouble

Spec == Init /\ [][Next]_vars

\* The machines do not stand still while a thread can run; records, faults and
\* with them rebalances are finite, so that no thread can run for ever.
FairSpec == Spec /\ WF_vars(Progress)

-----------------------------------------------------------------------------
\* Two consumers never both hold the partition, across processes, rebalances and
\* restarts; only one that the group has given up for dead may not know it yet
\* (KafkaConsumer.h:575-579, 949-952).
OneOwner ==
    \A g \in Groups : \A p, q \in Processes :
        p # q /\ assigned[<<p, g>>] /\ assigned[<<q, g>>] =>
            "kicked" \in {member[<<p, g>>], member[<<q, g>>]}

\* init-mysql reports success only when all the tables are there, whatever its
\* earlier tries left (DataBase.cpp:137-159).
InitDone ==
    \A p \in Processes : at[p]["init"] = "done" => tables = 1 .. Statements

\* It works, and what get_config gives it is set.
Up(p, m) ==
    /\ at[p][m] \in {"polling", "handling", "done"}
    /\ \A k \in Keys : get_config(p, k) # "unset"

Short(p, m) == m = "evaluator" /\ EvaluatorNum > PoolSize

\* A C++ module that is asked for comes up, configured: no thread of it waits for something
\* that only a later step brings, and a subscription outlasts dead and busy
\* members of its group.  Otherwise its process has ended, for a reason; or there
\* are not the connections for its evaluators, on which run waits for ever
\* (evaluator.cpp:75-84, kafka_client.cpp:36).
ModulesComeUp ==
    \A p \in Processes : \A m \in Modules \ Scripts :
        at[p][m] = "start" ~>
            \/ Up(p, m)
            \/ at[p][m] = "ended" /\ (faults > 0 \/ raced \/ file = NoFile \/ ~ Complete)
            \/ Short(p, m) \/ raced

\* The inductive invariant behind OneOwner: who reads the partition without having
\* been given up is the one whom the broker gave it to.
GroupInv ==
    /\ member \in [Consumers -> MemberStates]
    /\ DOMAIN assigned = Consumers
    /\ \A c \in Consumers : assigned[c] =>
           /\ member[c] \in {"in", "kicked"}
           /\ member[c] = "in" => owner[c[2]] = c[1]

Stages == {"none", "start", "parsing", "pools", "evaluators", "subscribe", "subscribing",
           "polling", "handling", "statements", "script", "done", "hung", "ended"}

\* And behind InitDone: no statement is skipped.
InitInv ==
    /\ at \in [Processes -> [Modules -> Stages]]
    /\ statement \in [Processes -> 0 .. Statements]
    /\ tables \subseteq 1 .. Statements
    /\ \A p \in Processes :
           /\ 1 .. statement[p] \subseteq tables
           /\ at[p]["init"] = "done" => statement[p] = Statements
=============================================================================
