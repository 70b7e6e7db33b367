----------------------------- MODULE MCStartUp ------------------------------
(***************************************************************************)
(* An instance of StartUp for TLC: two processes of which each runs an     *)
(* evaluator; one with two modules; and the scripts of one beside the      *)
(* other's init-mysql.                                                     *)
(***************************************************************************)
EXTENDS StartUp, TLC

CONSTANTS p1, p2

MCCommands ==
    {(p1 :> {"evaluator"}) @@ (p2 :> {"evaluator"}),
     (p1 :> {"evaluator", "searcher"}) @@ (p2 :> {}),
     (p1 :> {"webapi", "crawler", "wordsplit"}) @@ (p2 :> {"init"})}

MCFiles ==
    {NoFile} \cup
    {[k \in Keys |-> CASE k = "DataBase.mysql_host" -> h
                      [] k = "DataBase.mysql_port" -> o
                      [] k = "DataBase.mysql_password" -> "empty"
                      [] OTHER -> "value"] :
        h \in {"value", "empty"}, o \in {"value", "empty", "absent"}}
=============================================================================
