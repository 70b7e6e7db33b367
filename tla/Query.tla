------------------------------- MODULE Query --------------------------------
(***************************************************************************)
(* A user's query from the web API (webapi.py) through the word splitter   *)
(* (wordSplitServer.py) to the searchers and back through redis.  The web  *)
(* API answers from redis, or asks and looks into redis again for three    *)
(* seconds; the answer may come later than that.                           *)
(***************************************************************************)
EXTENDS Searchers, PyKafka

CONSTANTS
    NumRequests,
    Polls,        \* expire_time: how often redis is asked again
    NoReply

ASSUME QueryAssumption ==
    /\ {"API2WordSplit", "WordSplit2Searcher"} \subseteq Topics
    /\ Polls \in Nat \ {0}
    /\ NumRequests \in Nat

Requests == 1 .. NumRequests    \* in the order they arrive

VARIABLES
    at,      \* at[r]: where request r is
    want,    \* want[r]: its keyword
    left,    \* left[r]: expire_time
    reply,   \* reply[r]: what the user got
    since    \* since[q]: the index when q was first asked

apiVars == <<at, want, left, reply, since>>
vars == <<searcherVars, kafkaVars, apiVars>>

Init ==
    /\ SearchersInit
    /\ KafkaInit
    /\ at = [r \in Requests |-> "new"]
    /\ want = [r \in Requests |-> None]
    /\ left = [r \in Requests |-> 0]
    /\ reply = [r \in Requests |-> None]
    /\ since = [q \in Queries |-> None]

(***************************************************************************)
(* webapi.                                                                 *)
(***************************************************************************)
Post(r, q) ==
    /\ at[r] = "new"
    /\ \A p \in Requests : p < r => at[p] # "new"
    /\ at' = [at EXCEPT ![r] = "get"]
    /\ want' = [want EXCEPT ![r] = q]
    /\ since' = [since EXCEPT ![q] = IF @ = None THEN index ELSE @]
    /\ UNCHANGED <<searcherVars, kafkaVars, left, reply>>

\* redis has the answer, new or old.
Hit(r) ==
    /\ at[r] \in {"get", "poll"}
    /\ store[want[r]] # None
    /\ reply' = [reply EXCEPT ![r] = store[want[r]]]
    /\ at' = [at EXCEPT ![r] = "done"]
    /\ UNCHANGED <<searcherVars, kafkaVars, want, left, since>>

\* It has none: the query is put into HTTP_request_que, which has no bound.
PutRequest(r) ==
    /\ at[r] = "get"
    /\ store[want[r]] = None
    /\ Put("API2WordSplit", want[r])
    /\ left' = [left EXCEPT ![r] = Polls]
    /\ at' = [at EXCEPT ![r] = "poll"]
    /\ UNCHANGED <<searcherVars, flight, waiting, dead, topic, dropped, faults,
                   want, reply, since>>

\* A tenth of a second later, still nothing; the last time that is a 404.
MissAgain(r) ==
    /\ at[r] = "poll"
    /\ store[want[r]] = None
    /\ left' = [left EXCEPT ![r] = @ - 1]
    /\ IF left[r] = 1
       THEN /\ at' = [at EXCEPT ![r] = "done"]
            /\ reply' = [reply EXCEPT ![r] = NoReply]
       ELSE UNCHANGED <<at, reply>>
    /\ UNCHANGED <<searcherVars, kafkaVars, want, since>>

(***************************************************************************)
(* The word splitter's http_handler, blocked while to_index_que is full,   *)
(* and the searchers' message_recv_from_WordSplit.                         *)
(***************************************************************************)
\* Not in the code: put does not wait, and a message that finds the queue full is lost.
BugHttpHandler ==
    /\ Consume("API2WordSplit")
    /\ IF Len(queue["WordSplit2Searcher"]) < QueMaxSize
       THEN Put("WordSplit2Searcher", Head(topic["API2WordSplit"]))
       ELSE UNCHANGED queue
    /\ UNCHANGED <<searcherVars, flight, waiting, dead, dropped, faults, apiVars>>

HttpHandler ==
    /\ Len(queue["WordSplit2Searcher"]) < QueMaxSize
    /\ Consume("API2WordSplit")
    /\ Put("WordSplit2Searcher", Head(topic["API2WordSplit"]))
    /\ UNCHANGED <<searcherVars, flight, waiting, dead, dropped, faults, apiVars>>

ReceiveFromWordSplit ==
    /\ running
    /\ Consume("WordSplit2Searcher")
    /\ inbox' = Append(inbox, Head(topic["WordSplit2Searcher"]))
    /\ UNCHANGED <<index, store, running, sc, query, n, read, pools, ghosts,
                   queue, flight, waiting, dead, dropped, faults, apiVars>>

Request(r) == Hit(r) \/ PutRequest(r) \/ MissAgain(r)

\* What the threads do by themselves.
Progress ==
    \/ \E r \in Requests : Request(r)
    \/ HttpHandler \/ ReceiveFromWordSplit
    \/ (\E t \in Topics : Send(t) \/ Arrive(t)) /\ UNCHANGED <<searcherVars, apiVars>>
    \/ (\E s \in Searchers : Work(s)) /\ UNCHANGED <<kafkaVars, apiVars>>

\* What users, the index builder and faults do.  The bound on faults is one for
\* both sides.
Environment ==
    \/ \E r \in Requests, q \in Queries : Post(r, q)
    \/ (\E k \in Keys : Grow(k)) /\ UNCHANGED <<kafkaVars, apiVars>>
    \/ (\E t \in Topics : Trip(t)) /\ trouble = 0 /\ UNCHANGED <<searcherVars, apiVars>>
    \/ (\E s \in Searchers : SearcherTrips(s)) /\ faults = 0 /\ UNCHANGED <<kafkaVars, apiVars>>

Next == Progress \/ Environment

Spec == Init /\ [][Next]_vars

\* The machine does not stand still while a thread can run.  No step of a thread
\* can be taken for ever, so this is as good as fairness to each of them.
FairSpec == Spec /\ WF_vars(Progress)

-----------------------------------------------------------------------------
\* What the user is promised.
Service == INSTANCE QueryService WITH KeysOf <- [q \in Queries |-> KeySet(q)]
ServiceSpec == Service!Spec

(***************************************************************************)
(* The invariant behind it.                                                *)
(***************************************************************************)
Asked == {q \in Queries : since[q] # None}

QueryTypes ==
    /\ index \in [Keys -> Nat]
    /\ DOMAIN store = Queries
    /\ sc \in [Searchers -> Places]
    /\ n \in [Searchers -> Nat \ {0}]
    /\ read \in [Searchers -> [Keys -> Nat]]
    /\ since \in [Queries -> {None} \cup [Keys -> Nat]]
    /\ at \in [Requests -> {"new", "get", "poll", "done"}]
    /\ want \in [Requests -> Queries \cup {None}]
    /\ DOMAIN reply = Requests
    /\ DOMAIN query = Searchers

\* What is on its way was asked for, and the index has only grown since.
OnlyAsked ==
    /\ inbox \in Seq(Asked)
    /\ queue \in [Topics -> Seq(Asked)]
    /\ flight \in [Topics -> Seq(Asked)]
    /\ topic \in [Topics -> Seq(Asked)]
    /\ \A s \in Searchers : sc[s] # "idle" => query[s] \in Asked
    /\ \A r \in Requests :
           /\ at[r] = "new" => want[r] = None
           /\ at[r] # "new" => want[r] \in Asked
           /\ at[r] # "done" => reply[r] = None
    /\ \A q \in Asked : \A k \in Keys : since[q][k] <= index[k]

\* The lists a searcher has read are of the index since its query was asked; a word
\* it is through with and has no list of had none then.
ReadSince(s) ==
    LET reading == sc[s] \in {"conn", "select", "freeword"}
    IN  /\ reading => n[s] \in DOMAIN Words(s)
        /\ sc[s] = "freeword" => read[s][Word(s)] # 0
        /\ \A k \in Keys :
               /\ read[s][k] <= index[k]
               /\ read[s][k] # 0 => since[query[s]][k] <= read[s][k]
        /\ \A i \in DOMAIN Words(s) :
               i < n[s] \/ ~ reading => since[query[s]][Words(s)[i]] <= read[s][Words(s)[i]]

\* The searcher's query is answered or given up.
Over == {"idle", "throwword", "throw", "throwredis", "ended"}

ServiceInv ==
    /\ QueryTypes
    /\ OnlyAsked
    /\ \A s \in Searchers :
           /\ sc[s] = "idle" => read[s] = Unread
           /\ sc[s] \notin Over => ReadSince(s)

\* A query that was put is answered in the end, if after the user was told 404,
\* unless the message or the answer was given up on the way, a Producer or the
\* searchers' process has ended, every MySQL connection is lost, or a searcher
\* scans for ever for the last of too few that are left (webapi.py:88-99,
\* client.py:31, searcher.cpp:252, 374, mysql_pool.h:101).
GivenUp(q) ==
    \/ q \in dropped \/ q \in refused
    \/ \E t \in Topics : dead[t]
    \/ ~ running
    \/ misses = MysqlConns \/ (Scarce("mysql") /\ Wedged("mysql"))

QueriesAnswered ==
    \A q \in Queries :
        (\E r \in Requests : at[r] = "poll" /\ want[r] = q)
            ~> (store[q] # None \/ GivenUp(q))
=============================================================================
