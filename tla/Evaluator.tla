----------------------------- MODULE Evaluator ------------------------------
(***************************************************************************)
(* The evaluators of evaluator.cpp: each takes a crawled page from the     *)
(* queue, stores the page and the pages it links to in the WebPage table,  *)
(* records the links in LinkTable, and passes the page on.  An evaluator   *)
(* has its own MySQL connection, hence its own LAST_INSERT_ID, and its own *)
(* redis connection, which is never replaced once it fails.  One action    *)
(* per SQL or redis command: between two commands the others run.          *)
(***************************************************************************)
EXTENDS Naturals, Sequences, FiniteSets

CONSTANTS
    Evaluators,
    Urls,
    Messages,       \* crawled pages: [url, links, short]
    Faults,         \* the external failures that may happen, see below
    MaxDeliveries,  \* bound of the model: how often Kafka delivers one message
    MaxId,          \* bound of the model: AUTO_INCREMENT values
    None

\* "redis": a redis connection fails; "select", "insert", "update": MySQL
\* refuses the statement (an INSERT of a url longer than its column, say).
\* short: a string of the page's title or content has at most two bytes, which
\* remove_pre_suf_quote refuses.
ASSUME EvaluatorAssumption ==
    /\ IsFiniteSet(Evaluators) /\ IsFiniteSet(Messages)
    /\ Messages \subseteq [url : Urls, links : Seq(Urls), short : BOOLEAN]
    /\ Faults \subseteq {"redis", "select", "insert", "update"}
    /\ MaxDeliveries \in Nat
    /\ MaxId \in Nat
    /\ None \notin Urls \cup Nat

Ids == 1 .. MaxId
Pairs == (0 .. MaxId) \X (0 .. MaxId)    \* 0: no id was found

VARIABLES
    page,        \* WebPage: page[u] is idWebPage of the row with that url
    crawl,       \* WebPage: the Crawl column of that row
    total,       \* WebPage: count_total_link_to, by id
    content,     \* WebPage: the url whose title and document the row has, by id
    nextId,      \* WebPage: AUTO_INCREMENT
    links,       \* LinkTable: links[<<i, j>>] records have From i, To j: no unique index
    cache,       \* redis: the key "WebPage:" \o url
    delivered,   \* how often each message was taken
    redisUp,     \* redisUp[e]: e's redis connection works
    lastId,      \* lastId[e]: LAST_INSERT_ID() of e's MySQL connection
    pc, msg,     \* where e is, and in which message
    k,           \* the link e is at; 0 while it stores the page itself
    ret,         \* the id store_weblink2db has found so far
    from,        \* from_page_id
    toCrawler,   \* urls pushed to send2Crawler_queue
    toIndex,     \* [id, url] pushed to send2indexBuilder_queue
    finished,    \* messages taken to the end unhurt
    hurt,        \* hurt[e]: e lacked redis or was refused a statement in this message
    harm         \* that happened to somebody, at some time

tables == <<page, crawl, total, content, nextId, links>>
local == <<msg, k, ret, from>>
out == <<toCrawler, toIndex, finished>>
ghost == <<hurt, harm>>
vars == <<tables, cache, delivered, redisUp, lastId, pc, local, out, ghost>>

Init ==
    /\ page = [u \in Urls |-> None]
    /\ crawl = [u \in Urls |-> 0]
    /\ total = [i \in Ids |-> 0]
    /\ content = [i \in Ids |-> None]
    /\ nextId = 1
    /\ links = [p \in Pairs |-> 0]
    /\ cache = [u \in Urls |-> None]
    /\ delivered = [m \in Messages |-> 0]
    /\ redisUp = [e \in Evaluators |-> TRUE]
    /\ lastId = [e \in Evaluators |-> 0]
    /\ pc = [e \in Evaluators |-> "idle"]
    /\ msg = [e \in Evaluators |-> None]
    /\ k = [e \in Evaluators |-> 0]
    /\ ret = [e \in Evaluators |-> 0]
    /\ from = [e \in Evaluators |-> 0]
    /\ toCrawler = {} /\ toIndex = {} /\ finished = {}
    /\ hurt = [e \in Evaluators |-> FALSE]
    /\ harm = FALSE

At(e, here) == pc[e] = here
Goto(e, to) == pc' = [pc EXCEPT ![e] = to]

\* Something external failed e in this message.
Hurt(e) == hurt' = [hurt EXCEPT ![e] = TRUE] /\ harm' = TRUE

\* The url store_weblink2db is called with, and its parameter crawl.
Url(e) == IF k[e] = 0 THEN msg[e].url ELSE msg[e].links[k[e]]

\* Not in the code: link targets are stored as crawled pages.
BugCrawlOf(e) == 1

CrawlOf(e) == IF k[e] = 0 THEN 1 ELSE 0

\* Where run goes on before the n-th link.
Link(e, n) == IF n <= Len(msg[e].links) THEN "select" ELSE "count"

\* The message is given up: run catches what was thrown and takes the next.
GiveUp(e) == Goto(e, "idle") /\ UNCHANGED <<local, finished>>

RedisFails(e) ==
    /\ "redis" \in Faults
    /\ redisUp[e]
    /\ redisUp' = [redisUp EXCEPT ![e] = FALSE]
    /\ UNCHANGED <<tables, cache, delivered, lastId, pc, local, out, ghost>>

\* A day after its SET the key is gone.  The GET that follows a SET in the
\* same call comes sooner than that.
Expire(u) ==
    /\ cache[u] # None
    /\ \A e \in Evaluators : pc[e] \in {"cachemeta", "get"} => Url(e) # u
    /\ cache' = [cache EXCEPT ![u] = None]
    /\ UNCHANGED <<tables, delivered, redisUp, lastId, pc, local, out, ghost>>

Take(e, m) ==
    /\ At(e, "idle")
    /\ delivered[m] < MaxDeliveries
    /\ delivered' = [delivered EXCEPT ![m] = @ + 1]
    /\ msg' = [msg EXCEPT ![e] = m]
    /\ k' = [k EXCEPT ![e] = 0]
    /\ hurt' = [hurt EXCEPT ![e] = FALSE]
    /\ Goto(e, "select")
    /\ UNCHANGED <<tables, cache, redisUp, lastId, ret, from, out, harm>>

(***************************************************************************)
(* check_url_in_db.  Its look into redis never succeeds: a GET is answered *)
(* with a string, never with a status.                                     *)
(***************************************************************************)
Select(e) ==
    /\ At(e, "select")
    /\ \/ /\ page[Url(e)] # None
          /\ ret' = [ret EXCEPT ![e] = page[Url(e)]]
          /\ Goto(e, "cache")
          /\ UNCHANGED ghost
       \/ /\ page[Url(e)] = None
          /\ Goto(e, "insert")
          /\ UNCHANGED <<ret, ghost>>
       \/ /\ "select" \in Faults
          /\ Hurt(e)
          /\ Goto(e, "insert")
          /\ UNCHANGED ret
    /\ UNCHANGED <<tables, cache, delivered, redisUp, lastId, msg, k, from, out>>

\* SET of the id; without a reply the url counts as unknown.
CacheId(e) ==
    /\ At(e, "cache")
    /\ IF redisUp[e]
       THEN /\ cache' = [cache EXCEPT ![Url(e)] = ret[e]]
            /\ Goto(e, "cachemeta")
            /\ UNCHANGED ghost
       ELSE /\ Hurt(e)
            /\ Goto(e, "insert")
            /\ UNCHANGED cache
    /\ UNCHANGED <<tables, delivered, redisUp, lastId, local, out>>

\* SET of UpdatedTime and of Crawl, likewise.
CacheMeta(e) ==
    /\ At(e, "cachemeta")
    /\ IF redisUp[e]
       THEN Goto(e, "get") /\ UNCHANGED ghost
       ELSE Goto(e, "insert") /\ Hurt(e)
    /\ UNCHANGED <<tables, cache, delivered, redisUp, lastId, local, out>>

(***************************************************************************)
(* store_weblink2db.                                                       *)
(***************************************************************************)

\* Not in the code: LAST_INSERT_ID() is asked for before the INSERT.
BugInsertOrder(e) ==
    /\ At(e, "insert")
    /\ nextId <= MaxId
    /\ nextId' = nextId + 1
    /\ \/ /\ page[Url(e)] = None
          /\ page' = [page EXCEPT ![Url(e)] = nextId]
          /\ crawl' = [crawl EXCEPT ![Url(e)] = CrawlOf(e)]
          /\ lastId' = [lastId EXCEPT ![e] = nextId]
          /\ UNCHANGED ghost
       \/ /\ page[Url(e)] # None \/ "insert" \in Faults
          /\ Hurt(e)
          /\ UNCHANGED <<page, crawl, lastId>>
    /\ ret' = [ret EXCEPT ![e] = lastId[e]]
    /\ Goto(e, "return")
    /\ UNCHANGED <<total, content, links, cache, delivered, redisUp, msg, k, from, out>>

\* Not in the code: the id is cached whether or not the INSERT was refused.
BugInsertCache(e) ==
    /\ At(e, "insert")
    /\ nextId <= MaxId
    /\ nextId' = nextId + 1
    /\ \/ /\ page[Url(e)] = None
          /\ page' = [page EXCEPT ![Url(e)] = nextId]
          /\ crawl' = [crawl EXCEPT ![Url(e)] = CrawlOf(e)]
          /\ lastId' = [lastId EXCEPT ![e] = nextId]
          /\ UNCHANGED ghost
       \/ /\ page[Url(e)] # None \/ "insert" \in Faults
          /\ Hurt(e)
          /\ UNCHANGED <<page, crawl, lastId>>
    /\ ret' = [ret EXCEPT ![e] = lastId'[e]]
    /\ cache' = [cache EXCEPT ![Url(e)] = lastId'[e]]
    /\ Goto(e, "return")
    /\ UNCHANGED <<total, content, links, delivered, redisUp, msg, k, from, out>>

\* INSERT, its result ignored, commit, SELECT LAST_INSERT_ID().  The unique
\* index on url refuses a second row; a refused INSERT still uses an
\* AUTO_INCREMENT value and leaves LAST_INSERT_ID() what it was.
Insert(e) ==
    /\ At(e, "insert")
    /\ nextId <= MaxId
    /\ nextId' = nextId + 1
    /\ \/ /\ page[Url(e)] = None
          /\ page' = [page EXCEPT ![Url(e)] = nextId]
          /\ crawl' = [crawl EXCEPT ![Url(e)] = CrawlOf(e)]
          /\ lastId' = [lastId EXCEPT ![e] = nextId]
          /\ UNCHANGED ghost
       \/ /\ page[Url(e)] # None \/ "insert" \in Faults
          /\ Hurt(e)
          /\ UNCHANGED <<page, crawl, lastId>>
    /\ ret' = [ret EXCEPT ![e] = lastId'[e]]
    /\ Goto(e, "return")
    /\ UNCHANGED <<total, content, links, cache, delivered, redisUp, msg, k, from, out>>

\* The url is known: its id from redis, or, without a reply, from MySQL, which
\* is then told that the page is crawled.
GetId(e) ==
    /\ At(e, "get")
    /\ redisUp[e]
    /\ ret' = [ret EXCEPT ![e] = cache[Url(e)]]
    /\ Goto(e, "return")
    /\ UNCHANGED <<tables, cache, delivered, redisUp, lastId, msg, k, from, out, ghost>>

GetIdFromTable(e) ==
    /\ At(e, "get")
    /\ ~ redisUp[e]
    /\ ret' = [ret EXCEPT ![e] = page[Url(e)]]
    /\ crawl' = [crawl EXCEPT ![Url(e)] = 1]
    /\ Hurt(e)
    /\ Goto(e, "return")
    /\ UNCHANGED <<page, total, content, nextId, links, cache, delivered, redisUp,
                   lastId, msg, k, from, out>>

GetIdRefused(e) ==
    /\ At(e, "get")
    /\ ~ redisUp[e]
    /\ Faults \cap {"select", "update"} # {}
    /\ GiveUp(e)
    /\ UNCHANGED <<tables, cache, delivered, redisUp, lastId, toCrawler, toIndex, ghost>>

\* Not in the code: from_page_id is overwritten by the id of a link.
BugReturn(e) ==
    /\ At(e, "return")
    /\ from' = [from EXCEPT ![e] = ret[e]]
    /\ IF k[e] = 0
       THEN k' = [k EXCEPT ![e] = 1] /\ Goto(e, Link(e, 1))
       ELSE Goto(e, "linkcount") /\ UNCHANGED k
    /\ UNCHANGED <<tables, cache, delivered, redisUp, lastId, msg, ret, out, ghost>>

Return(e) ==
    /\ At(e, "return")
    /\ IF k[e] = 0
       THEN /\ from' = [from EXCEPT ![e] = ret[e]]
            /\ k' = [k EXCEPT ![e] = 1]
            /\ Goto(e, Link(e, 1))
       ELSE /\ Goto(e, "linkcount")
            /\ UNCHANGED <<from, k>>
    /\ UNCHANGED <<tables, cache, delivered, redisUp, lastId, msg, ret, out, ghost>>

(***************************************************************************)
(* create_LinkRecord(from, ret): SELECT COUNT, then INSERT.  When either   *)
(* is refused it returns false, which run does not look at.                *)
(***************************************************************************)

\* Not in the code: the records of the link are not counted.
BugCountLink(e) ==
    /\ At(e, "linkcount")
    /\ Goto(e, "linkinsert")
    /\ UNCHANGED <<tables, cache, delivered, redisUp, lastId, local, out, ghost>>

CountLink(e) ==
    /\ At(e, "linkcount")
    /\ \/ /\ Goto(e, IF links[<<from[e], ret[e]>>] > 0 THEN "pushurl"
                     ELSE "linkinsert")
          /\ UNCHANGED ghost
       \/ /\ "select" \in Faults
          /\ Goto(e, "pushurl")
          /\ Hurt(e)
    /\ UNCHANGED <<tables, cache, delivered, redisUp, lastId, local, out>>

\* Not in the code: From and To are swapped.
BugInsertLink(e) ==
    /\ At(e, "linkinsert")
    /\ links' = IF {from[e], ret[e]} \subseteq {page[u] : u \in Urls}
                THEN [links EXCEPT ![<<ret[e], from[e]>>] = @ + 1]
                ELSE links
    /\ Goto(e, "pushurl")
    /\ UNCHANGED <<page, crawl, total, content, nextId, cache, delivered, redisUp,
                   lastId, local, out, ghost>>

\* The foreign keys refuse ids that no row has.
InsertLink(e) ==
    /\ At(e, "linkinsert")
    /\ \/ /\ {from[e], ret[e]} \subseteq {page[u] : u \in Urls}
          /\ links' = [links EXCEPT ![<<from[e], ret[e]>>] = @ + 1]
          /\ UNCHANGED ghost
       \/ /\ "insert" \in Faults \/ ~ {from[e], ret[e]} \subseteq {page[u] : u \in Urls}
          /\ Hurt(e)
          /\ UNCHANGED links
    /\ Goto(e, "pushurl")
    /\ UNCHANGED <<page, crawl, total, content, nextId, cache, delivered, redisUp,
                   lastId, local, out>>

PushUrl(e) ==
    /\ At(e, "pushurl")
    /\ toCrawler' = toCrawler \cup {Url(e)}
    /\ k' = [k EXCEPT ![e] = @ + 1]
    /\ Goto(e, Link(e, k[e] + 1))
    /\ UNCHANGED <<tables, cache, delivered, redisUp, lastId, msg, ret, from,
                   toIndex, finished, ghost>>

(***************************************************************************)
(* The rest of run.  The two UPDATEs are by id: an id that no row has      *)
(* changes nothing.                                                        *)
(***************************************************************************)
UpdateCount(e) ==
    /\ At(e, "count")
    /\ \/ /\ total' = [i \in Ids |-> IF i = from[e] THEN Len(msg[e].links) ELSE total[i]]
          /\ Goto(e, "content")
       \/ "update" \in Faults /\ Goto(e, "idle") /\ UNCHANGED total
    /\ UNCHANGED <<page, crawl, content, nextId, links, cache, delivered, redisUp,
                   lastId, local, out, ghost>>

RefuseShort(e) ==
    /\ At(e, "content")
    /\ msg[e].short
    /\ GiveUp(e)
    /\ UNCHANGED <<tables, cache, delivered, redisUp, lastId, toCrawler, toIndex, ghost>>

UpdateContent(e) ==
    /\ At(e, "content")
    /\ ~ msg[e].short
    /\ \/ /\ content' = [i \in Ids |-> IF i = from[e] THEN msg[e].url ELSE content[i]]
          /\ crawl' = [u \in Urls |-> IF page[u] = from[e] THEN 1 ELSE crawl[u]]
          /\ Goto(e, "push")
       \/ "update" \in Faults /\ Goto(e, "idle") /\ UNCHANGED <<content, crawl>>
    /\ UNCHANGED <<page, total, nextId, links, cache, delivered, redisUp, lastId,
                   local, out, ghost>>

PushPage(e) ==
    /\ At(e, "push")
    /\ toIndex' = toIndex \cup {[id |-> from[e], url |-> msg[e].url]}
    /\ finished' = finished \cup (IF hurt[e] THEN {} ELSE {msg[e]})
    /\ Goto(e, "idle")
    /\ UNCHANGED <<tables, cache, delivered, redisUp, lastId, local, toCrawler, ghost>>

Step(e) ==
    \/ RedisFails(e)
    \/ \E m \in Messages : Take(e, m)
    \/ Select(e) \/ CacheId(e) \/ CacheMeta(e)
    \/ Insert(e) \/ GetId(e) \/ GetIdFromTable(e) \/ GetIdRefused(e) \/ Return(e)
    \/ CountLink(e) \/ InsertLink(e) \/ PushUrl(e)
    \/ UpdateCount(e) \/ RefuseShort(e) \/ UpdateContent(e) \/ PushPage(e)

Next == (\E e \in Evaluators : Step(e)) \/ (\E u \in Urls : Expire(u))

Spec == Init /\ [][Next]_vars

-----------------------------------------------------------------------------
TypeOK ==
    /\ page \in [Urls -> Ids \cup {None}]
    /\ crawl \in [Urls -> {0, 1}]
    /\ total \in [Ids -> Nat]
    /\ content \in [Ids -> Urls \cup {None}]
    /\ nextId \in 1 .. MaxId + 1
    /\ links \in [Pairs -> Nat]
    /\ cache \in [Urls -> Ids \cup {None}]
    /\ delivered \in [Messages -> 0 .. MaxDeliveries]
    /\ redisUp \in [Evaluators -> BOOLEAN]
    /\ lastId \in [Evaluators -> {0} \cup Ids]
    /\ pc \in [Evaluators ->
                  {"idle", "select", "cache", "cachemeta", "insert", "get", "return",
                   "linkcount", "linkinsert", "pushurl", "count", "content", "push"}]
    /\ msg \in [Evaluators -> Messages \cup {None}]
    /\ k \in [Evaluators -> Nat]
    /\ ret \in [Evaluators -> {0} \cup Ids]
    /\ from \in [Evaluators -> {0} \cup Ids]
    /\ toCrawler \subseteq Urls
    /\ toIndex \subseteq [id : {0} \cup Ids, url : Urls]
    /\ finished \subseteq Messages
    /\ hurt \in [Evaluators -> BOOLEAN]
    /\ harm \in BOOLEAN

\* What redis holds for a url is the id MySQL has for it, whatever the races
\* and outages: no evaluator is ever misled by the cache.
CacheAgrees == \A u \in Urls : cache[u] # None => cache[u] = page[u]

\* The inductive invariant behind it: a url that was found known keeps its row
\* and its id until its SET is done.
Found(e) ==
    /\ pc[e] # "idle" => msg[e] \in Messages
    /\ pc[e] \in {"select", "cache"} => Url(e) \in Urls
    /\ pc[e] = "cache" => ret[e] # None /\ ret[e] = page[Url(e)]

CacheInv ==
    /\ page \in [Urls -> Ids \cup {None}]
    /\ cache \in [Urls -> Ids \cup {None}]
    /\ nextId \in Nat \ {0}
    /\ k \in [Evaluators -> Nat]
    /\ DOMAIN pc = Evaluators /\ DOMAIN ret = Evaluators /\ DOMAIN msg = Evaluators
    /\ \A e \in Evaluators : Found(e)
    /\ CacheAgrees

\* store_weblink2db returns the id of the row of its url, as its comment says
\* (evaluator.cpp:306-311, evaluator.h:51-58), unless redis or MySQL failed this
\* very evaluator in this very message: what hurts one does not mislead another.
StoreReturnsId ==
    \A e \in Evaluators :
        At(e, "return") /\ ~ hurt[e] => ret[e] = page[Url(e)]

\* A page that is finished unhurt goes to the index builder under its own id;
\* and as long as nobody was hurt every page does, and the row of that id has
\* its title and document and nobody else's.
PageGoesUnderItsId ==
    /\ \A m \in finished : [id |-> page[m.url], url |-> m.url] \in toIndex
    /\ ~ harm =>
        /\ \A p \in toIndex : p.id = page[p.url]
        /\ \A i \in Ids : content[i] # None => page[content[i]] = i

\* The deliveries of page u so far, numbered within each message.
Deliveries(u) ==
    {d \in Messages \X (1 .. MaxDeliveries) : d[1].url = u /\ d[2] <= delivered[d[1]]}

\* A link is recorded at most once for each evaluator, however often its page
\* is delivered and whatever fails: the check for an existing record
\* (evaluator.cpp:607) lets a second record pass only in a race.  Unless somebody
\* was hurt it takes as many deliveries of the page to race.
LinkRecordedOnce ==
    /\ \A p \in Pairs : links[p] <= Cardinality(Evaluators)
    /\ ~ harm => \A u \in Urls, i \in Ids :
           page[u] # None => links[<<page[u], i>>] <= Cardinality(Deliveries(u))

\* The i-th link of page m is in LinkTable and was sent to the crawler.
Linked(m, i) ==
    /\ page[m.links[i]] # None
    /\ links[<<page[m.url], page[m.links[i]]>>] > 0
    /\ m.links[i] \in toCrawler

\* A page that is finished unhurt has all of its links in LinkTable and sent to
\* the crawler.
FinishedIsLinked == \A m \in finished : \A i \in DOMAIN m.links : Linked(m, i)

\* What a finished page leaves behind is whole, in MySQL and in both queues.
FinishedIsComplete == PageGoesUnderItsId /\ FinishedIsLinked

\* As long as nobody was hurt, a page counts as crawled only when the crawler
\* has delivered it: the parameter crawl of store_weblink2db says whether the
\* url was crawled (evaluator.h:54-55).
CrawlTruthful ==
    ~ harm => \A u \in Urls : crawl[u] = 1 =>
        \E m \in Messages : m.url = u /\ delivered[m] > 0

-----------------------------------------------------------------------------
(***************************************************************************)
(* The inductive invariant behind these properties.                        *)
(***************************************************************************)
Storing == {"select", "cache", "cachemeta", "insert", "get", "return"}
Linking == {"linkcount", "linkinsert", "pushurl"}
Ending == {"count", "content", "push"}

\* Where e is in its message: at the page, at a link, or past the last link.
Position(e) ==
    /\ msg[e] \in Messages
    /\ delivered[msg[e]] > 0
    /\ pc[e] \in Storing \cup Linking \cup Ending
    /\ pc[e] \in Storing => k[e] \in 0 .. Len(msg[e].links)
    /\ pc[e] \in Linking => k[e] \in 1 .. Len(msg[e].links)
    /\ pc[e] \in Ending => k[e] = Len(msg[e].links) + 1

\* Between the SET of an id and its GET the key is there.
KeyIsThere(e) == pc[e] \in {"cachemeta", "get"} => cache[Url(e)] # None

\* The ids e works with are those of the rows, and the links behind it are done.
OnCourse(e) ==
    /\ pc[e] \in {"return"} \cup Linking => ret[e] # None /\ ret[e] = page[Url(e)]
    /\ k[e] > 0 => from[e] # None /\ from[e] = page[msg[e].url]
    /\ \A i \in 1 .. k[e] - 1 : Linked(msg[e], i)
    /\ pc[e] = "pushurl" => links[<<from[e], ret[e]>>] > 0

EvaluatorInv(e) ==
    pc[e] # "idle" => Position(e) /\ KeyIsThere(e) /\ (~ hurt[e] => OnCourse(e))

\* An id belongs to one url, was handed out, and only such ids are linked.
TableInv ==
    /\ links \in [Pairs -> Nat]
    /\ \A u \in Urls : page[u] # None => page[u] < nextId
    /\ \A u, v \in Urls : page[u] # None /\ page[u] = page[v] => u = v
    /\ \A p \in Pairs : links[p] > 0 =>
           p[1] \in {page[u] : u \in Urls} /\ p[2] \in {page[u] : u \in Urls}

\* What was passed on, and what holds as long as nobody was hurt.
ResultInv ==
    /\ finished \subseteq Messages
    /\ \A m \in finished : page[m.url] # None
    /\ FinishedIsComplete
    /\ ~ harm =>
        /\ \A e \in Evaluators : ~ hurt[e]
        /\ \A p \in toIndex : p.url \in Urls /\ p.id # None
        /\ \A i \in Ids : content[i] \in Urls \cup {None}
    /\ CrawlTruthful

Shape ==
    /\ delivered \in [Messages -> 0 .. MaxDeliveries]
    /\ DOMAIN hurt = Evaluators /\ DOMAIN from = Evaluators /\ DOMAIN lastId = Evaluators
    /\ DOMAIN crawl = Urls /\ DOMAIN content = Ids

RunInv ==
    /\ CacheInv
    /\ Shape
    /\ TableInv
    /\ \A e \in Evaluators : EvaluatorInv(e)
    /\ ResultInv

\* The evaluators that have counted no record p and are about to insert one.
AboutToInsert(p) == {e \in Evaluators : pc[e] = "linkinsert" /\ <<from[e], ret[e]>> = p}

\* The evaluators that are busy with page u.
BusyWith(u) == {e \in Evaluators : pc[e] # "idle" /\ msg[e].url = u}

LinkCountInv ==
    /\ \A p \in Pairs :
           links[p] + Cardinality(AboutToInsert(p)) <= Cardinality(Evaluators)
    /\ \A u \in Urls : Cardinality(BusyWith(u)) <= Cardinality(Deliveries(u))
    /\ ~ harm => \A u \in Urls, i \in Ids : page[u] # None =>
           links[<<page[u], i>>] + Cardinality(AboutToInsert(<<page[u], i>>))
               <= Cardinality(Deliveries(u))
=============================================================================
