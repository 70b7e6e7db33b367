# sEngine in TLA+

A verification development of sEngine, a search engine of separate programs
that talk through Kafka, MySQL, redis and the file system. TLA+ modules model
the parts with logic of their own and how they work together, TLC checks them on
small instances, and TLAPS proves the properties that matter most for every value
of the constants. Paths below are relative to the repository's root; file
names without a directory are under `src/`.

## The system

| part | state it keeps | operations | talks to |
|---|---|---|---|
| crawler (`src/se_crawler_dir`) | queues of 10 urls, set of crawled urls | hand urls to spiders, fetch, yield page and links | Kafka: word splitter, evaluator |
| word splitter (`src/wordSplit`) | two queues of 10 | cut pages and queries into words | Kafka: evaluator, searcher |
| evaluator (`src/evaluator`) | WebPage, LinkTable (MySQL), url to id (redis), three queues | store page and links, pass page and urls on | Kafka, MySQL, redis |
| index builder (`src/indexBuilder`) | InvertedIndexTable (MySQL), one index file per key | merge a page's postings into the lists of its keys | Kafka, MySQL, files |
| searcher (`src/searcher`) | queue of queries | read lists, intersect, look for the keywords in order, write the result | Kafka, MySQL, files, redis |
| web API (`src/webapi`) | - | answer from redis, or ask and poll redis for 3 s | Kafka, redis |
| connection pools (`src/database`) | flags, counter, next index, mutex | `get_conn`, `free_conn`, `init_mysql` | every C++ thread |
| C++ Kafka client (`src/utils/kafka-cpp`, `src/libs/kafka`) | offsets, assignment, send buffer, delivery reports | subscribe, poll, commit, hand over; send, report | worker threads |
| Python Kafka client (`src/utils/kafka_py`) | a queue for each topic | send and wait ten seconds; take the next record | crawler, word splitter, web API |
| configuration, `main.cpp` | `config`, `config_map` | parse, check, start a thread per module | everything |

A page goes crawler, word splitter, evaluator, index builder; its links go back
from the evaluator to the crawler. A query goes web API, word splitter,
searcher, and its answer through redis back to the web API. `main.cpp` starts one
thread per module; each C++ module then has a Kafka consumer thread, a producer
thread, a fixed number of worker threads (1 by default,
`toolchain/example_config.ini`), and its own pools (10 connections each by default).

What is hard in it, and what makes each part correct:

* **Pools.** The free counter is polled without the mutex that protects the flags,
  and redis contexts are replaced without it. Right: no connection is lent twice or
  lost, the counter is exact, no broken context is lent, `get_conn` returns.
* **Intake.** Offsets are committed automatically and do not wait for the workers,
  the queue's size is read without its mutex, the process may die. Right: the queue
  is bounded, no record is skipped, a crash loses no more than the memory held.
* **Sending.** One thread sends, another serves the delivery reports; both touch the
  object made for the record. Right: it is deleted once, the topic keeps the order
  without repeats, every record is answered for, a send that waits for room gets it.
* **Consumer group.** Processes come, go and stay away from poll. Right: one of them
  has the partition, and a module's subscription succeeds.
* **Evaluator.** Several evaluators, each in single statements without a
  transaction around them, on two databases that may refuse or fail. Right:
  `store_weblink2db` returns the id of its url, links are recorded once, the cache is
  true, a finished page is complete.
* **Index builder.** Up to 16 worker threads a page, several builders, files and
  table changed one after the other, crashes. Right: the table names whole files, a
  list has one version of each page and loses no page.
* **Searcher.** Iterators shared by all pages, unsigned arithmetic, random
  candidates; two pools, taken in both orders, and exceptions nobody catches. Right: a
  result has all keywords in order; a page that has them is found; connections
  come back; searchers do not block one another.
* **A query.** Five threads in four processes; the answer may come after the user
  was told 404, and stays for ever. Right: an answer is of the index as it was since the
  query was asked; what is sent is answered unless something gave it up.
* **The crawl.** A cycle of bounded queues through three processes. Right: the
  cycle does not block itself, a page is fetched once, nothing is lost unless something
  failed, and the crawl reaches what is linked.
* **Start.** Threads parse the same configuration at once, connections and brokers
  may be missing, statements fail half-way. Right: each module comes up or its
  process ends for a reason, and success is reported only of what is done.

`PROJECT.json` lists the components, the hazards with their lines, the source lines of
each definition, and the finding of the violating run.

## Modules

| module | models | extends |
|---|---|---|
| `ConnPoolAbstract` | what a pool promises: a connection is lent to one client, and again once handed back | |
| `ConnPool` | `mysql_pool::get_conn`, `free_conn` | |
| `RedisPool` | `redis_pool.h`: the same pool, with err, reconnect and AUTH | `ConnPool` |
| `ClientProperties` | `kafka_client.cpp`'s options, `Properties.h`, `ConsumerConfig.h`, `KafkaClient.h`: which guarantees a client is built with | |
| `Ingest` | Kafka consumer, `message_handler`, queue, worker threads; crash, rebalance | `ClientProperties` |
| `Producer` | the producer's thread, `KafkaProducer::send`, poll thread; librdkafka and broker | `ClientProperties` |
| `Evaluator` | `evaluator::run`, `check_url_in_db`, `store_weblink2db`, `create_LinkRecord` | |
| `IndexBuilder` | `builder::run`, `worker`, files and table; crash | |
| `PostingLists` | `InvertedIndex.h`: nodes, their order, the lists that can be on disk | |
| `PostingMerge` | the erase, merge and append loops of `worker` | `PostingLists` |
| `Search` | `searcher::run` for one query, `dfs_check_relationship` | `PostingLists` |
| `Searchers` | the searchers around it: `read_inv_index`, `output_result`, two pools | |
| `PyKafka` | `client.py`: Producer thread, KafkaProducer, topic | |
| `QueryService` | what a user is promised | |
| `Query` | `webapi.py`, `http_handler`, the searchers' inbox: a query from POST to answer | `Searchers`, `PyKafka` |
| `Crawl` | `csdnSpider.py`, `crawlerServer.py`, `crawl_handler`, the evaluator's links: the loop | `PyKafka` |
| `ConsumerGroup` | `subscribe`, `onRebalance`, `changeAssignment`; the broker's group | |
| `StartUp` | `main.cpp`, configuration, `DataBase`, `init_mysql`, the evaluators' connections | `ConsumerGroup` |
| `XProofs` | theorems about `X` and their proofs | `X`, TLAPS |
| `PoolProofs` | the same for `ConnPool` and `RedisPool` | `RedisPool`, TLAPS |
| `PostingProofs` | the same for `PostingMerge` and `Search` | both, TLAPS |
| `PyKafkaProofs` | the same for `Query`, its `Searchers`, and `Crawl` | both, TLAPS |
| `MCX` | instances of `X` for TLC | `X` |

`ConnPool` refines `ConnPoolAbstract`, `RedisPool` refines `ConnPool`, and `Query`
refines `QueryService`. The pools of `Searchers` are those of `ConnPool`
reduced to how many connections are free, with the unlocked poll and the scan that
keeps the mutex; `Merge` of `IndexBuilder` is what
`PostingMerge` computes; the search between `read_inv_index` and `output_result` is
`Search`; a page in `Crawl` passes the evaluator in one step, or is given up part-way,
which is what `Evaluator` has in detail. Definitions named `Bug...` are not part of a
specification: each is a definition of the module with a plausible mistake in it, and
the property that finds the mistake is named in `PROJECT.json`.

`PostingMerge` and `Search`, and `Query` and `Crawl`, stand on a common module, and
their proofs stand in one module together. That is why the specification of
`PostingMerge` is called `MergeSpec` and that of `Crawl` `CrawlSpec` (`MergeInit`,
`CrawlNext`, ... likewise).

### How state and actions correspond to the code

**ConnPool.** `conn_flag`, `conn_num_free` and `current_conn` are the members, `mtx` the
holder of the mutex, `id[c]` the output parameter. Steps are cut where another
thread can come between: `PollFree` is the loop without the mutex, `LockGet`, `Scan`
(one turn of the loop), `Found`, `Take`, `UnlockGet` the part with it; `LockFree`,
`Clear`, `UnlockFree` are `free_conn`. `Take` and `Clear` change flag and counter in
one step, because only the counter is read outside the mutex. A client holds one
connection at most; a thread that holds several is several clients. Keepers never
call `free_conn`: the evaluators, and `init_mysql`.

**RedisPool.** `context[i]` is what `conn_pool[i]` points to: without error, with err
set, freed, or not yet authenticated. The counter is `empty_num` in the code.
`free_conn` is cut at `redisFree`, `redisConnect` and AUTH.

**Ingest.** `position`, `hasStored` are the consumer's, `next` the record the loop
is at; `pending` is an asynchronous commit on its way. A blank record is one with an
empty value or with an error. `PollAfterRebalance` is what the group does to a
consumer that stayed away from `poll` too long: its commit is refused and the
partition is read again from the committed offset. `SizeLow` reads the size while
a pop is under way as anything: the read is a data race.

`ClientProperties` is what decides whether librdkafka commits, too: the options as
`kafka_client.cpp` gives them and as the constructors change them. `Poll` commits what
it returned before, and librdkafka what it returned now if the properties let it.
`Producer` takes from it that the broker does not let repeats and gaps in
(`Idempotent`).

**Producer.** `GetFront`, `Accept` or `Refuse`, and `Release` are `send` cut where the
poll thread can come between: the `unique_ptr` to the opaque is made,
`rd_kafka_produceva` takes the record or fails, the `unique_ptr` is released. `Serve`
is the delivery callback, which deletes the opaque. `Transmit`, `Write`, `Ack`,
`Reconnect` and `Expire` are librdkafka and the broker under the options that
`kafka_client.cpp` sets.

**Evaluator.** One action per SQL or redis command. Tables are functions of the url or
the id; an id is an AUTO_INCREMENT value, used up by refused INSERTs as well. `k` is
the link the loop is at, 0 for the page itself. `check_url_in_db`'s first look into
redis has no action of its own: it compares the type of a GET's answer with a status
and never succeeds. Each kind of failure is a member of `Faults`. What a failure did
to an evaluator in its message is in `hurt`, that any was hurt at all in `harm`, so
that the properties can say what they claim after it.

**IndexBuilder.** A list is the set of postings `[id, version, key]`, one per page:
the properties are about which pages a list has and in which version, not about
offsets. `path` is the table by row; `RowOf` maps a key to the row that MySQL's
collation selects. A file is absent, opened (truncated) or whole. `worker` is cut at
reading the file, opening the new one, closing it, and the SQL statement. Reading a
file that is being written may give any part of a list: every exception of the
archive is swallowed. `Point` and `Miss` are the two outcomes of an UPDATE or INSERT; a
refused one is only logged, and `missed` remembers it for the properties. Which
statements may be refused for reasons of MySQL's own is in `Faults`; the INSERT of a
second row for a key is refused always. Three more variables remember what overlapped:
`raced` the rows that workers of two builders were at at once, `twice` the pages that
two builders had at once, `reopened` the files whose name came up a second time.

**PostingMerge** has the same `Merge` loop by loop on sorted sequences, and shows
that they compute the sorted union, so that `IndexBuilder` may take it as an operator.

**Search.** One step per keyword read, per iteration of `dfs_check_relationship`,
and per page. The recursion is a level counter: a level that got `false` from the next
one returns `false` itself, so only the place of the last match has to be kept.
`randInt` is any choice of pages.

**Searchers.** `sc[s]` is where the thread is: waiting for a query, for the MySQL
connection of a word, at its SELECT and `free_conn`, then in `output_result` at the redis
and the MySQL connection, at the SELECTs of the pages, at the SET, at the `free_conn` of
a redis connection that failed and at the second one, and at the two `free_conn`. Where a
connection is got, `gc[s]` is where in `get_conn` it is: in the poll without the mutex
(`Poll`), about to lock (`TakeConn` if a connection is still free then, else
`ScanForEver`), or scanning, which keeps the mutex for good. `NoRow` is the return without
`free_conn`. `SelectRefused` is the catch that hands back what the thread has and throws a
string (`Throw`), `AuthRefused` the string that `free_conn` of redis throws: both end the
process. An answer is, for each word of the query, the version of the list it was made
from.

**PyKafka.** `message_que` of a Producer, what its KafkaProducer has in flight, and
the topic. `Send` and the end of `waiting` are the two halves of a turn of `run`;
`SendFails`, `SendTimeout` and `SendRaises` are what `future.get` and `send` may do
instead.

**QueryService, Query.** A request is at its first look into redis (`Hit`,
`PutRequest`) or polling (`Hit`, `MissAgain`). `HttpHandler` waits while the
splitter's queue is full. `since[q]` is the index when q was first asked, which is
what the promise is about.

**Crawl.** `urls` is the evaluator's `send2Crawler_queue` and the topic after it,
`SendToSpider`, `SendElsewhere` and `SenderRaises` are the branches of `url_sender`.
`parse` is cut at its `yield` of the item: `FetchAndParse` puts the page into the
Producer's queue, `NextUrl` is the loop over `que.get` after it. `SpiderEnds` is
scrapy's end of a crawl that has no request left.

**ConsumerGroup, StartUp.** `at[p][m]` is where the thread of module m in process p
is, from reading `config.ini` to polling; `config_req` and `Defaults` are the tables
of its keys. `OnRevoked` and `OnAssigned` are the two events of `onRebalance`,
`pendingEvent` the flag that `subscribe` waits for, `Join`, `SessionTimeout` and
`Kick` the broker. `End` is any end of a process: `exit(0)`, an exception no thread
catches, a kill; nothing is closed then and the broker learns of it by a time-out.

## Runs

Passing runs, and what they show:

| run | instance | properties |
|---|---|---|
| `ConnPool_all` | 3 clients (1 keeper), 3 connections | `TypeOK`, `PoolSafety` (`Exclusive`, `CounterExact`, `NoConnLost`), `ScanFinds`, `LendingSpec`, `GetConnReturns` |
| `RedisPool_safety` | 3 clients, 2 connections, password | `IdleHealthy`, `RedisExclusive`, `PoolSpec` |
| `Ingest_all` | 2 workers, 5 records (1 blank), mark 0, polls of up to 2, 1 crash, 1 rebalance | `TypeOK`, `QueueBound`, `NothingSkipped`, `LossBound`, `EventuallyHandled` |
| `Producer_all` | room for 2 records, 2 in flight, 4 records, 3 faults | `OpaqueOnce`, `LogOrdered`, `AllSettled` |
| `Evaluator_all` | 2 evaluators, 2 urls, a page with links delivered twice and its target once, expiring keys, every failure | `StoreReturnsId`, `FinishedIsComplete`, `LinkRecordedOnce`, `CrawlTruthful`, `CacheAgrees` |
| `IndexBuilder_all` | 2 builders, 3 messages of 2 pages, 3 keys in 2 rows, 2 seconds, batches of 2, refused statements, 1 crash | `PathWhole`, `IndexCurrent`, `ListsTruthful`, `NothingForgotten` |
| `PostingMerge_all` | every pair of lists over 3 pages and 2 offsets | `MergeIsSortedUnion`, `PageSetMatches` |
| `Search_all` | every index of 3 keys, 2 pages, 3 offsets, lists of up to 2; 5 queries | `SearchSound`, `PageAligned`, `OnceFound` |
| `Query_all` | 2 requests, 2 queries, a word that gets indexed and one that never is, 2 searchers that poll and scan, 2 connections a pool, queues of 1, one fault | `ConnsAccounted`, `NoCircularWait`, `ServiceSpec`, `QueriesAnswered` |
| `Crawl_all` | 4 pages that link in circles, 3 urls of other kinds, queues of 1, 2 faults | `FetchedOnce`, `NothingAstray`, `CrawlGoesOn` |
| `StartUp_all` | 2 processes, 3 pairs of command lines, 7 files, 3 faults | `OneOwner`, `InitDone`, `ModulesComeUp` |

`ConnPool_all` has no more clients than connections, which `GetConnReturns` and
`ScanFinds` need. The safety of contended pools is checked in `RedisPool_safety`, whose
specification is a pool of `ConnPool` with 3 clients on 2 connections, and is proved for
any number of clients.

The type invariants of the modules whose run does not list one state what the
variables may hold; they are true of the same instances.

One run finds a disagreement between the code and what its comment says: in
`ConnPool_wedge` a second client passes the unlocked poll and scans for ever with the
mutex, while `mysql_pool.h:98` says that a connection is returned. With the defaults
the index builder reaches it alone: a batch has up to 16 worker threads, the pool 10
connections.

### Met while modelling

Where the code does less than one would like, the properties say so in their
conditions. Each line names where.

Pools and start:

* `init_mysql` says nothing of a missing SQL file and reports success (`DataBase.cpp:106`,
  `main.cpp:131`); the rollback after an error takes nothing back, since MySQL commits a
  CREATE at once. `InitDone` is about the statements of a file that is there.
* A key with a default that is not in the file at all throws and ends the process
  (`configParser.cpp:116`); the default is for a key that is there and empty.
* The threads of run-all parse into the same globals without a lock. `Race` has what may
  come of it, and `ModulesComeUp` excepts it.
* A pool smaller than `evaluator_num` is waited on for ever (`evaluator.cpp:76`), by `Short`.
* `do_run_crawler` starts `webapi.py` (`main.cpp:70`; `main.cpp:75` is its log line): `ScriptOf`.

Kafka:

* A record is committed before it is handled; what a crash costs is `LossBound`'s.
* A commit that fails puts its offsets back and increments them once more
  (`KafkaConsumer.h:782-789`); with one partition and polls in between nothing comes of it.
* The Python Producer does not repeat what failed or was not answered in ten seconds
  (`client.py:31`), and ends when `send` raises: `dropped`, `dead`.

Evaluator:

* An INSERT refused because another evaluator was faster: `LAST_INSERT_ID` is of another
  url (`evaluator.cpp:328`, against the comment at 307-310). Redis down after the SELECT
  of `check_url_in_db` (`evaluator.cpp:263`): a known url counts as new, likewise.
  `StoreReturnsId` claims the id for whoever was not hurt by either (`hurt`).
* Redis down before the GET (`evaluator.cpp:410`): the branch for links is taken for
  crawled, and a link's target gets Crawl = 1. `CrawlTruthful` claims the mark as long as
  nobody was hurt (`harm`).
* Two evaluators that both count no record of a link both insert it
  (`evaluator.cpp:607`; LinkTable has no unique index). `LinkRecordedOnce` bounds the records
  by the evaluators, and without failures by the deliveries of the page. In the run two
  evaluators have the page at once, and a link gets two records.

Index builder:

* Two builders with a common key read the same list, and the later UPDATE drops the
  other's page (`indexBuilder.cpp:279-354`). The run has two, and it happens: `IndexCurrent`
  and `NothingForgotten` except the row where it did (`raced`), no other.
* Two files of a key in one second have one name (`indexBuilder.cpp:488`, which 334 takes
  for unique), and the second `ofstream` truncates what the table may name. One builder
  with two pages does it too. The properties except that file (`PathWhole`) or its row
  from then on (`reopened`).
* Two new keys that the collation takes for one row: the second INSERT is refused
  (`indexBuilder.cpp:366`) and the key's postings are in no list. The run has such
  keys; `missed` says which postings were refused, and `IndexCurrent` excepts those alone.

Searcher, web API:

* The search tries one place of each keyword (`searcher.cpp:302`, which 222 calls brute
  force): a page is missed whose first place does not fit. `OnceFound` is about pages that
  have each keyword once.
* `randInt` makes a candidate of a page without the keyword (`searcher.cpp:170`), and a
  keyword that a query repeats shortens the chain that is looked for
  (`searcher.cpp:148`, `215`). `Search_all` has both: `SearchSound` claims the whole
  chain for queries without repeats and the shortened one for the others.
* A word without a row costs a MySQL connection (`searcher.cpp:374`), and `ConnsAccounted`
  counts exactly these. It leads to two states: after as many such words as the pool has
  connections, every searcher waits for ever; and before, once fewer are left than searchers,
  two may pass the poll at `mysql_pool.h:101` on the last one: the second scans for ever
  with the mutex, and `free_conn` of the first waits for it. `NoCircularWait` and
  `QueriesAnswered` name both, and no other.
* A refused SELECT throws a string past `catch (std::exception &)` and ends the process
  (`searcher.cpp:252`): `running`. So does a refused AUTH after a reconnect
  (`redis_pool.h:163`).
* An answer never expires (`webapi.py:72`). With two searchers an older one may overwrite
  a newer. `ServiceSpec` promises the index since the query was first asked, no more.

Crawler:

* The first page may be fetched twice: `start_requests` does not put it into
  `crawled_set` (`csdnSpider.py:36`). `FetchedOnce` says so.
* `url_sender` catches TypeError where the split raises IndexError
  (`crawlerServer.py:73`): the consumer ends, by `SenderRaises`.
* A page that is not fetched, or is no text, is followed by no request: the spider ends
  (`csdnSpider.py:82`). The time-out of the first `get` is 10000 s, where the comment
  has 10 (`csdnSpider.py:36`).

### Bounds

* Pools: two connections are the fewest where a scan passes a taken one and wraps
  around (`RedisPool_safety`); three clients put one in the poll while two hold
  connections. `ConnPool_all` has a third connection for the keeper.
* `MaxMessages`, `HighWater`: `message_handler` waits while there are more than 2 messages
  (`evaluator.cpp:164`), the mark is a constant of the model. With mark 0 the queue and both
  workers hold three records, and a crash may cost three; four that are not blank are
  one more, so that a queue without its bound shows in `LossBound`. Two records a poll
  make the commit lag behind by more than one. The proofs hold for every mark.
* `MaxCrashes`, `MaxRebalances`: one of each, at any moment. `LossBound` counts
  crashes and is linear in them.
* `QueueMax`, `InFlightMax`: two are the fewest with an order to lose, four records make a
  send wait for room with two sent and two behind it. The proofs hold for any number in
  flight that the idempotent producer allows (`KAFKA_IDEMP_MAX_INFLIGHT`).
* `MaxDeliveries` is 1 where the messages themselves repeat a page or a url; redelivery is
  a repeated message. In `Evaluator_all` the page with links comes twice, with two links to
  one page and with one, so that two evaluators count and insert the same link three times.
* `MaxId`: an evaluator stops at an INSERT when the values are used up, which limits
  how many refused INSERTs a run has: three are one more than the two urls.
* `MaxTime`: in two seconds the files of a key get one name or two. Two builders and three
  messages have every overlap at a row: of two pages, of two versions of one page, and of
  two keys that are one row.
* `BatchSize` is 16 in the code and 2 where batches have to be joined in the midst of a page.
* `MaxList`: two postings a list show before, near and far places and both pages.
* `Wrap` is 2^32 in the code; any number above the largest offset plus `MatchDelta`
  gives the same comparisons (`Far`).
* `MaxFaults`, `MaxTrouble`, `MaxVersion`: one to three failures of any kind at any moment.
  In `Query` they share one budget. Two versions of a list tell an older answer from a
  newer one. `Polls` is 30 in the code; one poll has every order of answer and 404. A send
  that is not answered in ten seconds is in `Crawl_all` only.
* `MysqlConns`, `RedisConns` of `Query_all`: one for each searcher, so that one word without a
  row leaves one for both, and two such words none.
* Queues of 1 (`QueMaxSize`, `UrlQueSize`; 10 in the code) are full soonest; a cycle that can
  block itself does so there.
* `MaxRecords` of `StartUp`: a record keeps a consumer away from `poll` once, which is all
  the group sees of it. Two processes are the fewest with a partition to move.

`CHECK_DEADLOCK FALSE` is used where the system may stop: when the messages are
consumed, when the loops are over, or (`RedisPool_safety`) when every connection is with
a client whose `free_conn` threw.

### Fairness

`FairSpec` of `ConnPool`: each client's steps are weakly fair, since threads are
scheduled and a client that is no keeper hands its connection back. A mutex promises
no order, so lock steps get no strong fairness, and the run claims only what holds
without it: a client past the lock returns. `Ingest`: the consumer thread, a poll that
fetches something, and each worker are weakly fair; producing, committing, crashes and
rebalances are not. `PostingMerge` and `Search` are one thread: weak fairness of the
next step. `Producer`, `Query`, `Crawl` and `StartUp` have weak fairness of `Progress`
(`CrawlProgress`), the steps that threads, broker and databases take by themselves:
the machines do not stand still while one is possible. No thread can repeat a step for
ever there (records, requests, pages and faults are finite, and polling with nothing
to do changes nothing), so each of them gets its turn. What users, the index builder
and faults do is under no fairness.

## What is proved

For every value of the constants that the modules' assumptions allow:

| theorem | says |
|---|---|
| `PoolProofs!TypeCorrect`, `PoolSafe` | `TypeOK`; `PoolSafety` |
| `PoolProofs!EnoughConnections` | `ScanFinds` |
| `PoolProofs!PoolImplementsLending` | `ConnPool` implements `ConnPoolAbstract` |
| `PoolProofs!RedisImplementsPool` | `RedisPool` implements `ConnPool` |
| `PoolProofs!NeverLendsBroken`, `RedisExclusion` | `IdleHealthy`, `RedisExclusive` |
| `IngestProofs!IngestTypes`, `QueueBounded`, `CommitSkipsNothing` | types and the order of the offsets; `QueueBound`; `NothingSkipped` |
| `IngestProofs!LossIsBounded` | `LossBound`: what any number of crashes costs |
| `ProducerProofs!OpaqueIsDeletedOnce`, `TopicIsOrdered` | `OpaqueOnce`; `LogOrdered` |
| `EvaluatorProofs!CacheIsTrue`, `IdIsReturned` | `CacheAgrees`; `StoreReturnsId` |
| `EvaluatorProofs!FinishedPagesAreComplete`, `CrawlIsTrue` | `FinishedIsComplete`; `CrawlTruthful` |
| `EvaluatorProofs!LinksAreRecordedOnce` | `LinkRecordedOnce` |
| `IndexBuilderProofs!PathIsWhole`, `ListsAreTrue` | `PathWhole`; `ListsTruthful`: for any number of builders, whatever overlaps |
| `IndexBuilderProofs!IndexIsCurrent`, `NoPageForgotten` | `IndexCurrent`; `NothingForgotten`, likewise |
| `PostingProofs!MergeMerges` | `MergeIsSortedUnion` |
| `PostingProofs!PageSetIsRight` | the safety half of `PageSetMatches` |
| `PostingProofs!PagesAreAligned`, `SearchIsSound` | `PageAligned`; `SearchSound`, below the wrap of the offsets |
| `PyKafkaProofs!ConnsAreAccounted`, `SearchersGoOn` | `ConnsAccounted`; `NoCircularWait` |
| `PyKafkaProofs!QueryImplementsService` | `Query` implements `QueryService` |
| `PyKafkaProofs!FetchesAreBounded`, `NothingGoesAstray` | `FetchedOnce`; `NothingAstray` |
| `StartUpProofs!PartitionHasOneOwner`, `InitIsDone` | `OneOwner`; `InitDone` |

These are all the safety invariants, action properties and refinements of the passing
runs. The assumptions are those named in the modules (`ConnPoolAssumption`, ...):
finite sets of threads, natural numbers as bounds, and that None is none of the
others, and no function either where it stands beside functions. TLC evaluates them in
every run. One condition is in a theorem itself, because the code does not have the
property without it: `Far` (`SearchIsSound`), that no offset comes within `MatchDelta` (33
in the code) of 2^32, where the unsigned difference at `searcher.cpp:297` wraps and takes a
far place for a near one. The offset is a place in the text of one page, which is far
below that. All other exceptions are events that the properties name (two builders at
a row, a file opened again, lost connections, an ended process), and the theorems are
about every behaviour, those with such events included.

*ConnPool.* No safety property is inductive by itself. `IInv` adds that whoever is in a
critical section is the holder of `mtx` (`InCritical`), that a flag found clear stays
clear until it is set (`FoundClear`), and that a holder's flag is set
(`HolderFlag`). `CounterExact` then needs the cardinality of the set of clear flags
to go down by one in `Take` (which `FoundClear` justifies) and up by one in `Clear`
(`HolderFlag`); that the counter stays in 0 .. N follows from it. `EnoughConnections`
counts: the scanning client holds nothing, so the holders are fewer than N and
`NoConnLost` leaves a clear flag. The refinement maps a client to its connection while
it holds one; `Take` is `Lend`, `Clear` is `HandBack`, all else stutters.

*RedisPool.* `RedisIInv` adds that what is handed back has no error
(`HandsBackHealthy`) and, against two clients at one slot, that the flag stays set
while the context is replaced (`RedisHolderFlag`). Under the mapping the reconnecting
client is still using its connection, so each step is a step of `ConnPool` or a
stutter.

*Ingest.* `IInv` adds where a record in hand is (`RecordInHand`, `WorkInHand`), that
room was seen before a push or a pop is under way which makes it (`RoomToPush`,
with `MutexHeld`), and that every record before `next` is blank, done, lost or in
memory (`HandedOver`). `NothingSkipped` follows from that and `pending <= next`.

`LossInv` is `LossBound` as the number of crashes, each costing the mark, one record
over it and one for each worker: a crash adds what was committed and only in memory,
which is what the queue and the workers hold, and `RoomToPush` bounds the queue.

*Evaluator.* `CacheInv` adds to `CacheAgrees` that between the SELECT and the SET the
found id is that of the row (`Found`): rows are never changed or deleted by the
INSERTs of the others, which the unique index guarantees. `RunInv` follows an
evaluator through its message: at each place of `run` it says, for who is unhurt, that
the id it returns or works with is that of its url's row (`OnCourse`), that the key it
will GET was SET (`KeyIsThere`), and that the links before the one it is at are
recorded and sent (`Linked`). `TableInv` is what the others cannot take away: ids
belong to one url for good and only ids of rows are linked. `FinishedIsComplete` is
`OnCourse` at the last link. `LinkCountInv` counts those who have seen no record of a
link and are about to insert one (`AboutToInsert`) with the records there are: an
evaluator joins that set only when there is no record, so that records and set
together never outnumber the evaluators; and, unhurt, not the deliveries of the page
either, since each delivery has one evaluator (`BusyWith`).

*IndexBuilder.* `FilesInv` says that a path leads to a file that is of its row and, if it
was opened once, whole (`GoodFile`), that whole files and lists in memory of a row without
a reopened file have one version of a page and only what messages said (`Good`), and that
no two workers write one file that was opened once: such a file is never written again
once it is whole. A worker that opens a file that is there puts it into `reopened` in the same
step, so what the others knew of it is claimed no more. `CurrentInv` is about the rows
that are undisturbed. Their workers are of one builder and one page, since a second
builder that comes to a busy row puts it into `raced` (`OverlapInv`); for each of them it
compares what was read or is about to be written with what the row leads to now: they
differ in the postings of the worker's own page only (`Merging`). Workers of one page
have different keys, but may share a row by collation; the comparison holds for these as
well, because none of them changes other pages' postings. `Reached` then collects the keys
that a builder is through with (`HasPage`: in its version, or in any when another builder
had the page too), and its last one makes `IndexCurrent`; `NothingForgotten` is the step
where `path` changes.

*PostingMerge.* `MergeInv`: the list stays sorted; while erasing, what was passed is
not the page's and what is missing was (`EraseInv`); while merging, the list is the
others' postings with the new ones before `it_pre` (`MergedInv`), and all that was
passed comes before all that is not merged yet (`Behind`), which keeps an insertion
sorted although the iterator stays at the inserted element. `PageSetInv` takes
`page_set` along.

*Search.* `AlignInv` says where the shared iterators are: between pages exactly behind
the pages looked at (`BetweenPages`), within a page behind the earlier ones and not
beyond it (`OnPage`), wherever the recursion gave the page up. It needs the lists to
be sorted and of candidates only (`ListsInv`), and the candidates to be taken in
ascending order. `FoundInv` is that the keywords found so far are a chain up to
`base_offset` (`ChainTo`); a page enters the result when the chain has all keywords
that were counted, and `ReadInv` says that those are all of the query's when none is
repeated.

*Producer.* `ProducerInv` says that memory is one line: reports, what is sent, the
buffer, the record in hand and the input queue are each increasing, and whatever is
in one is less than whatever is in a later one (`InOrder`). So no record is in two
places, which is what makes a deletion the only one (`LiveUndeleted`). The topic is
behind everything that is not yet written (`LogBehind`), and the first unwritten record
of the flight is the least of those: the log stays increasing. The proof moves
one record at a time along this line (`ChainMoves`, a lemma about sets of numbers).

*Searchers.* `PoolInv` adds to `ConnsAccounted` which connections a searcher holds at
each place of its thread (`HoldsByPlace`), so that the place a step leaves and the
place it enters tell what became of a connection, and that one scans for ever only where
fewer connections are left than searchers (`ScansByPlace`): it found none free, and
the holders are fewer than the searchers, because it is none of them. With as many
connections as searchers nobody therefore scans for a redis connection, nor for a MySQL
connection but by the exception. Without a scan `NoCircularWait` counts: a searcher that
waits for redis has no redis connection, so one is free; and if those at work all wait for
MySQL, nobody has a MySQL connection, so that all are free or lost.

*Query.* `ServiceInv` says that only queries that were asked travel (`OnlyAsked`), in
whichever queue or thread; that the lists a searcher has read are no older than the
index when its query was first asked, and a word it passed without a list had none
then (`ReadSince`): the index only grows, and `since` is taken before the query is
sent. Under the mapping, which leaves the variables of the promise as they are, the
SET in redis is `Answer`, and needs it.

*Crawl.* `FetchInv` balances: a page was fetched, or is about to be, no more often
than start_requests took it (`first`) plus once if it is in `crawledSet`; `NextUrl`
adds to both sides, and it adds only a url that is not in the set. `AstrayInv` says of every
page that was passed on what `NothingAstray` says of the fetched ones: each step moves
a message from one place of the loop to the next one, and whatever could drop it makes
`Stopped` true, for good.

*StartUp.* `GroupInv`: who reads and does not know of an expulsion is the owner the
broker has, and a `Join` gives the partition away only when every member has been told
to join again, so that none reads. `InitInv`: the tables have all the statements
before the one that init-mysql is at.

Only model-checked: liveness under fairness (`GetConnReturns`, `EventuallyHandled`,
`PageSetMatches`, `OnceFound`, `QueriesAnswered`, `CrawlGoesOn`, `AllSettled`,
`ModulesComeUp`), because the prover has no fairness or ENABLED; and the type
invariants of the modules whose runs list none.

The library's induction theorems take an operator, which the provers cannot supply.
Where `PostingProofs` needs induction it takes the least number of a set instead
(`Least`, from `WFMin` of WellFoundedInduction): the first page that is left, or the
smallest list that cannot be sorted. `SortedSeq` is the sorted sequence that there is,
by CHOOSE, and not a function that sorts, for the same reason; that there is one, of
all the nodes, is `SortedExists` and `SortedSeqHasAll`.

## What is not modelled

* Of the vendored Kafka library what sEngine never reaches: `close`, `flush`, `purge`,
  `syncSend`, transactions, `assign`, `seek`, `pause`, the cooperative protocol, `AdminClient`,
  `KafkaRecoverableProducer`, and the vendored `bundle`. The workers loop for ever, so no
  client is ever closed.
* Loss of a MySQL connection. The code has no reconnect; every later statement fails, which
  is a run of refused statements to the models.
* In `Evaluator`, crashes of the process; `Ingest` has them for the messages and
  `IndexBuilder` for the index. The evaluator's statements are those a
  redelivered page repeats, which the run has.
* In `Query` and `Crawl`, restarts of the Python processes and the offsets of their
  consumers: a record is delivered once there. The evaluator is one step in `Crawl`, without
  its queue, whose wait `Ingest` shows to end.
* Malformed requests, messages and the syntax of `config.ini`: each is answered, logged or
  thrown before any state changes.
* How often a page has a keyword, which orders the output.
* Postings of keys a page no longer has after it was crawled again: the code never
  removes them (a comment at `indexBuilder.cpp:436` plans to), and `ListsTruthful`
  is about single lists.
* The UPDATE of WebPage that `worker` builds at `indexBuilder.cpp:428` and never executes.
* What a write in flight may still do after the producer's process was killed.
* Logger, encodings (`substr_utf`, base64), jieba's and scrapy's own work.

## Plan

Done, in this order: `ConnPool` with `ConnPoolAbstract` and `RedisPool`; `Ingest`;
`Evaluator`; `IndexBuilder` and `PostingMerge`; `Search`; the proofs above; then
`Searchers`, `PyKafka`, `Query` with `QueryService`; `Crawl`; `Producer`;
`ConsumerGroup` and `StartUp`, and the proofs about them.

Next theorems, the most useful first: the safety half of `OnceFound` (a finished
search has every page with each keyword once and in order); that `Merge` of
`IndexBuilder` is what `MergeMerges` says, with the offsets left out; the type
invariants of `Search` and `Query` as theorems of their own.

Next modules: `substr_utf` and base64 as operators against reference definitions; a
`Pipeline` of `Ingest` twice, with the evaluator's queue as the second's input, for what
the two lose together.
