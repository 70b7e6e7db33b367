------------------------------- MODULE Crawl --------------------------------
(***************************************************************************)
(* The crawl as a loop: the spider (csdnSpider.py) fetches one page after  *)
(* the other, the page goes through the word splitter (crawl_handler) to   *)
(* the evaluator, and its links come back to the crawler's url_sender      *)
(* (crawlerServer.py), which hands them to the spider that wants them.     *)
(***************************************************************************)
EXTENDS PyKafka, SequencesExt

CONSTANTS
    Urls,
    Kind,          \* Kind[u]: what url_sender makes of u, see below
    Links,         \* Links[u]: url_list of the page at u
    Seeds,         \* the urls that are in the topic Evaluator2Crawler at first
    CrawlFaults,   \* a subset of {"patience", "download", "evaluator"}
    UrlQueSize,    \* maxsize of csdn.que
    NoPage

\* "csdn": the host begins with the spider's domain; "other": another host,
\* which cnblog's empty domain accepts; "relative": does not begin with http;
\* "nocolon": begins with http and has no colon.
\* "patience": no url comes before the first get's timeout; "download": a page
\* is not fetched, or is no text; "evaluator": it gives a page up among its links.
ASSUME CrawlAssumption ==
    /\ {"Crawler2WordSplit", "Crawler2Evaluator"} \subseteq Topics
    /\ Kind \in [Urls -> {"csdn", "other", "relative", "nocolon"}]
    /\ Links \in [Urls -> Seq(Urls)]
    /\ Seeds \in Seq(Urls)
    /\ CrawlFaults \subseteq {"patience", "download", "evaluator"}
    /\ UrlQueSize \in Nat \ {0}
    /\ NoPage \notin Urls

VARIABLES
    urls,        \* send2Crawler_queue and the topic Evaluator2Crawler
    que,         \* csdn.que
    otherQue,    \* cnblog.que, which no spider reads
    consumer,    \* url_consumer runs
    spider,      \* "start", "fetch", "wait" or "ended"
    page,        \* the page the spider fetches
    crawledSet,  \* crawled_set
    first,       \* the url of start_requests
    fetched,     \* how often each page was fetched
    passedOn,    \* pages all of whose links the evaluator passed on
    gaveUp       \* the evaluator gave a page up

crawlVars == <<urls, que, otherQue, consumer, spider, page, crawledSet, first,
               fetched, passedOn, gaveUp>>
loopVars == <<kafkaVars, crawlVars>>

CrawlInit ==
    /\ KafkaInit
    /\ urls = Seeds
    /\ que = <<>> /\ otherQue = <<>>
    /\ consumer = TRUE
    /\ spider = "start" /\ page = NoPage /\ first = NoPage
    /\ crawledSet = {}
    /\ fetched = [u \in Urls |-> 0]
    /\ passedOn = {} /\ gaveUp = FALSE

CrawlFault(kind) == kind \in CrawlFaults /\ Fault

(***************************************************************************)
(* url_sender, the handler of the crawler's consumer.                      *)
(***************************************************************************)

\* Not in the code: put does not wait, and drops the url when the queue is full.
BugSendToSpider ==
    /\ consumer /\ urls # <<>>
    /\ Kind[Head(urls)] = "csdn"
    /\ que' = IF Len(que) < UrlQueSize THEN Append(que, Head(urls)) ELSE que
    /\ urls' = Tail(urls)
    /\ UNCHANGED <<kafkaVars, otherQue, consumer, spider, page, crawledSet, first,
                   fetched, passedOn, gaveUp>>

\* It waits while the queue is full.
SendToSpider ==
    /\ consumer /\ urls # <<>>
    /\ Kind[Head(urls)] = "csdn"
    /\ Len(que) < UrlQueSize
    /\ que' = Append(que, Head(urls))
    /\ urls' = Tail(urls)
    /\ UNCHANGED <<kafkaVars, otherQue, consumer, spider, page, crawledSet, first,
                   fetched, passedOn, gaveUp>>

SendElsewhere ==
    /\ consumer /\ urls # <<>>
    /\ \/ Kind[Head(urls)] = "other" /\ otherQue' = Append(otherQue, Head(urls))
       \/ Kind[Head(urls)] = "relative" /\ UNCHANGED otherQue
    /\ urls' = Tail(urls)
    /\ UNCHANGED <<kafkaVars, que, consumer, spider, page, crawledSet, first,
                   fetched, passedOn, gaveUp>>

\* split(":")[1] raises an IndexError; what is caught is TypeError.
SenderRaises ==
    /\ consumer /\ urls # <<>>
    /\ Kind[Head(urls)] = "nocolon"
    /\ consumer' = FALSE
    /\ urls' = Tail(urls)
    /\ UNCHANGED <<kafkaVars, que, otherQue, spider, page, crawledSet, first,
                   fetched, passedOn, gaveUp>>

(***************************************************************************)
(* The spider.  Its only Request at a time comes out of start_requests or  *)
(* of the parse of the page before: without one it ends, the reactor stops *)
(* and start_crawlers returns.                                             *)
(***************************************************************************)
StartRequests ==
    /\ spider = "start" /\ que # <<>>
    /\ page' = Head(que) /\ first' = Head(que)
    /\ que' = Tail(que)
    /\ spider' = "fetch"
    /\ UNCHANGED <<kafkaVars, urls, otherQue, consumer, crawledSet, fetched,
                   passedOn, gaveUp>>

\* Not in the code: the next url is waited for before the item is yielded.
BugFetchAndParse ==
    /\ spider = "fetch" /\ que # <<>>
    /\ fetched' = [fetched EXCEPT ![page] = @ + 1]
    /\ Put("Crawler2WordSplit", page)
    /\ spider' = "wait"
    /\ UNCHANGED <<flight, waiting, dead, topic, dropped, faults, urls, que, otherQue,
                   consumer, page, crawledSet, first, passedOn, gaveUp>>

\* The first half of parse: the item goes through the pipeline at once, which
\* puts it into message_que.
FetchAndParse ==
    /\ spider = "fetch"
    /\ fetched' = [fetched EXCEPT ![page] = @ + 1]
    /\ Put("Crawler2WordSplit", page)
    /\ spider' = "wait"
    /\ UNCHANGED <<flight, waiting, dead, topic, dropped, faults, urls, que, otherQue,
                   consumer, page, crawledSet, first, passedOn, gaveUp>>

SpiderEnds ==
    /\ \/ spider = "start" /\ que = <<>> /\ CrawlFault("patience")
       \/ spider = "fetch" /\ CrawlFault("download")
    /\ spider' = "ended"
    /\ UNCHANGED <<queue, flight, waiting, dead, topic, dropped, urls, que, otherQue,
                   consumer, page, crawledSet, first, fetched, passedOn, gaveUp>>

\* Not in the code: the url is not remembered.
BugNextUrl ==
    /\ spider = "wait" /\ que # <<>>
    /\ que' = Tail(que)
    /\ IF Head(que) \in crawledSet
       THEN UNCHANGED <<spider, page>>
       ELSE spider' = "fetch" /\ page' = Head(que)
    /\ UNCHANGED <<kafkaVars, urls, otherQue, consumer, crawledSet, first, fetched,
                   passedOn, gaveUp>>

\* The second half: urls are taken, waiting for them, until one is new.
NextUrl ==
    /\ spider = "wait" /\ que # <<>>
    /\ que' = Tail(que)
    /\ IF Head(que) \in crawledSet
       THEN UNCHANGED <<spider, page, crawledSet>>
       ELSE /\ spider' = "fetch"
            /\ page' = Head(que)
            /\ crawledSet' = crawledSet \cup {Head(que)}
    /\ UNCHANGED <<kafkaVars, urls, otherQue, consumer, first, fetched, passedOn, gaveUp>>

(***************************************************************************)
(* The word splitter's crawl_handler, and the evaluator, which passes the  *)
(* links of a page on one by one (module Evaluator).                       *)
(***************************************************************************)
CrawlHandler ==
    /\ Len(queue["Crawler2Evaluator"]) < QueMaxSize
    /\ Consume("Crawler2WordSplit")
    /\ Put("Crawler2Evaluator", Head(topic["Crawler2WordSplit"]))
    /\ UNCHANGED <<flight, waiting, dead, dropped, faults, crawlVars>>

Evaluate ==
    LET p == Head(topic["Crawler2Evaluator"])
    IN  /\ Consume("Crawler2Evaluator")
        /\ urls' = urls \o Links[p]
        /\ passedOn' = passedOn \cup {p}
        /\ UNCHANGED <<queue, flight, waiting, dead, dropped, faults, que, otherQue,
                       consumer, spider, page, crawledSet, first, fetched, gaveUp>>

EvaluatorGivesUp ==
    LET p == Head(topic["Crawler2Evaluator"])
    IN  /\ Consume("Crawler2Evaluator")
        /\ CrawlFault("evaluator")
        /\ \E i \in 0 .. Len(Links[p]) : urls' = urls \o SubSeq(Links[p], 1, i)
        /\ gaveUp' = TRUE
        /\ UNCHANGED <<queue, flight, waiting, dead, dropped, que, otherQue, consumer,
                       spider, page, crawledSet, first, fetched, passedOn>>

CrawlProgress ==
    \/ SendToSpider \/ SendElsewhere \/ SenderRaises
    \/ StartRequests \/ FetchAndParse \/ NextUrl
    \/ CrawlHandler \/ Evaluate
    \/ (\E t \in Topics : Send(t) \/ Arrive(t)) /\ UNCHANGED crawlVars

CrawlNext ==
    \/ CrawlProgress
    \/ SpiderEnds \/ EvaluatorGivesUp
    \/ (\E t \in Topics : Trip(t)) /\ UNCHANGED crawlVars

CrawlSpec == CrawlInit /\ [][CrawlNext]_loopVars

\* The machine does not stand still while a thread can run.  Pages are finite
\* and fetched twice at most, so no thread can run for ever.
FairCrawlSpec == CrawlSpec /\ WF_loopVars(CrawlProgress)

-----------------------------------------------------------------------------
\* A page is fetched once, however often it is linked to; the first page twice,
\* because start_requests does not put it into crawled_set (csdnSpider.py:36, 84).
FetchedOnce ==
    \A u \in Urls : fetched[u] <= (IF u = first THEN 2 ELSE 1)

\* What stops a url on its way.
Stopped ==
    \/ dropped # {} \/ gaveUp
    \/ ~ consumer
    \/ spider = "ended"
    \/ \E t \in Topics : dead[t]

InPipe(p) ==
    \E t \in Topics :
        p \in Range(queue[t]) \cup Range(flight[t]) \cup Range(topic[t])

\* Nothing gets lost between the parts: a fetched page is on its way to the
\* evaluator until its links are passed on, and a csdn link that was passed on
\* waits for the spider until it is fetched.
NothingAstray ==
    ~ Stopped =>
        \A p \in Urls : fetched[p] > 0 =>
            /\ p \in passedOn \/ InPipe(p)
            /\ p \in passedOn => \A u \in Range(Links[p]) : Kind[u] = "csdn" =>
                   u \in Range(urls) \cup Range(que) \cup crawledSet \cup {first}

\* The seeds, and all that a fetched page links to.
Wanted(u) ==
    /\ Kind[u] = "csdn"
    /\ \/ u \in Range(Seeds)
       \/ \E p \in Urls : fetched[p] > 0 /\ u \in Range(Links[p])

\* The crawl does not come to rest before the seeds and all that is linked from a
\* fetched page are fetched, unless something stopped it: no queue of the loop waits for
\* another (crawlerServer.py:71, wordSplitServer.py:43, csdnSpider.py:82).
CrawlGoesOn == \A u \in Urls : Wanted(u) ~> (fetched[u] > 0 \/ Stopped)

-----------------------------------------------------------------------------
(***************************************************************************)
(* The inductive invariant behind FetchedOnce and NothingAstray.           *)
(***************************************************************************)
CrawlTypes ==
    /\ urls \in Seq(Urls) /\ que \in Seq(Urls)
    /\ page \in Urls \cup {NoPage} /\ first \in Urls \cup {NoPage}
    /\ spider \in {"start", "fetch", "wait", "ended"}
    /\ spider = "fetch" => page \in Urls
    /\ spider = "start" => first = NoPage
    /\ fetched \in [Urls -> Nat] /\ passedOn \subseteq Urls
    /\ {queue, flight, topic} \subseteq [Topics -> Seq(Urls)]
    /\ dead \in [Topics -> BOOLEAN]

\* A page is fetched as the one of start_requests, and as one put into crawled_set;
\* the fetch to come is one of these.
Due(u) == (IF u = first THEN 1 ELSE 0) + (IF u \in crawledSet THEN 1 ELSE 0)
ToFetch(u) == IF spider = "fetch" /\ u = page THEN 1 ELSE 0

FetchInv == \A u \in Urls : fetched[u] + ToFetch(u) <= Due(u)

\* The urls that the spider has, or is going to have.
Known == Range(urls) \cup Range(que) \cup crawledSet \cup {first}

AstrayInv ==
    ~ Stopped =>
        /\ \A p \in Urls : fetched[p] > 0 => p \in passedOn \/ InPipe(p)
        /\ \A p \in passedOn : \A u \in Range(Links[p]) : Kind[u] = "csdn" => u \in Known

CrawlInv == CrawlTypes /\ FetchInv /\ AstrayInv
=============================================================================
