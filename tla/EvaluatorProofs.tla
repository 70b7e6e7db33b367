-------------------------- MODULE EvaluatorProofs ---------------------------
(***************************************************************************)
(* Proofs about Evaluator, for any number of evaluators, urls, messages    *)
(* and failures: the ids in redis are the ids in MySQL; who was not hurt   *)
(* gets the id of its url, finishes whole pages and marks as crawled what  *)
(* was; and a link is not recorded more often than it may be.              *)
(***************************************************************************)
EXTENDS Evaluator, FiniteSetTheorems, TLAPS

LEMMA InitCacheInv == Init => CacheInv
  BY EvaluatorAssumption DEF Init, CacheInv, CacheAgrees, Found

\* A step of evaluator e leaves where the others are.
Alone(e) ==
    /\ DOMAIN pc' = Evaluators /\ DOMAIN ret' = Evaluators /\ DOMAIN msg' = Evaluators
    /\ k' \in [Evaluators -> Nat]
    /\ \A d \in Evaluators \ {e} :
           pc'[d] = pc[d] /\ ret'[d] = ret[d] /\ msg'[d] = msg[d] /\ k'[d] = k[d]

\* While rows are only added, an evaluator that does not move stays right.
LEMMA OthersStay ==
  ASSUME NEW e \in Evaluators, CacheInv, Alone(e), Found(e)',
         page' \in [Urls -> Ids \cup {None}],
         cache' \in [Urls -> Ids \cup {None}],
         nextId' \in Nat \ {0},
         CacheAgrees',
         \A u \in Urls : page[u] # None => page'[u] = page[u]
  PROVE  CacheInv'
<1>1. ASSUME NEW d \in Evaluators \ {e}  PROVE Found(d)'
  <2>1. Url(d)' = Url(d)
    BY DEF Alone, Url
  <2>2. QED
    BY <2>1 DEF Alone, Found, CacheInv
<1>2. \A d \in Evaluators : Found(d)'
  BY <1>1
<1>3. QED
  BY <1>2 DEF CacheInv, Alone

\* The steps that touch neither WebPage's ids nor redis and do not lead to the
\* SET of an id.
Quiet(e) ==
    /\ Alone(e)
    /\ UNCHANGED <<page, cache, nextId>>
    /\ Found(e)'

LEMMA QuietStep ==
  ASSUME NEW e \in Evaluators, CacheInv, Quiet(e)
  PROVE  CacheInv'
  BY OthersStay DEF Quiet, CacheInv, CacheAgrees

LEMMA TakeIsQuiet ==
  ASSUME NEW e \in Evaluators, CacheInv, NEW m \in Messages, Take(e, m)
  PROVE  Quiet(e)
<1> USE DEF Take, Goto, At, tables, out
<1>1. Alone(e)
  BY DEF CacheInv, Alone
<1>2. pc'[e] = "select" /\ msg'[e] = m /\ k'[e] = 0
  BY DEF CacheInv
<1>3. Found(e)'
  BY <1>2, EvaluatorAssumption DEF Found, Url
<1>4. QED
  BY <1>1, <1>3 DEF Quiet

\* run goes on to the next link only when there is one.
LEMMA NextLink ==
  ASSUME NEW m \in Messages, NEW n \in Nat \ {0}, n <= Len(m.links)
  PROVE  m.links[n] \in Urls
  BY EvaluatorAssumption

LEMMA LinkStep ==
  ASSUME NEW e \in Evaluators, CacheInv, pc[e] # "idle", Alone(e),
         NEW n \in Nat \ {0}, k'[e] = n, pc'[e] = Link(e, n), msg' = msg
  PROVE  Found(e)'
<1>1. msg[e] \in Messages
  BY DEF CacheInv, Found
<1>2. CASE n <= Len(msg[e].links)
  <2>1. msg[e].links[n] \in Urls
    BY <1>1, <1>2, NextLink
  <2>2. QED
    BY <1>1, <1>2, <2>1 DEF Found, Url, Link
<1>3. CASE ~ (n <= Len(msg[e].links))
  BY <1>1, <1>3 DEF Found, Link
<1>4. QED
  BY <1>2, <1>3

LEMMA MostStepsAreQuiet ==
  ASSUME NEW e \in Evaluators, CacheInv,
         \/ CacheMeta(e) \/ GetId(e) \/ GetIdFromTable(e) \/ GetIdRefused(e)
         \/ CountLink(e) \/ InsertLink(e) \/ UpdateCount(e)
         \/ RefuseShort(e) \/ UpdateContent(e) \/ PushPage(e)
  PROVE  Quiet(e)
<1> USE DEF CacheInv, Quiet, Alone, Found, Goto, At, tables, local, out
<1>1. CASE CacheMeta(e)
  BY <1>1 DEF CacheMeta
<1>2. CASE GetId(e) \/ GetIdFromTable(e)
  BY <1>2 DEF GetId, GetIdFromTable
<1>3. CASE GetIdRefused(e)
  BY <1>3 DEF GetIdRefused, GiveUp
<1>4. CASE CountLink(e) \/ InsertLink(e)
  BY <1>4 DEF CountLink, InsertLink
<1>5. CASE UpdateCount(e) \/ UpdateContent(e)
  BY <1>5 DEF UpdateCount, UpdateContent
<1>6. CASE RefuseShort(e) \/ PushPage(e)
  BY <1>6 DEF RefuseShort, PushPage, GiveUp
<1>7. QED
  BY <1>1, <1>2, <1>3, <1>4, <1>5, <1>6

LEMMA ReturnIsQuiet ==
  ASSUME NEW e \in Evaluators, CacheInv, Return(e)
  PROVE  Quiet(e)
<1> USE DEF Return, Goto, At, tables, out
<1>1. Alone(e)
  BY DEF CacheInv, Alone
<1>2. CASE k[e] = 0
  <2>1. k'[e] = 1 /\ pc'[e] = Link(e, 1) /\ msg' = msg /\ pc[e] # "idle"
    BY <1>2 DEF CacheInv
  <2>2. Found(e)'
    BY <1>1, <2>1, LinkStep
  <2>3. QED
    BY <1>1, <2>2 DEF Quiet
<1>3. CASE k[e] # 0
  BY <1>1, <1>3 DEF Quiet, CacheInv, Found
<1>4. QED
  BY <1>2, <1>3

LEMMA PushUrlIsQuiet ==
  ASSUME NEW e \in Evaluators, CacheInv, PushUrl(e)
  PROVE  Quiet(e)
<1> USE DEF PushUrl, Goto, At, tables
<1>1. Alone(e)
  BY DEF CacheInv, Alone
<1>2. /\ k'[e] = k[e] + 1 /\ k[e] + 1 \in Nat \ {0}
      /\ pc'[e] = Link(e, k[e] + 1) /\ msg' = msg /\ pc[e] # "idle"
  BY DEF CacheInv
<1>3. Found(e)'
  BY <1>1, <1>2, LinkStep
<1>4. QED
  BY <1>1, <1>3 DEF Quiet

\* A url that was found known keeps its row: SELECT saw it.
LEMMA SelectKeeps ==
  ASSUME NEW e \in Evaluators, CacheInv, Select(e)
  PROVE  CacheInv'
<1> USE DEF Select, At, Goto, tables, out
<1>1. Alone(e)
  BY DEF CacheInv, Alone
<1>2. Url(e)' = Url(e)
  BY DEF Url
<1>3. Found(e)'
  BY <1>2 DEF CacheInv, Found
<1>4. QED
  BY <1>1, <1>3, OthersStay DEF CacheInv, CacheAgrees

\* The SET stores the id of the row.
LEMMA CacheIdKeeps ==
  ASSUME NEW e \in Evaluators, CacheInv, CacheId(e)
  PROVE  CacheInv'
<1> USE DEF CacheId, At, Goto, tables, local, out
<1>1. Alone(e)
  BY DEF CacheInv, Alone
<1>2. Found(e)'
  BY DEF CacheInv, Found
<1>3. ret[e] # None /\ ret[e] = page[Url(e)]
  BY DEF CacheInv, Found
<1>4. cache' \in [Urls -> Ids \cup {None}] /\ CacheAgrees'
  <2>1. CASE Url(e) \in Urls
    BY <1>3, <2>1 DEF CacheInv, CacheAgrees
  <2>2. CASE Url(e) \notin Urls
    BY <2>2 DEF CacheInv, CacheAgrees
  <2>3. QED
    BY <2>1, <2>2
<1>5. QED
  BY <1>1, <1>2, <1>4, OthersStay DEF CacheInv

\* An INSERT that is not refused is of a url without a row, which no evaluator
\* has found and redis does not know.
LEMMA InsertKeeps ==
  ASSUME NEW e \in Evaluators, CacheInv, Insert(e)
  PROVE  CacheInv'
<1> USE DEF Insert, At, Goto
<1>1. Alone(e)
  BY DEF CacheInv, Alone
<1>2. Found(e)'
  BY DEF CacheInv, Found
<1>3. nextId \in Ids /\ nextId' \in Nat \ {0}
  <2>1. nextId \in Nat \ {0} /\ nextId <= MaxId /\ nextId' = nextId + 1
    BY DEF CacheInv
  <2>2. QED
    BY <2>1, EvaluatorAssumption DEF Ids
<1>4. page' \in [Urls -> Ids \cup {None}]
  BY <1>3 DEF CacheInv
<1>5. \A u \in Urls : page[u] # None => page'[u] = page[u]
  BY DEF CacheInv
<1>6. CacheAgrees' /\ cache' = cache
  BY DEF CacheInv, CacheAgrees
<1>7. QED
  BY <1>1, <1>2, <1>3, <1>4, <1>5, <1>6, OthersStay DEF CacheInv

LEMMA StepCacheInv == CacheInv /\ [Next]_vars => CacheInv'
<1> SUFFICES ASSUME CacheInv, [Next]_vars  PROVE CacheInv'
  OBVIOUS
<1>1. ASSUME NEW e \in Evaluators, Step(e)  PROVE CacheInv'
  <2>1. CASE RedisFails(e)
    BY <2>1 DEF CacheInv, CacheAgrees, Found, Url, RedisFails, tables, local
  <2>2. CASE \E m \in Messages : Take(e, m)
    BY <2>2, TakeIsQuiet, QuietStep
  <2>3. CASE Select(e)
    BY <2>3, SelectKeeps
  <2>4. CASE CacheId(e)
    BY <2>4, CacheIdKeeps
  <2>5. CASE Insert(e)
    BY <2>5, InsertKeeps
  <2>6. CASE \/ CacheMeta(e) \/ GetId(e) \/ GetIdFromTable(e) \/ GetIdRefused(e)
             \/ CountLink(e) \/ InsertLink(e) \/ UpdateCount(e)
             \/ RefuseShort(e) \/ UpdateContent(e) \/ PushPage(e)
    BY <2>6, MostStepsAreQuiet, QuietStep
  <2>7. CASE Return(e) \/ PushUrl(e)
    BY <2>7, ReturnIsQuiet, PushUrlIsQuiet, QuietStep
  <2>8. QED
    BY <1>1, <2>1, <2>2, <2>3, <2>4, <2>5, <2>6, <2>7 DEF Step
<1>2. ASSUME NEW u \in Urls, Expire(u)  PROVE CacheInv'
  BY <1>2 DEF CacheInv, CacheAgrees, Found, Url, Expire, tables, local
<1>3. CASE UNCHANGED vars
  BY <1>3 DEF CacheInv, CacheAgrees, Found, Url, vars, tables, local
<1>4. QED
  BY <1>1, <1>2, <1>3 DEF Next

\* Whatever the evaluators overlap, however redis and MySQL fail, an id in
\* redis is the id of the row of that url (evaluator.cpp:263-275).
THEOREM CacheIsTrue == Spec => []CacheAgrees
<1>1. CacheInv => CacheAgrees
  BY DEF CacheInv
<1>2. QED
  BY <1>1, InitCacheInv, StepCacheInv, PTL DEF Spec

-----------------------------------------------------------------------------
(***************************************************************************)
(* RunInv: the tables, the evaluators on their way, and what they leave.   *)
(***************************************************************************)
LEMMA InitRunInv == Init => RunInv
<1> SUFFICES ASSUME Init  PROVE RunInv
  OBVIOUS
<1> USE EvaluatorAssumption DEF Init
<1>1. CacheInv
  BY InitCacheInv
<1>2. Shape
  BY DEF Shape
<1>3. TableInv
  BY DEF TableInv
<1>4. \A e \in Evaluators : EvaluatorInv(e)
  BY DEF EvaluatorInv
<1>5. ResultInv
  BY DEF ResultInv, FinishedIsComplete, PageGoesUnderItsId, FinishedIsLinked, CrawlTruthful
<1>6. QED
  BY <1>1, <1>2, <1>3, <1>4, <1>5 DEF RunInv

\* What no step undoes: a row, a delivery, a record of a link, a url sent on.
Grow ==
    /\ \A u \in Urls : page[u] # None => page'[u] = page[u]
    /\ \A m \in Messages : delivered[m] > 0 => delivered'[m] > 0
    /\ \A p \in Pairs : links[p] > 0 => links'[p] > 0
    /\ toCrawler \subseteq toCrawler'

\* The strings of a message are urls.
LEMMA MessageTypes ==
  ASSUME NEW m \in Messages
  PROVE  /\ m.url \in Urls
         /\ m.links \in Seq(Urls)
         /\ Len(m.links) \in Nat
         /\ DOMAIN m.links = 1 .. Len(m.links)
         /\ \A i \in 1 .. Len(m.links) : m.links[i] \in Urls
<1>1. m.url \in Urls /\ m.links \in Seq(Urls)
  BY EvaluatorAssumption
<1>2. QED
  BY <1>1

\* Two ids are a pair LinkTable can hold, those of two rows in particular.
LEMMA IdPair == \A i, j \in Ids : <<i, j>> \in Pairs
<1>1. Ids \subseteq 0 .. MaxId
  BY EvaluatorAssumption DEF Ids
<1>2. QED
  BY <1>1 DEF Pairs

LEMMA PairOfRows ==
  ASSUME CacheInv, NEW u \in Urls, NEW v \in Urls, page[u] # None, page[v] # None
  PROVE  <<page[u], page[v]>> \in Pairs
BY IdPair DEF CacheInv

\* A link that is done stays done.
LEMMA LinkedStays ==
  ASSUME CacheInv, Grow, NEW m \in Messages, NEW i \in 1 .. Len(m.links),
         page[m.url] # None, Linked(m, i)
  PROVE  Linked(m, i)'
<1>1. m.url \in Urls /\ m.links[i] \in Urls
  BY MessageTypes
<1>2. <<page[m.url], page[m.links[i]]>> \in Pairs
  BY <1>1, PairOfRows DEF Linked
<1>3. QED
  BY <1>1, <1>2 DEF Linked, Grow

\* The url e works on is a url.
LEMMA UrlType ==
  ASSUME NEW e \in Evaluators, CacheInv, Position(e),
         pc[e] \in Storing \cup Linking
  PROVE  Url(e) \in Urls /\ k[e] \in 0 .. Len(msg[e].links)
<1>1. k[e] \in 0 .. Len(msg[e].links) /\ msg[e] \in Messages
  BY DEF Position, Storing, Linking
<1>2. QED
  BY <1>1, MessageTypes DEF Url

\* Where an evaluator is does not change while another one moves.
Still(d) ==
    /\ pc'[d] = pc[d] /\ msg'[d] = msg[d] /\ k'[d] = k[d]
    /\ ret'[d] = ret[d] /\ from'[d] = from[d] /\ hurt'[d] = hurt[d]

LEMMA StaysOnCourse ==
  ASSUME NEW d \in Evaluators, CacheInv, EvaluatorInv(d), Grow, Still(d),
         \A u \in Urls : cache[u] # None => cache'[u] # None \/ (pc[d] \in {"cachemeta", "get"} => Url(d) # u)
  PROVE  EvaluatorInv(d)'
<1> SUFFICES ASSUME pc[d] # "idle"
             PROVE  (Position(d) /\ KeyIsThere(d) /\ (~ hurt[d] => OnCourse(d)))'
  BY DEF EvaluatorInv, Still
<1>1. Position(d) /\ KeyIsThere(d) /\ msg[d] \in Messages
  BY DEF EvaluatorInv, Position
<1>2. Position(d)'
  BY <1>1 DEF Position, Still, Grow
<1>3. Url(d)' = Url(d)
  BY DEF Still, Url
<1>4. KeyIsThere(d)'
  BY <1>1, <1>3, UrlType DEF KeyIsThere, Still, Storing
<1>5. ASSUME ~ hurt'[d]  PROVE OnCourse(d)'
  <2>1. OnCourse(d)
    BY <1>5 DEF EvaluatorInv, Still
  <2>2. msg[d].url \in Urls
    BY <1>1, MessageTypes
  <2>3. \A i \in 1 .. k[d] - 1 : i \in 1 .. Len(msg[d].links)
    BY <1>1, MessageTypes DEF Position, Storing, Linking, Ending, CacheInv
  <2>4. k[d] > 0 => page[msg[d].url] # None
    BY <2>1 DEF OnCourse
  <2>5. \A i \in 1 .. k[d] - 1 : Linked(msg[d], i)'
    <3>1. SUFFICES ASSUME NEW i \in 1 .. k[d] - 1  PROVE Linked(msg[d], i)'
      BY DEF Still
    <3>2. k[d] > 0
      BY <1>1 DEF CacheInv
    <3>3. PICK m \in Messages : m = msg[d]
      BY <1>1
    <3>4. Linked(m, i) /\ i \in 1 .. Len(m.links)
      BY <2>1, <2>3, <3>3 DEF OnCourse
    <3>5. Linked(m, i)'
      BY <2>4, <3>2, <3>3, <3>4, LinkedStays
    <3>6. QED
      BY <3>3, <3>5 DEF Still
  <2>6. pc[d] \in Linking \cup {"return"} => Url(d) \in Urls
    BY <1>1, UrlType DEF Storing
  <2>7. pc[d] \in {"return"} \cup Linking => ret[d] # None /\ ret'[d] = page'[Url(d)']
    BY <1>3, <2>1, <2>6 DEF OnCourse, Grow, Still
  <2>8. k[d] > 0 => from[d] # None /\ from'[d] = page'[msg[d].url]
    BY <2>1, <2>2 DEF OnCourse, Grow, Still
  <2>9. pc[d] = "pushurl" => links'[<<from[d], ret[d]>>] > 0
    <3>1. SUFFICES ASSUME pc[d] = "pushurl"  PROVE links'[<<from[d], ret[d]>>] > 0
      OBVIOUS
    <3>2. k[d] > 0
      BY <1>1, <3>1, MessageTypes DEF Position, Linking
    <3>3. <<from[d], ret[d]>> \in Pairs
      BY <2>1, <2>2, <2>6, <3>1, <3>2, PairOfRows DEF OnCourse, Linking
    <3>4. QED
      BY <2>1, <3>1, <3>3 DEF OnCourse, Grow
  <2>10. QED
    BY <2>5, <2>7, <2>8, <2>9 DEF OnCourse, Still
<1>6. QED
  BY <1>2, <1>4, <1>5 DEF Still

\* A step hurts nobody silently: as long as harm is FALSE nobody is hurt.
Honest ==
    ~ harm' => ~ harm /\ \A d \in Evaluators : ~ hurt'[d]

\* What was left behind stays as it is while the tables only grow.
LEMMA ResultsStay ==
  ASSUME RunInv, Grow, Honest, UNCHANGED <<toIndex, finished, content>>, CrawlTruthful'
  PROVE  ResultInv'
<1> USE DEF RunInv, ResultInv
<1>1. ASSUME NEW m \in finished
      PROVE  page'[m.url] = page[m.url] /\ page[m.url] # None
  BY MessageTypes DEF Grow
<1>2. FinishedIsLinked'
  <2>1. ASSUME NEW m \in finished, NEW i \in DOMAIN m.links  PROVE Linked(m, i)'
    <3>1. m \in Messages /\ i \in 1 .. Len(m.links)
      BY MessageTypes
    <3>2. Linked(m, i)
      BY DEF FinishedIsComplete, FinishedIsLinked
    <3>3. QED
      BY <1>1, <3>1, <3>2, LinkedStays
  <2>2. QED
    BY <2>1 DEF FinishedIsLinked
<1>3. PageGoesUnderItsId'
  <2>1. \A m \in finished : [id |-> page'[m.url], url |-> m.url] \in toIndex
    BY <1>1 DEF FinishedIsComplete, PageGoesUnderItsId
  <2>2. ASSUME ~ harm'  PROVE \A p \in toIndex : p.id = page'[p.url]
    BY <2>2 DEF FinishedIsComplete, PageGoesUnderItsId, Grow, Honest
  <2>3. ASSUME ~ harm'
        PROVE  \A i \in Ids : content[i] # None => page'[content[i]] = i
    <3>1. ASSUME NEW i \in Ids, content[i] # None  PROVE page'[content[i]] = i
      <4>1. content[i] \in Urls /\ page[content[i]] = i
        BY <2>3, <3>1 DEF FinishedIsComplete, PageGoesUnderItsId, Honest
      <4>2. i # None
        BY EvaluatorAssumption DEF Ids
      <4>3. QED
        BY <4>1, <4>2 DEF Grow
    <3>2. QED
      BY <3>1
  <2>4. QED
    BY <2>1, <2>2, <2>3 DEF PageGoesUnderItsId
<1>4. QED
  BY <1>1, <1>2, <1>3 DEF FinishedIsComplete, Honest

\* A step of e keeps RunInv if it keeps the tables' part, the results' part and
\* e itself on course.
LEMMA StepOf ==
  ASSUME NEW e \in Evaluators, RunInv, CacheInv', Shape', Grow,
         \A d \in Evaluators \ {e} : Still(d),
         \A u \in Urls : cache[u] # None => cache'[u] # None,
         TableInv', EvaluatorInv(e)', ResultInv'
  PROVE  RunInv'
<1>1. ASSUME NEW d \in Evaluators \ {e}  PROVE EvaluatorInv(d)'
  BY StaysOnCourse DEF RunInv
<1>2. \A d \in Evaluators : EvaluatorInv(d)'
  BY <1>1
<1>3. QED
  BY <1>2 DEF RunInv

\* The steps that change no table, no count of deliveries and send nothing on.
Minor(e) ==
    /\ UNCHANGED <<page, crawl, content, nextId, links, delivered, toCrawler, toIndex, finished>>
    /\ DOMAIN hurt' = Evaluators /\ DOMAIN from' = Evaluators /\ DOMAIN lastId' = Evaluators
    /\ \A d \in Evaluators \ {e} : Still(d)
    /\ \A u \in Urls : cache[u] # None => cache'[u] # None
    /\ Honest

LEMMA MinorStep ==
  ASSUME NEW e \in Evaluators, RunInv, CacheInv', Minor(e), EvaluatorInv(e)'
  PROVE  RunInv'
<1>1. Grow
  BY DEF Minor, Grow
<1>2. Shape' /\ TableInv'
  BY DEF Minor, Shape, TableInv, RunInv
<1>3. CrawlTruthful'
  BY DEF CrawlTruthful, Minor, Honest, RunInv, ResultInv
<1>4. ResultInv'
  BY <1>1, <1>3, ResultsStay DEF Minor
<1>5. QED
  BY <1>1, <1>2, <1>4, StepOf DEF Minor

LEMMA MinorSteps ==
  ASSUME NEW e \in Evaluators, RunInv,
         \/ Select(e) \/ CacheId(e) \/ CacheMeta(e) \/ GetId(e) \/ GetIdRefused(e)
         \/ Return(e) \/ CountLink(e) \/ RefuseShort(e)
  PROVE  Minor(e)
<1> USE DEF RunInv, Shape, CacheInv, ResultInv, Minor, Honest, Still, Goto, Hurt,
            tables, local, out, ghost
<1>1. CASE Select(e)
  BY <1>1 DEF Select
<1>2. CASE CacheId(e)
  <2>1. Url(e) \in Urls /\ ret[e] # None
    BY <1>2 DEF CacheId, At, Found
  <2>2. \A u \in Urls : cache[u] # None => cache'[u] # None
    BY <1>2, <2>1 DEF CacheId
  <2>3. QED
    BY <1>2, <2>2 DEF CacheId
<1>3. CASE CacheMeta(e)
  BY <1>3 DEF CacheMeta
<1>4. CASE GetId(e)
  BY <1>4 DEF GetId
<1>5. CASE GetIdRefused(e) \/ RefuseShort(e)
  BY <1>5 DEF GetIdRefused, RefuseShort, GiveUp
<1>6. CASE Return(e)
  BY <1>6 DEF Return
<1>7. CASE CountLink(e)
  BY <1>7 DEF CountLink
<1>8. QED
  BY <1>1, <1>2, <1>3, <1>4, <1>5, <1>6, <1>7

\* Inside store_weblink2db e stays at its url and what is behind it stays done.
LEMMA StoringKeeps ==
  ASSUME NEW e \in Evaluators, RunInv, Minor(e), pc[e] \in Storing, pc'[e] \in Storing,
         msg'[e] = msg[e], k'[e] = k[e], from'[e] = from[e], KeyIsThere(e)',
         ~ hurt'[e] => ~ hurt[e] /\ (pc'[e] = "return" => ret'[e] # None /\ ret'[e] = page[Url(e)])
  PROVE  EvaluatorInv(e)'
<1>1. pc[e] # "idle" /\ EvaluatorInv(e) /\ Url(e)' = Url(e)
  BY DEF RunInv, Storing, Url
<1>2. Position(e)'
  BY <1>1 DEF Position, EvaluatorInv, Minor, Storing, Linking, Ending
<1>3. ASSUME ~ hurt'[e]  PROVE OnCourse(e)'
  <2>1. OnCourse(e)
    BY <1>1, <1>3 DEF EvaluatorInv
  <2>2. \A i \in 1 .. k[e] - 1 : Linked(msg[e], i)'
    BY <2>1 DEF OnCourse, Linked, Minor
  <2>3. QED
    BY <1>1, <1>3, <2>1, <2>2 DEF OnCourse, Minor, Storing, Linking
<1>4. QED
  BY <1>2, <1>3 DEF EvaluatorInv

LEMMA SelectKeepsRun ==
  ASSUME NEW e \in Evaluators, RunInv, Select(e), Minor(e)
  PROVE  EvaluatorInv(e)'
<1>1. /\ pc[e] = "select" /\ pc'[e] \in {"cache", "insert"}
      /\ msg' = msg /\ k' = k /\ from' = from
      /\ ~ hurt'[e] => ~ hurt[e]
  BY DEF RunInv, CacheInv, Shape, Select, At, Goto, Hurt, ghost
<1>2. KeyIsThere(e)'
  BY <1>1 DEF KeyIsThere
<1>3. QED
  BY <1>1, <1>2, StoringKeeps DEF Storing

LEMMA CacheIdKeepsRun ==
  ASSUME NEW e \in Evaluators, RunInv, CacheId(e), Minor(e)
  PROVE  EvaluatorInv(e)'
<1>1. /\ pc[e] = "cache" /\ pc'[e] \in {"cachemeta", "insert"}
      /\ msg' = msg /\ k' = k /\ from' = from
      /\ ~ hurt'[e] => ~ hurt[e]
  BY DEF RunInv, CacheInv, Shape, CacheId, At, Goto, Hurt, ghost, local
<1>2. KeyIsThere(e)'
  <2>1. Url(e)' = Url(e) /\ Url(e) \in Urls /\ ret[e] # None
    BY <1>1 DEF RunInv, CacheInv, Found, Url
  <2>2. pc'[e] = "cachemeta" => cache'[Url(e)] = ret[e]
    BY <2>1 DEF CacheId, Goto, At, RunInv, CacheInv
  <2>3. QED
    BY <1>1, <2>1, <2>2 DEF KeyIsThere
<1>3. QED
  BY <1>1, <1>2, StoringKeeps DEF Storing

LEMMA CacheMetaKeepsRun ==
  ASSUME NEW e \in Evaluators, RunInv, CacheMeta(e), Minor(e)
  PROVE  EvaluatorInv(e)'
<1>1. /\ pc[e] = "cachemeta" /\ pc'[e] \in {"get", "insert"}
      /\ msg' = msg /\ k' = k /\ from' = from /\ cache' = cache
      /\ ~ hurt'[e] => ~ hurt[e]
  BY DEF RunInv, CacheInv, Shape, CacheMeta, At, Goto, Hurt, ghost, local
<1>2. KeyIsThere(e)'
  BY <1>1 DEF KeyIsThere, Url, RunInv, EvaluatorInv
<1>3. QED
  BY <1>1, <1>2, StoringKeeps DEF Storing

\* The GET finds the key, and the key holds the id of the row.
LEMMA GetIdKeepsRun ==
  ASSUME NEW e \in Evaluators, RunInv, GetId(e), Minor(e)
  PROVE  EvaluatorInv(e)'
<1>1. /\ pc[e] = "get" /\ pc'[e] = "return"
      /\ msg' = msg /\ k' = k /\ from' = from /\ hurt' = hurt
      /\ ret'[e] = cache[Url(e)]
  BY DEF RunInv, CacheInv, Shape, GetId, At, Goto, ghost
<1>2. Url(e) \in Urls /\ cache[Url(e)] # None
  BY <1>1, UrlType DEF RunInv, EvaluatorInv, KeyIsThere, Storing
<1>3. ret'[e] # None /\ ret'[e] = page[Url(e)]
  BY <1>1, <1>2 DEF RunInv, CacheInv, CacheAgrees
<1>4. KeyIsThere(e)'
  BY <1>1 DEF KeyIsThere
<1>5. QED
  BY <1>1, <1>3, <1>4, StoringKeeps DEF Storing

LEMMA GivenUp ==
  ASSUME NEW e \in Evaluators, RunInv,
         \/ GetIdRefused(e) \/ RefuseShort(e) \/ PushPage(e)
  PROVE  EvaluatorInv(e)'
  BY DEF EvaluatorInv, GetIdRefused, RefuseShort, PushPage, GiveUp, Goto, RunInv, CacheInv

\* The page's own id becomes from_page_id; the id of a link is what is recorded.
LEMMA ReturnKeepsRun ==
  ASSUME NEW e \in Evaluators, RunInv, Return(e), Minor(e)
  PROVE  EvaluatorInv(e)'
<1>1. /\ pc[e] = "return" /\ msg' = msg /\ ret' = ret /\ hurt' = hurt
      /\ EvaluatorInv(e) /\ Position(e) /\ msg[e] \in Messages /\ k[e] \in Nat
  BY DEF RunInv, CacheInv, EvaluatorInv, Return, At, ghost, Position
<1>2. Len(msg[e].links) \in Nat
  BY <1>1, MessageTypes
<1>3. CASE k[e] = 0
  <2>1. from'[e] = ret[e] /\ k'[e] = 1 /\ pc'[e] = Link(e, 1)
    BY <1>3 DEF Return, At, Goto, RunInv, CacheInv, Shape
  <2>2. Position(e)'
    BY <1>1, <1>2, <2>1 DEF Position, Link, Storing, Linking, Ending, Minor
  <2>3. KeyIsThere(e)'
    BY <2>1 DEF KeyIsThere, Link
  <2>4. ASSUME ~ hurt'[e]  PROVE OnCourse(e)'
    <3>1. ret[e] # None /\ ret[e] = page[msg[e].url]
      BY <1>1, <1>3, <2>4 DEF EvaluatorInv, OnCourse, Url
    <3>2. pc'[e] \notin {"return", "pushurl"} \cup Linking
      BY <2>1 DEF Link, Linking
    <3>3. 1 .. k'[e] - 1 = {}
      BY <2>1
    <3>4. QED
      BY <1>1, <2>1, <3>1, <3>2, <3>3 DEF OnCourse, Minor
  <2>5. QED
    BY <2>2, <2>3, <2>4 DEF EvaluatorInv
<1>4. CASE k[e] # 0
  <2>1. from'[e] = from[e] /\ k'[e] = k[e] /\ pc'[e] = "linkcount"
    BY <1>4 DEF Return, At, Goto, RunInv, CacheInv
  <2>2. Position(e)'
    BY <1>1, <1>2, <1>4, <2>1 DEF Position, Storing, Linking, Ending, Minor
  <2>3. KeyIsThere(e)'
    BY <2>1 DEF KeyIsThere
  <2>4. ASSUME ~ hurt'[e]  PROVE OnCourse(e)'
    <3>1. OnCourse(e) /\ Url(e)' = Url(e)
      BY <1>1, <2>1, <2>4 DEF EvaluatorInv, Url
    <3>2. \A i \in 1 .. k[e] - 1 : Linked(msg[e], i)'
      BY <1>1, <3>1 DEF OnCourse, Linked, Minor
    <3>3. QED
      BY <1>1, <2>1, <3>1, <3>2 DEF OnCourse, Minor, Linking
  <2>5. QED
    BY <2>2, <2>3, <2>4 DEF EvaluatorInv
<1>5. QED
  BY <1>3, <1>4

\* A link that was counted is there.
LEMMA CountLinkKeepsRun ==
  ASSUME NEW e \in Evaluators, RunInv, CountLink(e), Minor(e)
  PROVE  EvaluatorInv(e)'
<1>1. /\ pc[e] = "linkcount" /\ pc'[e] \in {"linkinsert", "pushurl"}
      /\ msg' = msg /\ k' = k /\ from' = from /\ ret' = ret
      /\ ~ hurt'[e] => ~ hurt[e]
      /\ ~ hurt'[e] /\ pc'[e] = "pushurl" => links[<<from[e], ret[e]>>] > 0
  BY DEF RunInv, CacheInv, Shape, CountLink, At, Goto, Hurt, ghost, local
<1>2. EvaluatorInv(e) /\ Url(e)' = Url(e)
  BY <1>1 DEF RunInv, Url
<1>3. Position(e)'
  BY <1>1, <1>2 DEF Position, EvaluatorInv, Minor, Storing, Linking, Ending
<1>4. ASSUME ~ hurt'[e]  PROVE OnCourse(e)'
  <2>1. OnCourse(e)
    BY <1>1, <1>2, <1>4 DEF EvaluatorInv
  <2>2. \A i \in 1 .. k[e] - 1 : Linked(msg[e], i)'
    BY <1>1, <2>1 DEF OnCourse, Linked, Minor
  <2>3. QED
    BY <1>1, <1>2, <1>4, <2>1, <2>2 DEF OnCourse, Minor, Linking
<1>5. QED
  BY <1>1, <1>3, <1>4 DEF EvaluatorInv, KeyIsThere

LEMMA UpdateCountIsMinor ==
  ASSUME NEW e \in Evaluators, RunInv, UpdateCount(e)
  PROVE  Minor(e) /\ EvaluatorInv(e)'
<1> USE DEF RunInv, Shape, CacheInv, UpdateCount, At, Goto, tables, local, out, ghost
<1>1. Minor(e)
  BY DEF Minor, Honest, Still, ResultInv
<1>2. /\ pc[e] = "count" /\ pc'[e] \in {"content", "idle"}
      /\ msg' = msg /\ k' = k /\ from' = from /\ ret' = ret /\ hurt' = hurt
  OBVIOUS
<1> HIDE DEF RunInv, Shape, CacheInv, UpdateCount, At, Goto, tables, local, out, ghost
<1>3. EvaluatorInv(e) /\ pc[e] # "idle"
  BY <1>2 DEF RunInv
<1>4. Position(e)' \/ pc'[e] = "idle"
  BY <1>1, <1>2, <1>3 DEF Position, EvaluatorInv, Minor, Storing, Linking, Ending
<1>5. ASSUME ~ hurt'[e]  PROVE OnCourse(e)' \/ pc'[e] = "idle"
  <2>1. OnCourse(e)
    BY <1>2, <1>3, <1>5 DEF EvaluatorInv
  <2>2. \A i \in 1 .. k[e] - 1 : Linked(msg[e], i)'
    BY <1>1, <1>2, <2>1 DEF OnCourse, Linked, Minor
  <2>3. QED
    BY <1>1, <1>2, <2>1, <2>2 DEF OnCourse, Minor, Linking
<1>6. QED
  BY <1>1, <1>2, <1>4, <1>5 DEF EvaluatorInv, KeyIsThere

LEMMA TakeKeepsRun ==
  ASSUME NEW e \in Evaluators, RunInv, CacheInv', NEW m \in Messages, Take(e, m)
  PROVE  RunInv'
<1> USE DEF Take, At, Goto, tables, out
<1>1. /\ pc'[e] = "select" /\ msg'[e] = m /\ k'[e] = 0
      /\ delivered'[m] > 0
      /\ UNCHANGED <<page, links, nextId, cache, content, crawl, toCrawler, toIndex, finished, harm>>
  BY DEF RunInv, CacheInv, Shape
<1>2. \A d \in Evaluators \ {e} : Still(d)
  BY DEF RunInv, CacheInv, Shape, Still
<1>3. Shape'
  BY EvaluatorAssumption DEF RunInv, Shape
<1>4. Grow /\ TableInv' /\ Honest
  BY <1>1 DEF Grow, TableInv, Honest, RunInv, Shape, ResultInv
<1>5. CrawlTruthful'
  BY <1>1, <1>4 DEF CrawlTruthful, RunInv, ResultInv, Grow
<1>6. ResultInv'
  BY <1>1, <1>4, <1>5, ResultsStay
<1>7. EvaluatorInv(e)'
  <2>1. Position(e)'
    BY <1>1, MessageTypes DEF Position, Storing, Linking, Ending
  <2>2. OnCourse(e)' /\ KeyIsThere(e)'
    BY <1>1 DEF OnCourse, KeyIsThere, Linking
  <2>3. QED
    BY <2>1, <2>2 DEF EvaluatorInv
<1>8. QED
  BY <1>1, <1>2, <1>3, <1>4, <1>6, <1>7, StepOf

\* The two outcomes of the INSERT.
Inserted(e) ==
    /\ page[Url(e)] = None
    /\ page' = [page EXCEPT ![Url(e)] = nextId]
    /\ crawl' = [crawl EXCEPT ![Url(e)] = CrawlOf(e)]
    /\ ret'[e] = nextId
    /\ UNCHANGED ghost

InsertRefused(e) ==
    /\ hurt' = [hurt EXCEPT ![e] = TRUE] /\ harm' = TRUE
    /\ UNCHANGED <<page, crawl>>

LEMMA InsertCases ==
  ASSUME NEW e \in Evaluators, RunInv, Insert(e)
  PROVE  Inserted(e) \/ InsertRefused(e)
<1>1. ret'[e] = lastId'[e]
  BY DEF Insert, RunInv, CacheInv
<1>2. lastId' = [lastId EXCEPT ![e] = nextId] => lastId'[e] = nextId
  BY DEF RunInv, Shape
<1>3. QED
  BY <1>1, <1>2 DEF Insert, Inserted, InsertRefused, Hurt

\* A new row has a fresh id, so that ids stay unique and old rows stay.
LEMMA NewRow ==
  ASSUME NEW e \in Evaluators, RunInv, CacheInv', nextId' = nextId + 1,
         Url(e) \in Urls, links' = links, Inserted(e) \/ InsertRefused(e)
  PROVE  /\ TableInv'
         /\ \A u \in Urls : page[u] # None => page'[u] = page[u]
<1> USE DEF RunInv, CacheInv, TableInv
<1>1. CASE Inserted(e)
  <2>1. nextId \in Nat /\ nextId # None
    BY EvaluatorAssumption
  <2>2. \A u \in Urls : page'[u] = IF u = Url(e) THEN nextId ELSE page[u]
    BY <1>1 DEF Inserted
  <2>3. \A u \in Urls : page[u] # None => page'[u] = page[u]
    BY <1>1, <2>2 DEF Inserted
  <2>4. \A u \in Urls : page[u] # None => page[u] \in Nat /\ page[u] < nextId
    BY EvaluatorAssumption DEF Ids
  <2>5. \A u \in Urls : page'[u] # None => page'[u] < nextId'
    BY <2>1, <2>2, <2>4
  <2>6. \A u, v \in Urls : page'[u] # None /\ page'[u] = page'[v] => u = v
    BY <2>1, <2>2, <2>4
  <2>7. \A p \in Pairs : p[1] # None /\ p[2] # None
    BY EvaluatorAssumption DEF Pairs
  <2>8. ASSUME NEW i \in {page[u] : u \in Urls}, i # None
        PROVE  i \in {page'[u] : u \in Urls}
    BY <2>3, <2>8
  <2>9. \A p \in Pairs : links'[p] > 0 =>
            p[1] \in {page'[u] : u \in Urls} /\ p[2] \in {page'[u] : u \in Urls}
    BY <2>7, <2>8
  <2>10. QED
    BY <2>3, <2>5, <2>6, <2>9
<1>2. CASE InsertRefused(e)
  <2>1. page' = page
    BY <1>2 DEF InsertRefused
  <2>2. \A u \in Urls : page[u] # None => page[u] \in Nat
    BY EvaluatorAssumption DEF Ids
  <2>3. QED
    BY <2>1, <2>2
<1>3. QED
  BY <1>1, <1>2

LEMMA InsertKeepsRun ==
  ASSUME NEW e \in Evaluators, RunInv, CacheInv', Insert(e)
  PROVE  RunInv'
<1>1. /\ pc[e] = "insert" /\ pc'[e] = "return" /\ nextId' = nextId + 1
      /\ UNCHANGED <<content, links, cache, delivered, msg, k, from,
                     toCrawler, toIndex, finished>>
  BY DEF Insert, At, Goto, RunInv, CacheInv, out
<1>2. \A d \in Evaluators \ {e} : Still(d)
  BY DEF Insert, Goto, Hurt, ghost, RunInv, CacheInv, Shape, Still
<1>3. Inserted(e) \/ InsertRefused(e)
  BY InsertCases
<1>4. EvaluatorInv(e) /\ Position(e) /\ msg[e] \in Messages
  BY <1>1 DEF RunInv, EvaluatorInv, Position
<1>5. Url(e) \in Urls /\ Url(e)' = Url(e)
  BY <1>1, <1>4, UrlType DEF Storing, Url, RunInv
<1>6. Shape'
  BY <1>1, <1>3 DEF Insert, Inserted, InsertRefused, Shape, RunInv, ghost
<1>7. TableInv' /\ Grow
  <2>1. TableInv' /\ \A u \in Urls : page[u] # None => page'[u] = page[u]
    BY <1>1, <1>3, <1>5, NewRow
  <2>2. QED
    BY <1>1, <2>1 DEF Grow
<1>8. Honest
  BY <1>3 DEF Inserted, InsertRefused, Honest, ghost, RunInv, ResultInv
<1>9. CrawlTruthful'
  <2>1. SUFFICES ASSUME ~ harm', NEW u \in Urls, crawl'[u] = 1
                 PROVE  \E m \in Messages : m.url = u /\ delivered[m] > 0
    BY <1>1 DEF CrawlTruthful
  <2>2. Inserted(e) /\ ~ harm
    BY <1>3, <2>1 DEF InsertRefused, Inserted, ghost
  <2>3. CASE u = Url(e)
    <3>1. CrawlOf(e) = 1
      BY <2>1, <2>2, <2>3 DEF Inserted, RunInv, Shape
    <3>2. u = msg[e].url
      BY <2>3, <3>1 DEF CrawlOf, Url
    <3>3. QED
      BY <1>4, <3>2 DEF Position
  <2>4. CASE u # Url(e)
    BY <2>1, <2>2, <2>4 DEF Inserted, RunInv, Shape, ResultInv, CrawlTruthful
  <2>5. QED
    BY <2>3, <2>4
<1>10. ResultInv'
  BY <1>1, <1>7, <1>8, <1>9, ResultsStay
<1>11. EvaluatorInv(e)'
  <2>1. Position(e)'
    BY <1>1, <1>4 DEF Position, Storing, Linking, Ending
  <2>2. ASSUME ~ hurt'[e]  PROVE OnCourse(e)'
    <3>1. Inserted(e)
      BY <1>3, <2>2 DEF InsertRefused, RunInv, Shape
    <3>2. ret'[e] = nextId /\ page'[Url(e)] = nextId /\ nextId # None
      BY <1>5, <3>1, EvaluatorAssumption DEF Inserted, RunInv, CacheInv
    <3>3. OnCourse(e)
      BY <1>1, <1>4, <2>2, <3>1 DEF EvaluatorInv, Inserted, ghost
    <3>4. k[e] > 0 => from[e] # None /\ from[e] = page'[msg[e].url]
      BY <1>4, <1>7, <3>3, MessageTypes DEF OnCourse, Grow
    <3>5. \A i \in 1 .. k[e] - 1 : Linked(msg[e], i)'
      <4>1. SUFFICES ASSUME NEW i \in 1 .. k[e] - 1  PROVE Linked(msg[e], i)'
        OBVIOUS
      <4>2. PICK m \in Messages : m = msg[e]
        BY <1>4
      <4>3. k[e] > 0 /\ i \in 1 .. Len(m.links)
        BY <1>1, <1>4, <4>2, MessageTypes DEF Position, Storing, RunInv, CacheInv
      <4>4. Linked(m, i) /\ page[m.url] # None
        BY <3>3, <4>2, <4>3 DEF OnCourse
      <4>5. Linked(m, i)'
        BY <1>7, <4>3, <4>4, LinkedStays DEF RunInv
      <4>6. QED
        BY <1>1, <4>2, <4>5
    <3>6. QED
      BY <1>1, <1>5, <3>2, <3>4, <3>5 DEF OnCourse, Linking
  <2>3. QED
    BY <1>1, <2>1, <2>2 DEF EvaluatorInv, KeyIsThere
<1>12. QED
  BY <1>1, <1>2, <1>6, <1>7, <1>10, <1>11, StepOf

\* What an evaluator has behind it stays done while the tables grow.
LEMMA BehindStays ==
  ASSUME NEW e \in Evaluators, RunInv, Grow, pc[e] # "idle", ~ hurt[e], msg'[e] = msg[e]
  PROVE  /\ \A i \in 1 .. k[e] - 1 : Linked(msg[e], i)'
         /\ k[e] > 0 => from[e] # None /\ from[e] = page'[msg[e].url]
<1>1. EvaluatorInv(e) /\ Position(e) /\ OnCourse(e) /\ msg[e] \in Messages
  BY DEF RunInv, EvaluatorInv, Position
<1>2. PICK m \in Messages : m = msg[e]
  BY <1>1
<1>3. ASSUME NEW i \in 1 .. k[e] - 1  PROVE Linked(msg[e], i)'
  <2>1. k[e] > 0 /\ i \in 1 .. Len(m.links)
    BY <1>1, <1>2, MessageTypes DEF Position, Storing, Linking, Ending, RunInv, CacheInv
  <2>2. Linked(m, i) /\ page[m.url] # None
    BY <1>1, <1>2, <2>1 DEF OnCourse
  <2>3. Linked(m, i)'
    BY <2>1, <2>2, LinkedStays DEF RunInv
  <2>4. QED
    BY <1>2, <2>3
<1>4. k[e] > 0 => from[e] # None /\ from[e] = page'[msg[e].url]
  BY <1>1, MessageTypes DEF OnCourse, Grow
<1>5. QED
  BY <1>3, <1>4

LEMMA GetIdFromTableKeepsRun ==
  ASSUME NEW e \in Evaluators, RunInv, CacheInv', GetIdFromTable(e)
  PROVE  RunInv'
<1>1. /\ pc[e] = "get" /\ pc'[e] = "return" /\ hurt'[e] = TRUE /\ harm' = TRUE
      /\ UNCHANGED <<page, links, nextId, content, cache, delivered, msg, k, from,
                     toCrawler, toIndex, finished>>
  BY DEF GetIdFromTable, At, Goto, Hurt, RunInv, CacheInv, Shape, out
<1>2. \A d \in Evaluators \ {e} : Still(d)
  BY DEF GetIdFromTable, Goto, Hurt, RunInv, CacheInv, Shape, Still
<1>3. Shape' /\ TableInv' /\ Grow /\ Honest
  BY <1>1 DEF GetIdFromTable, Hurt, Shape, TableInv, Grow, Honest, RunInv
<1>4. CrawlTruthful'
  BY <1>1 DEF CrawlTruthful
<1>5. ResultInv'
  BY <1>1, <1>3, <1>4, ResultsStay
<1>6. EvaluatorInv(e)'
  BY <1>1 DEF RunInv, EvaluatorInv, Position, KeyIsThere, Storing, Linking, Ending
<1>7. QED
  BY <1>1, <1>2, <1>3, <1>5, <1>6, StepOf

\* One count more.
LEMMA OneMore ==
  ASSUME NEW S, NEW f \in [S -> Nat], NEW q
  PROVE  /\ [f EXCEPT ![q] = @ + 1] \in [S -> Nat]
         /\ \A x \in S : [f EXCEPT ![q] = @ + 1][x] = IF x = q THEN f[x] + 1 ELSE f[x]
<1> DEFINE g == [f EXCEPT ![q] = @ + 1]
<1>1. DOMAIN g = S /\ \A x \in S : g[x] = IF x = q THEN f[x] + 1 ELSE f[x]
  OBVIOUS
<1>2. \A x \in S : g[x] \in Nat
  BY <1>1
<1>3. g = [x \in S |-> g[x]]
  BY <1>1
<1> HIDE DEF g
<1>4. g \in [S -> Nat]
  BY <1>2, <1>3
<1>5. QED
  BY <1>1, <1>4 DEF g

\* The foreign keys let only ids of rows in, and a record never goes away.
LEMMA InsertLinkKeepsRun ==
  ASSUME NEW e \in Evaluators, RunInv, CacheInv', InsertLink(e)
  PROVE  RunInv'
<1> DEFINE p == <<from[e], ret[e]>>
           rows == {page[u] : u \in Urls}
<1>1. /\ pc[e] = "linkinsert" /\ pc'[e] = "pushurl"
      /\ UNCHANGED <<page, crawl, nextId, content, cache, delivered, msg, k, from, ret,
                     toCrawler, toIndex, finished>>
      /\ ~ harm' => ~ harm
      /\ \A d \in Evaluators : ~ hurt'[d] => ~ hurt[d]
  BY DEF InsertLink, At, Goto, Hurt, RunInv, CacheInv, Shape, out, local, ghost
<1>2. \A d \in Evaluators \ {e} : Still(d)
  BY DEF InsertLink, Goto, Hurt, RunInv, CacheInv, Shape, Still, local, ghost
<1>3. \/ links' = [links EXCEPT ![p] = @ + 1] /\ {from[e], ret[e]} \subseteq rows
      \/ links' = links /\ harm' = TRUE /\ hurt'[e] = TRUE
  BY DEF InsertLink, Hurt, RunInv, Shape
<1>4. /\ links' \in [Pairs -> Nat]
      /\ \A q \in Pairs : links[q] > 0 => links'[q] > 0
      /\ \A q \in Pairs : links'[q] > 0 => links[q] > 0 \/ (q = p /\ {from[e], ret[e]} \subseteq rows)
  <2>1. links \in [Pairs -> Nat]
    BY DEF RunInv, TableInv
  <2>2. CASE links' = [links EXCEPT ![p] = @ + 1] /\ {from[e], ret[e]} \subseteq rows
    <3>1. /\ links' \in [Pairs -> Nat]
          /\ \A q \in Pairs : links'[q] = IF q = p THEN links[q] + 1 ELSE links[q]
      BY <2>1, <2>2, OneMore, Zenon
    <3>2. QED
      BY <2>1, <2>2, <3>1
  <2>3. CASE links' = links
    BY <2>1, <2>3
  <2>4. QED
    BY <1>3, <2>2, <2>3
<1>5. Shape' /\ Grow /\ Honest
  BY <1>1, <1>4 DEF InsertLink, Hurt, ghost, Shape, Grow, Honest, RunInv, ResultInv
<1>6. TableInv'
  BY <1>1, <1>4 DEF TableInv, RunInv
<1>7. CrawlTruthful'
  BY <1>1 DEF CrawlTruthful, RunInv, ResultInv
<1>8. ResultInv'
  BY <1>1, <1>5, <1>7, ResultsStay
<1>9. EvaluatorInv(e) /\ Position(e) /\ Url(e)' = Url(e)
  BY <1>1 DEF RunInv, EvaluatorInv, Url
<1>10. EvaluatorInv(e)'
  <2>1. Position(e)'
    BY <1>1, <1>9 DEF Position, Storing, Linking, Ending
  <2>2. ASSUME ~ hurt'[e]  PROVE OnCourse(e)'
    <3>1. OnCourse(e) /\ ~ hurt[e] /\ k[e] > 0 /\ msg[e] \in Messages
      BY <1>1, <1>9, <2>2, MessageTypes DEF EvaluatorInv, Position, Linking
    <3>2. Url(e) \in Urls /\ msg[e].url \in Urls
      BY <1>1, <1>9, <3>1, UrlType, MessageTypes DEF Linking, RunInv
    <3>3. p \in Pairs
      BY <1>1, <3>1, <3>2, PairOfRows DEF OnCourse, Linking, RunInv
    <3>4. links[p] \in Nat
      BY <3>3 DEF RunInv, TableInv
    <3>5. links'[p] > 0
      BY <1>3, <2>2, <3>3, <3>4 DEF RunInv, TableInv
    <3>6. \A i \in 1 .. k[e] - 1 : Linked(msg[e], i)'
      BY <1>1, <1>5, <3>1, BehindStays
    <3>7. QED
      BY <1>1, <1>9, <3>1, <3>5, <3>6 DEF OnCourse, Linking
  <2>3. QED
    BY <1>1, <2>1, <2>2 DEF EvaluatorInv, KeyIsThere
<1>11. QED
  BY <1>1, <1>2, <1>5, <1>6, <1>8, <1>10, StepOf

\* The link e was at is done; e goes on to the next or to the end.
LEMMA PushUrlKeepsRun ==
  ASSUME NEW e \in Evaluators, RunInv, CacheInv', PushUrl(e)
  PROVE  RunInv'
<1>1. /\ pc[e] = "pushurl" /\ pc'[e] = Link(e, k[e] + 1) /\ k'[e] = k[e] + 1
      /\ toCrawler' = toCrawler \cup {Url(e)}
      /\ UNCHANGED <<page, crawl, nextId, links, content, cache, delivered, msg, from, ret,
                     toIndex, finished, hurt, harm>>
  BY DEF PushUrl, At, Goto, RunInv, CacheInv, tables, ghost
<1>2. \A d \in Evaluators \ {e} : Still(d)
  BY DEF PushUrl, Goto, RunInv, CacheInv, Still, tables, ghost
<1>3. Shape' /\ Grow /\ Honest /\ TableInv'
  BY <1>1 DEF PushUrl, tables, Shape, Grow, Honest, RunInv, ResultInv, TableInv
<1>4. CrawlTruthful'
  BY <1>1 DEF CrawlTruthful, RunInv, ResultInv
<1>5. ResultInv'
  BY <1>1, <1>3, <1>4, ResultsStay
<1>6. /\ EvaluatorInv(e) /\ Position(e) /\ msg[e] \in Messages
      /\ k[e] \in 1 .. Len(msg[e].links) /\ Len(msg[e].links) \in Nat
  BY <1>1, MessageTypes DEF RunInv, EvaluatorInv, Position, Linking
<1>7. Position(e)'
  BY <1>1, <1>6 DEF Position, Link, Storing, Linking, Ending
<1>8. ASSUME ~ hurt'[e]  PROVE OnCourse(e)'
  <2>1. OnCourse(e) /\ ~ hurt[e] /\ k[e] > 0
    BY <1>1, <1>6, <1>8 DEF EvaluatorInv
  <2>2. /\ \A i \in 1 .. k[e] - 1 : Linked(msg[e], i)'
        /\ from[e] # None /\ from[e] = page'[msg[e].url]
    BY <1>1, <1>3, <2>1, BehindStays
  <2>3. PICK n \in Nat : n = k[e]
    BY <1>6
  <2>4. Linked(msg[e], n)'
    <3>1. Url(e) = msg[e].links[k[e]]
      BY <1>6, <2>1 DEF Url
    <3>2. ret[e] # None /\ ret[e] = page[Url(e)] /\ links[<<from[e], ret[e]>>] > 0
      BY <1>1, <2>1 DEF OnCourse, Linking
    <3>3. QED
      BY <1>1, <2>2, <2>3, <3>1, <3>2 DEF Linked
  <2>5. \A i \in 1 .. k'[e] - 1 : Linked(msg[e], i)'
    <3>1. \A i \in 1 .. k'[e] - 1 : i \in 1 .. k[e] - 1 \/ i = n
      BY <1>1, <1>6, <2>3
    <3>2. QED
      BY <2>2, <2>4, <3>1, Zenon
  <2>6. QED
    BY <1>1, <2>2, <2>5 DEF OnCourse, Link, Linking
<1>9. EvaluatorInv(e)'
  BY <1>1, <1>7, <1>8 DEF EvaluatorInv, KeyIsThere, Link
<1>10. QED
  BY <1>1, <1>2, <1>3, <1>5, <1>9, StepOf

\* Past its last link, an evaluator that is not hurt has the id of its page.
LEMMA AtTheEnd ==
  ASSUME NEW e \in Evaluators, RunInv, pc[e] \in Ending
  PROVE  /\ msg[e] \in Messages /\ msg[e].url \in Urls /\ delivered[msg[e]] > 0
         /\ ~ hurt[e] => /\ from[e] # None /\ from[e] = page[msg[e].url]
                         /\ \A i \in 1 .. Len(msg[e].links) : Linked(msg[e], i)
<1>1. EvaluatorInv(e) /\ Position(e) /\ pc[e] # "idle"
  BY DEF RunInv, EvaluatorInv, Ending
<1>2. msg[e] \in Messages /\ k[e] = Len(msg[e].links) + 1
  BY <1>1 DEF Position, Ending
<1>3. Len(msg[e].links) \in Nat /\ msg[e].url \in Urls
  BY <1>2, MessageTypes
<1>4. k[e] > 0 /\ k[e] - 1 = Len(msg[e].links)
  BY <1>2, <1>3
<1>5. QED
  BY <1>1, <1>2, <1>3, <1>4 DEF EvaluatorInv, OnCourse, Position

LEMMA UpdateContentKeepsRun ==
  ASSUME NEW e \in Evaluators, RunInv, CacheInv', UpdateContent(e)
  PROVE  RunInv'
<1>1. /\ pc[e] = "content" /\ pc'[e] \in {"push", "idle"}
      /\ UNCHANGED <<page, nextId, links, cache, delivered, msg, k, from, ret,
                     toCrawler, toIndex, finished, hurt, harm, lastId>>
  BY DEF UpdateContent, At, Goto, RunInv, CacheInv, local, out, ghost
<1>2. \A d \in Evaluators \ {e} : Still(d)
  BY <1>1 DEF UpdateContent, Goto, RunInv, CacheInv, Still
<1>3. \/ /\ content' = [i \in Ids |-> IF i = from[e] THEN msg[e].url ELSE content[i]]
         /\ crawl' = [u \in Urls |-> IF page[u] = from[e] THEN 1 ELSE crawl[u]]
      \/ UNCHANGED <<content, crawl>>
  BY DEF UpdateContent
<1>4. Shape' /\ Grow /\ Honest /\ TableInv'
  BY <1>1, <1>3 DEF Shape, Grow, Honest, RunInv, ResultInv, TableInv
<1>5. ResultInv'
  <2>1. CASE UNCHANGED <<content, crawl>>
    <3>1. CrawlTruthful'
      BY <1>1, <2>1 DEF CrawlTruthful, RunInv, ResultInv
    <3>2. QED
      BY <1>1, <1>4, <2>1, <3>1, ResultsStay
  <2>2. CASE /\ content' = [i \in Ids |-> IF i = from[e] THEN msg[e].url ELSE content[i]]
             /\ crawl' = [u \in Urls |-> IF page[u] = from[e] THEN 1 ELSE crawl[u]]
    <3>1. ~ harm => /\ msg[e].url \in Urls /\ delivered[msg[e]] > 0 /\ msg[e] \in Messages
                    /\ from[e] # None /\ from[e] = page[msg[e].url]
      BY <1>1, AtTheEnd DEF Ending, RunInv, ResultInv
    <3>2. CrawlTruthful'
      <4>1. SUFFICES ASSUME ~ harm, NEW u \in Urls, crawl'[u] = 1
                     PROVE  \E m \in Messages : m.url = u /\ delivered[m] > 0
        BY <1>1 DEF CrawlTruthful
      <4>2. CASE page[u] = from[e]
        <5>1. u = msg[e].url
          BY <3>1, <4>1, <4>2 DEF RunInv, TableInv
        <5>2. QED
          BY <3>1, <4>1, <5>1
      <4>3. CASE page[u] # from[e]
        BY <2>2, <4>1, <4>3 DEF RunInv, ResultInv, CrawlTruthful
      <4>4. QED
        BY <4>2, <4>3
    <3>3. ~ harm => \A i \in Ids :
              /\ content'[i] \in Urls \cup {None}
              /\ content'[i] # None => page[content'[i]] = i
      BY <2>2, <3>1 DEF RunInv, ResultInv, FinishedIsComplete, PageGoesUnderItsId
    <3>4. FinishedIsLinked' /\ PageGoesUnderItsId'
      BY <1>1, <3>3 DEF RunInv, ResultInv, FinishedIsComplete, PageGoesUnderItsId,
                        FinishedIsLinked, Linked
    <3>5. QED
      BY <1>1, <3>2, <3>3, <3>4 DEF RunInv, ResultInv, FinishedIsComplete
  <2>3. QED
    BY <1>3, <2>1, <2>2
<1>6. EvaluatorInv(e)'
  <2>1. EvaluatorInv(e) /\ Position(e)
    BY <1>1 DEF RunInv, EvaluatorInv
  <2>2. pc'[e] = "push" => Position(e)'
    BY <1>1, <2>1 DEF Position, Storing, Linking, Ending
  <2>3. ASSUME ~ hurt'[e], pc'[e] = "push"  PROVE OnCourse(e)'
    <3>1. OnCourse(e)
      BY <1>1, <2>1, <2>3 DEF EvaluatorInv
    <3>2. \A i \in 1 .. k[e] - 1 : Linked(msg[e], i)'
      BY <1>1, <3>1 DEF OnCourse, Linked
    <3>3. QED
      BY <1>1, <2>3, <3>1, <3>2 DEF OnCourse, Linking
  <2>4. QED
    BY <1>1, <2>2, <2>3 DEF EvaluatorInv, KeyIsThere
<1>7. QED
  BY <1>1, <1>2, <1>4, <1>5, <1>6, StepOf

\* The page goes to the index builder under from_page_id, which is its id.
LEMMA PushPageKeepsRun ==
  ASSUME NEW e \in Evaluators, RunInv, CacheInv', PushPage(e)
  PROVE  RunInv'
<1> DEFINE sent == [id |-> from[e], url |-> msg[e].url]
<1>1. /\ pc[e] = "push" /\ pc'[e] = "idle"
      /\ toIndex' = toIndex \cup {sent}
      /\ finished' = finished \cup (IF hurt[e] THEN {} ELSE {msg[e]})
      /\ UNCHANGED <<page, crawl, nextId, links, content, cache, delivered, msg, k, from, ret,
                     toCrawler, hurt, harm, lastId>>
  BY DEF PushPage, At, Goto, RunInv, CacheInv, tables, local, ghost
<1>2. \A d \in Evaluators \ {e} : Still(d)
  BY <1>1 DEF PushPage, Goto, RunInv, CacheInv, Still
<1>3. Shape' /\ Grow /\ Honest /\ TableInv'
  BY <1>1 DEF Shape, Grow, Honest, RunInv, ResultInv, TableInv
<1>4. /\ msg[e] \in Messages /\ msg[e].url \in Urls
      /\ ~ hurt[e] => /\ from[e] # None /\ from[e] = page[msg[e].url]
                      /\ \A i \in 1 .. Len(msg[e].links) : Linked(msg[e], i)
  BY <1>1, AtTheEnd DEF Ending
<1>5. ResultInv'
  <2>1. \A m \in finished' : m \in finished \/ (~ hurt[e] /\ m = msg[e])
    BY <1>1
  <2>2. \A m \in finished' : m \in Messages /\ page[m.url] # None
    BY <1>4, <2>1 DEF RunInv, ResultInv
  <2>3. FinishedIsLinked'
    <3>1. ASSUME NEW m \in finished', NEW i \in DOMAIN m.links  PROVE Linked(m, i)
      BY <1>4, <2>1, MessageTypes
         DEF RunInv, ResultInv, FinishedIsComplete, FinishedIsLinked
    <3>2. QED
      BY <1>1, <3>1 DEF FinishedIsLinked, Linked
  <2>4. PageGoesUnderItsId'
    <3>1. \A m \in finished' : [id |-> page[m.url], url |-> m.url] \in toIndex'
      BY <1>1, <1>4, <2>1 DEF RunInv, ResultInv, FinishedIsComplete, PageGoesUnderItsId
    <3>2. ~ harm => \A p \in toIndex' : p.id = page[p.url]
      BY <1>1, <1>4 DEF RunInv, ResultInv, FinishedIsComplete, PageGoesUnderItsId
    <3>3. QED
      BY <1>1, <3>1, <3>2 DEF RunInv, ResultInv, FinishedIsComplete, PageGoesUnderItsId
  <2>5. ~ harm => \A p \in toIndex' : p.url \in Urls /\ p.id # None
    BY <1>1, <1>4 DEF RunInv, ResultInv
  <2>6. CrawlTruthful'
    BY <1>1 DEF CrawlTruthful, RunInv, ResultInv
  <2>7. QED
    BY <1>1, <2>2, <2>3, <2>4, <2>5, <2>6 DEF RunInv, ResultInv, FinishedIsComplete
<1>6. EvaluatorInv(e)'
  BY GivenUp
<1>7. QED
  BY <1>1, <1>2, <1>3, <1>5, <1>6, StepOf

\* Steps of no evaluator: a key expires, a connection fails, nothing happens.
LEMMA OutsideStep ==
  ASSUME RunInv, CacheInv',
         UNCHANGED <<tables, delivered, lastId, pc, local, out, ghost>>,
         \A d \in Evaluators, u \in Urls : cache[u] # None =>
             cache'[u] # None \/ (pc[d] \in {"cachemeta", "get"} => Url(d) # u)
  PROVE  RunInv'
<1> USE DEF tables, local, out, ghost
<1>1. Shape' /\ TableInv' /\ Grow /\ Honest /\ CrawlTruthful'
  BY DEF Shape, TableInv, Grow, Honest, RunInv, ResultInv, CrawlTruthful
<1>2. ResultInv'
  BY <1>1, ResultsStay
<1>3. ASSUME NEW d \in Evaluators  PROVE EvaluatorInv(d)'
  <2>1. Still(d)
    BY DEF Still
  <2>2. QED
    BY <1>1, <2>1, StaysOnCourse DEF RunInv
<1>4. QED
  BY <1>1, <1>2, <1>3 DEF RunInv

LEMMA StepRunInv == RunInv /\ [Next]_vars => RunInv'
<1> SUFFICES ASSUME RunInv, [Next]_vars  PROVE RunInv'
  OBVIOUS
<1>1. CacheInv'
  BY StepCacheInv DEF RunInv
<1>2. ASSUME NEW e \in Evaluators, Step(e)  PROVE RunInv'
  <2>1. CASE RedisFails(e)
    BY <1>1, <2>1, OutsideStep DEF RedisFails
  <2>2. CASE \E m \in Messages : Take(e, m)
    BY <1>1, <2>2, TakeKeepsRun
  <2>3. CASE Select(e)
    BY <1>1, <2>3, MinorSteps, SelectKeepsRun, MinorStep
  <2>4. CASE CacheId(e)
    BY <1>1, <2>4, MinorSteps, CacheIdKeepsRun, MinorStep
  <2>5. CASE CacheMeta(e)
    BY <1>1, <2>5, MinorSteps, CacheMetaKeepsRun, MinorStep
  <2>6. CASE GetId(e)
    BY <1>1, <2>6, MinorSteps, GetIdKeepsRun, MinorStep
  <2>7. CASE GetIdRefused(e) \/ RefuseShort(e)
    BY <1>1, <2>7, MinorSteps, GivenUp, MinorStep
  <2>8. CASE Return(e)
    BY <1>1, <2>8, MinorSteps, ReturnKeepsRun, MinorStep
  <2>9. CASE CountLink(e)
    BY <1>1, <2>9, MinorSteps, CountLinkKeepsRun, MinorStep
  <2>10. CASE UpdateCount(e)
    BY <1>1, <2>10, UpdateCountIsMinor, MinorStep
  <2>11. CASE Insert(e)
    BY <1>1, <2>11, InsertKeepsRun
  <2>12. CASE GetIdFromTable(e)
    BY <1>1, <2>12, GetIdFromTableKeepsRun
  <2>13. CASE InsertLink(e)
    BY <1>1, <2>13, InsertLinkKeepsRun
  <2>14. CASE PushUrl(e)
    BY <1>1, <2>14, PushUrlKeepsRun
  <2>15. CASE UpdateContent(e)
    BY <1>1, <2>15, UpdateContentKeepsRun
  <2>16. CASE PushPage(e)
    BY <1>1, <2>16, PushPageKeepsRun
  <2>17. QED
    BY <1>2, <2>1, <2>2, <2>3, <2>4, <2>5, <2>6, <2>7, <2>8, <2>9, <2>10, <2>11,
       <2>12, <2>13, <2>14, <2>15, <2>16 DEF Step
<1>3. ASSUME NEW u \in Urls, Expire(u)  PROVE RunInv'
  <2>1. \A v \in Urls : v # u => cache'[v] = cache[v]
    BY <1>3 DEF Expire
  <2>2. QED
    BY <1>1, <1>3, <2>1, OutsideStep DEF Expire
<1>4. CASE UNCHANGED vars
  BY <1>1, <1>4, OutsideStep DEF vars
<1>5. QED
  BY <1>2, <1>3, <1>4 DEF Next

LEMMA RunInvHolds == Spec => []RunInv
  BY InitRunInv, StepRunInv, PTL DEF Spec

\* store_weblink2db returns the id of the row of its url (evaluator.cpp:306-311),
\* however many evaluators race for it, unless redis or MySQL failed this call.
THEOREM IdIsReturned == Spec => []StoreReturnsId
<1>1. RunInv => StoreReturnsId
  BY DEF RunInv, StoreReturnsId, EvaluatorInv, OnCourse, At
<1>2. QED
  BY <1>1, RunInvHolds, PTL

\* A page that run took to the end unhurt has its links in LinkTable, its urls
\* with the crawler and itself with the index builder, all under its own id.
THEOREM FinishedPagesAreComplete == Spec => []FinishedIsComplete
<1>1. RunInv => FinishedIsComplete
  BY DEF RunInv, ResultInv
<1>2. QED
  BY <1>1, RunInvHolds, PTL

\* The Crawl column (evaluator.cpp:324-335) is 1 only for pages that came from
\* the crawler, as long as no statement was refused.
THEOREM CrawlIsTrue == Spec => []CrawlTruthful
<1>1. RunInv => CrawlTruthful
  BY DEF RunInv, ResultInv
<1>2. QED
  BY <1>1, RunInvHolds, PTL

-----------------------------------------------------------------------------
(***************************************************************************)
(* LinkCountInv: how often one link can be recorded.                       *)
(***************************************************************************)

\* The sets that are counted are finite.
LEMMA CountedSets ==
  /\ \A S \in SUBSET Evaluators : IsFiniteSet(S) /\ Cardinality(S) \in Nat
  /\ \A u : IsFiniteSet(Deliveries(u)) /\ Cardinality(Deliveries(u)) \in Nat
  /\ Cardinality(Evaluators) \in Nat
<1>1. IsFiniteSet(Evaluators) /\ IsFiniteSet(Messages) /\ IsFiniteSet(1 .. MaxDeliveries)
  BY EvaluatorAssumption, FS_Interval
<1>2. IsFiniteSet(Messages \X (1 .. MaxDeliveries))
  BY <1>1, FS_Product
<1>3. \A u : Deliveries(u) \subseteq Messages \X (1 .. MaxDeliveries)
  BY DEF Deliveries
<1>4. \A u : IsFiniteSet(Deliveries(u))
  BY <1>2, <1>3, FS_Subset
<1>5. \A S \in SUBSET Evaluators : IsFiniteSet(S)
  BY <1>1, FS_Subset
<1>6. QED
  BY <1>1, <1>4, <1>5, FS_CardinalityType

\* Only part of a finite set counts for no more than the whole.
LEMMA PartCounts ==
  ASSUME NEW S, NEW T, IsFiniteSet(S), T \subseteq S
  PROVE  Cardinality(T) \in Nat /\ Cardinality(S) \in Nat /\ Cardinality(T) <= Cardinality(S)
BY FS_Subset, FS_CardinalityType

LEMMA InitLinkCountInv == Init => LinkCountInv
<1> SUFFICES ASSUME Init  PROVE LinkCountInv
  OBVIOUS
<1>1. \A p : AboutToInsert(p) = {}
  BY DEF Init, AboutToInsert
<1>2. \A u : BusyWith(u) = {}
  BY DEF Init, BusyWith
<1>3. Cardinality({}) = 0
  BY FS_EmptySet
<1>4. \A p \in Pairs : links[p] = 0
  BY DEF Init
<1>5. \A u \in Urls : page[u] = None
  BY DEF Init
<1>6. \A p \in Pairs :
          links[p] + Cardinality(AboutToInsert(p)) <= Cardinality(Evaluators)
  <2>1. SUFFICES ASSUME NEW p \in Pairs
                 PROVE  links[p] + Cardinality(AboutToInsert(p)) <= Cardinality(Evaluators)
    OBVIOUS
  <2>2. Cardinality(AboutToInsert(p)) = 0 /\ links[p] = 0
    BY <1>1, <1>3, <1>4
  <2>3. QED
    BY <2>2, CountedSets
<1>7. \A u \in Urls : Cardinality(BusyWith(u)) <= Cardinality(Deliveries(u))
  <2>1. SUFFICES ASSUME NEW u \in Urls
                 PROVE  Cardinality(BusyWith(u)) <= Cardinality(Deliveries(u))
    OBVIOUS
  <2>2. Cardinality(BusyWith(u)) = 0
    BY <1>2, <1>3
  <2>3. QED
    BY <2>2, CountedSets
<1>8. QED
  BY <1>5, <1>6, <1>7 DEF LinkCountInv

\* While nobody was hurt, who is about to record a link of u is busy with u.
LEMMA RecordersAreBusy ==
  ASSUME RunInv, ~ harm, NEW u \in Urls, page[u] # None, NEW i
  PROVE  AboutToInsert(<<page[u], i>>) \subseteq BusyWith(u)
<1> SUFFICES ASSUME NEW d \in Evaluators, pc[d] = "linkinsert", from[d] = page[u]
             PROVE  msg[d].url = u
  BY DEF AboutToInsert, BusyWith
<1>1. ~ hurt[d] /\ EvaluatorInv(d)
  BY DEF RunInv, ResultInv
<1>2. Position(d) /\ OnCourse(d)
  BY <1>1 DEF EvaluatorInv
<1>3. msg[d].url \in Urls /\ k[d] > 0
  BY <1>2, MessageTypes DEF Position, Linking
<1>4. from[d] = page[msg[d].url]
  BY <1>2, <1>3 DEF OnCourse
<1>5. QED
  BY <1>3, <1>4 DEF RunInv, TableInv

LEMMA NextDeliveries == \A u : IsFiniteSet(Deliveries(u)')
<1>1. IsFiniteSet(Messages) /\ IsFiniteSet(1 .. MaxDeliveries)
  BY EvaluatorAssumption, FS_Interval
<1>2. IsFiniteSet(Messages \X (1 .. MaxDeliveries))
  BY <1>1, FS_Product
<1>3. \A u : Deliveries(u)' \subseteq Messages \X (1 .. MaxDeliveries)
  BY DEF Deliveries
<1>4. QED
  BY <1>2, <1>3, FS_Subset

\* Deliveries are never taken back.
LEMMA DeliveriesStay ==
  ASSUME NEW u, \A m \in Messages : delivered[m] <= delivered'[m],
         delivered \in [Messages -> 0 .. MaxDeliveries],
         delivered' \in [Messages -> 0 .. MaxDeliveries]
  PROVE  /\ Cardinality(Deliveries(u)) \in Nat /\ Cardinality(Deliveries(u)') \in Nat
         /\ Cardinality(Deliveries(u)) <= Cardinality(Deliveries(u)')
<1>1. Deliveries(u) \subseteq Deliveries(u)'
  BY EvaluatorAssumption DEF Deliveries
<1>2. QED
  BY <1>1, NextDeliveries, PartCounts

\* A new row has no records yet and nobody about to record one.
LEMMA NewRowUnlinked ==
  ASSUME RunInv, ~ harm, NEW i
  PROVE  AboutToInsert(<<nextId, i>>) = {}
<1> SUFFICES ASSUME NEW d \in Evaluators, pc[d] = "linkinsert", from[d] = nextId
             PROVE  FALSE
  BY DEF AboutToInsert
<1>1. ~ hurt[d] /\ EvaluatorInv(d)
  BY DEF RunInv, ResultInv
<1>2. Position(d) /\ OnCourse(d)
  BY <1>1 DEF EvaluatorInv
<1>3. msg[d].url \in Urls /\ k[d] > 0
  BY <1>2, MessageTypes DEF Position, Linking
<1>4. from[d] # None /\ from[d] = page[msg[d].url]
  BY <1>2, <1>3 DEF OnCourse
<1>5. QED
  BY <1>3, <1>4 DEF RunInv, TableInv, CacheInv

\* A step that records nothing, and after which nobody new is about to record:
\* rows and deliveries only get more.
LEMMA NothingRecorded ==
  ASSUME RunInv, RunInv', LinkCountInv, links' = links, ~ harm' => ~ harm,
         \A p \in Pairs : AboutToInsert(p)' \subseteq AboutToInsert(p),
         \A u \in Urls : Cardinality(BusyWith(u)') <= Cardinality(Deliveries(u)'),
         \A m \in Messages : delivered[m] <= delivered'[m],
         \A u \in Urls : page'[u] # page[u] => page[u] = None /\ page'[u] = nextId
  PROVE  LinkCountInv'
<1>1. ASSUME NEW p \in Pairs
      PROVE  /\ Cardinality(AboutToInsert(p)') <= Cardinality(AboutToInsert(p))
             /\ Cardinality(AboutToInsert(p)') \in Nat
             /\ Cardinality(AboutToInsert(p)) \in Nat
             /\ links[p] \in Nat
  <2>1. IsFiniteSet(AboutToInsert(p))
    BY CountedSets DEF AboutToInsert
  <2>2. AboutToInsert(p)' \subseteq AboutToInsert(p)
    OBVIOUS
  <2>3. links[p] \in Nat
    BY DEF RunInv, TableInv
  <2>4. QED
    BY <2>1, <2>2, <2>3, PartCounts
<1>2. ASSUME NEW p \in Pairs
      PROVE  links'[p] + Cardinality(AboutToInsert(p)') <= Cardinality(Evaluators)
  <2>1. links[p] + Cardinality(AboutToInsert(p)) <= Cardinality(Evaluators)
    BY DEF LinkCountInv
  <2>2. QED
    BY <1>1, <2>1, CountedSets
<1>3. ASSUME ~ harm', NEW u \in Urls, NEW i \in Ids, NEW n \in Ids, n = page'[u]
      PROVE  links'[<<n, i>>] + Cardinality(AboutToInsert(<<n, i>>)')
                 <= Cardinality(Deliveries(u)')
  <2>1. <<n, i>> \in Pairs
    BY EvaluatorAssumption DEF Pairs, Ids
  <2>2. /\ Cardinality(Deliveries(u)) \in Nat /\ Cardinality(Deliveries(u)') \in Nat
        /\ Cardinality(Deliveries(u)) <= Cardinality(Deliveries(u)')
    BY DeliveriesStay DEF RunInv, Shape
  <2>3. links[<<n, i>>] + Cardinality(AboutToInsert(<<n, i>>)) <= Cardinality(Deliveries(u))
    <3>1. CASE page[u] = n
      <4>1. n # None
        BY EvaluatorAssumption DEF Ids
      <4>2. QED
        BY <1>3, <3>1, <4>1 DEF LinkCountInv
    <3>2. CASE page[u] # n
      <4>1. page[u] = None /\ n = nextId
        BY <1>3, <3>2
      <4>2. AboutToInsert(<<n, i>>) = {}
        BY <1>3, <4>1, NewRowUnlinked
      <4>3. n \notin {page[v] : v \in Urls}
        BY <4>1, EvaluatorAssumption DEF RunInv, TableInv, CacheInv, Ids
      <4>4. links[<<n, i>>] = 0
        BY <2>1, <4>3, <1>1 DEF RunInv, TableInv
      <4>5. Cardinality(AboutToInsert(<<n, i>>)) = 0
        BY <4>2, FS_EmptySet, Zenon
      <4>6. QED
        BY <2>2, <4>4, <4>5
    <3>3. QED
      BY <3>1, <3>2
  <2>4. QED
    BY <1>1, <2>1, <2>2, <2>3
<1>4. ASSUME ~ harm', NEW u \in Urls, NEW i \in Ids, page'[u] # None
      PROVE  links'[<<page'[u], i>>]
                 + Cardinality({e \in Evaluators : pc'[e] = "linkinsert"
                                    /\ <<from'[e], ret'[e]>> = <<page'[u], i>>})
                 <= Cardinality(Deliveries(u)')
  <2>1. PICK n \in Ids : n = page'[u]
    BY <1>4 DEF RunInv, CacheInv
  <2>2. QED
    BY <1>3, <1>4, <2>1, Zenon DEF AboutToInsert
<1>5. QED
  BY <1>2, <1>4 DEF LinkCountInv, AboutToInsert

\* A delivery that e takes counts for its page.
LEMMA TakeCounts ==
  ASSUME NEW e \in Evaluators, RunInv, RunInv', LinkCountInv,
         NEW m \in Messages, Take(e, m), NEW u \in Urls
  PROVE  Cardinality(BusyWith(u)') <= Cardinality(Deliveries(u)')
<1> DEFINE taken == <<m, delivered[m] + 1>>
<1>1. /\ pc[e] = "idle" /\ delivered[m] < MaxDeliveries /\ delivered[m] \in Nat
      /\ delivered' = [delivered EXCEPT ![m] = @ + 1]
      /\ \A d \in Evaluators \ {e} : pc'[d] = pc[d] /\ msg'[d] = msg[d]
      /\ msg'[e] = m
  BY DEF Take, At, Goto, RunInv, Shape, CacheInv
<1>2. /\ IsFiniteSet(BusyWith(u)) /\ IsFiniteSet(Deliveries(u))
      /\ Cardinality(BusyWith(u)) \in Nat /\ Cardinality(Deliveries(u)) \in Nat
      /\ Cardinality(BusyWith(u)) <= Cardinality(Deliveries(u))
  BY CountedSets DEF BusyWith, LinkCountInv
<1>3. \A n \in Messages : delivered[n] <= delivered'[n]
  BY <1>1 DEF RunInv, Shape
<1>4. /\ Cardinality(Deliveries(u)) <= Cardinality(Deliveries(u)')
      /\ Cardinality(Deliveries(u)') \in Nat
  BY <1>3, DeliveriesStay DEF RunInv, Shape
<1>5. CASE m.url = u
  <2>1. BusyWith(u)' \subseteq BusyWith(u) \cup {e}
    BY <1>1 DEF BusyWith
  <2>2. Cardinality(BusyWith(u)') <= Cardinality(BusyWith(u)) + 1
        /\ Cardinality(BusyWith(u)') \in Nat
    <3>1. /\ IsFiniteSet(BusyWith(u) \cup {e})
          /\ Cardinality(BusyWith(u) \cup {e}) = Cardinality(BusyWith(u)) + 1
      <4>1. e \notin BusyWith(u)
        BY <1>1 DEF BusyWith
      <4>2. QED
        BY <1>2, <4>1, FS_AddElement, Zenon
    <3>2. /\ Cardinality(BusyWith(u)') \in Nat /\ Cardinality(BusyWith(u) \cup {e}) \in Nat
          /\ Cardinality(BusyWith(u)') <= Cardinality(BusyWith(u) \cup {e})
      BY <2>1, <3>1, PartCounts
    <3>3. QED
      BY <1>2, <3>1, <3>2
  <2>3. taken \notin Deliveries(u)
    BY <1>1 DEF Deliveries
  <2>4. Deliveries(u) \cup {taken} \subseteq Deliveries(u)'
    <3>1. Deliveries(u) \subseteq Deliveries(u)'
      BY <1>3, EvaluatorAssumption DEF Deliveries, RunInv, Shape
    <3>2. delivered'[m] = delivered[m] + 1 /\ delivered[m] + 1 \in 1 .. MaxDeliveries
      BY <1>1, EvaluatorAssumption DEF RunInv, Shape
    <3>3. taken \in Deliveries(u)'
      BY <1>5, <3>2 DEF Deliveries
    <3>4. QED
      BY <3>1, <3>3
  <2>5. Cardinality(Deliveries(u)') >= Cardinality(Deliveries(u)) + 1
    <3>1. /\ IsFiniteSet(Deliveries(u) \cup {taken})
          /\ Cardinality(Deliveries(u) \cup {taken}) = Cardinality(Deliveries(u)) + 1
      BY <1>2, <2>3, FS_AddElement
    <3>2. Cardinality(Deliveries(u) \cup {taken}) <= Cardinality(Deliveries(u)')
      BY <2>4, NextDeliveries, PartCounts
    <3>3. QED
      BY <1>2, <1>4, <3>1, <3>2
  <2>6. QED
    BY <1>2, <1>4, <2>2, <2>5
<1>6. CASE m.url # u
  <2>1. BusyWith(u)' \subseteq BusyWith(u)
    BY <1>1, <1>6 DEF BusyWith
  <2>2. Cardinality(BusyWith(u)') <= Cardinality(BusyWith(u)) /\ Cardinality(BusyWith(u)') \in Nat
    BY <1>2, <2>1, PartCounts
  <2>3. QED
    BY <1>2, <1>4, <2>2
<1>7. QED
  BY <1>5, <1>6

\* Every other step leaves the deliveries and makes nobody busy.
LEMMA OthersCount ==
  ASSUME LinkCountInv, delivered' = delivered, msg' = msg,
         \A d \in Evaluators : pc'[d] # "idle" => pc[d] # "idle", NEW u \in Urls
  PROVE  Cardinality(BusyWith(u)') <= Cardinality(Deliveries(u)')
<1>1. BusyWith(u)' \subseteq BusyWith(u)
  BY DEF BusyWith
<1>2. IsFiniteSet(BusyWith(u))
  BY CountedSets DEF BusyWith
<1>3. /\ Cardinality(BusyWith(u)') <= Cardinality(BusyWith(u))
      /\ Cardinality(BusyWith(u)') \in Nat /\ Cardinality(BusyWith(u)) \in Nat
  BY <1>1, <1>2, PartCounts
<1>4. Deliveries(u)' = Deliveries(u)
  BY DEF Deliveries
<1>5. Cardinality(BusyWith(u)) <= Cardinality(Deliveries(u)) /\ Cardinality(Deliveries(u)) \in Nat
  BY CountedSets DEF LinkCountInv
<1>6. QED
  BY <1>3, <1>4, <1>5

\* The SELECT COUNT found none: however many evaluators are about to record the
\* link now, they are evaluators, and unhurt they have taken the page each.
LEMMA CountLinkCounts ==
  ASSUME NEW e \in Evaluators, RunInv, RunInv', LinkCountInv, CountLink(e)
  PROVE  LinkCountInv'
<1> DEFINE pair == <<from[e], ret[e]>>
<1>1. /\ pc[e] = "linkcount" /\ pc'[e] \in {"linkinsert", "pushurl"}
      /\ \A d \in Evaluators \ {e} : pc'[d] = pc[d]
      /\ pc'[e] = "linkinsert" => ~ links[pair] > 0
      /\ UNCHANGED <<page, links, delivered, msg, from, ret>>
      /\ ~ harm' => ~ harm
  BY DEF CountLink, At, Goto, Hurt, ghost, local, tables, RunInv, CacheInv
<1>2. \A u \in Urls : Cardinality(BusyWith(u)') <= Cardinality(Deliveries(u)')
  BY <1>1, OthersCount
<1>3. \A p : p # pair \/ pc'[e] = "pushurl" => AboutToInsert(p)' = AboutToInsert(p)
  BY <1>1 DEF AboutToInsert
<1>4. CASE pc'[e] = "pushurl"
  <2>1. \A p \in Pairs : AboutToInsert(p)' \subseteq AboutToInsert(p)
    BY <1>3, <1>4
  <2>2. \A m \in Messages : delivered[m] <= delivered'[m]
    BY <1>1 DEF RunInv, Shape
  <2>3. QED
    BY <1>1, <1>2, <2>1, <2>2, NothingRecorded
<1>5. CASE pc'[e] = "linkinsert"
  <2>1. ASSUME NEW p \in Pairs
        PROVE  links'[p] + Cardinality(AboutToInsert(p)') <= Cardinality(Evaluators)
    <3>1. CASE p # pair
      BY <1>1, <1>3, <3>1 DEF LinkCountInv
    <3>2. CASE p = pair
      <4>1. links[p] = 0
        BY <1>1, <1>5, <3>2 DEF RunInv, TableInv
      <4>2. AboutToInsert(p)' \subseteq Evaluators /\ IsFiniteSet(Evaluators)
        BY EvaluatorAssumption DEF AboutToInsert
      <4>3. /\ Cardinality(AboutToInsert(p)') \in Nat
            /\ Cardinality(AboutToInsert(p)') <= Cardinality(Evaluators)
        BY <4>2, PartCounts
      <4>4. QED
        BY <1>1, <4>1, <4>3
    <3>3. QED
      BY <3>1, <3>2
  <2>2. ASSUME ~ harm', NEW u \in Urls, NEW i \in Ids, page[u] # None
        PROVE  links[<<page[u], i>>]
                   + Cardinality({d \in Evaluators : pc'[d] = "linkinsert"
                                      /\ <<from[d], ret[d]>> = <<page[u], i>>})
                   <= Cardinality(Deliveries(u)')
    <3>1. PICK p \in Pairs : p = <<page[u], i>>
      <4>1. page[u] \in Ids
        BY <2>2 DEF RunInv, CacheInv
      <4>2. QED
        BY <2>2, <4>1, IdPair
    <3>2. Deliveries(u)' = Deliveries(u) /\ BusyWith(u) \subseteq BusyWith(u)'
      BY <1>1 DEF Deliveries, BusyWith
    <3>3. links[p] + Cardinality(AboutToInsert(p)') <= Cardinality(Deliveries(u)')
      <4>1. CASE p # pair
        BY <1>1, <1>3, <2>2, <3>1, <3>2, <4>1 DEF LinkCountInv
      <4>2. CASE p = pair
        <5>1. links[p] = 0
          BY <1>1, <1>5, <4>2 DEF RunInv, TableInv
        <5>2. AboutToInsert(p) \subseteq BusyWith(u)
          BY <1>1, <2>2, <3>1, RecordersAreBusy
        <5>3. e \in BusyWith(u)
          <6>1. ~ hurt[e] /\ EvaluatorInv(e)
            BY <1>1, <2>2 DEF RunInv, ResultInv
          <6>2. Position(e) /\ OnCourse(e)
            BY <1>1, <6>1 DEF EvaluatorInv
          <6>3. msg[e].url \in Urls /\ k[e] > 0
            BY <1>1, <6>2, MessageTypes DEF Position, Linking
          <6>4. from[e] = page[msg[e].url] /\ from[e] = page[u]
            BY <3>1, <4>2, <6>2, <6>3 DEF OnCourse
          <6>5. msg[e].url = u
            BY <2>2, <6>3, <6>4 DEF RunInv, TableInv
          <6>6. QED
            BY <1>1, <6>5 DEF BusyWith
        <5>4. AboutToInsert(p)' \subseteq AboutToInsert(p) \cup {e}
          BY <1>1 DEF AboutToInsert
        <5>5. AboutToInsert(p)' \subseteq BusyWith(u)'
          BY <3>2, <5>2, <5>3, <5>4
        <5>6. IsFiniteSet(BusyWith(u)')
          <6>1. BusyWith(u)' \subseteq Evaluators /\ IsFiniteSet(Evaluators)
            BY EvaluatorAssumption DEF BusyWith
          <6>2. QED
            BY <6>1, FS_Subset
        <5>7. /\ Cardinality(AboutToInsert(p)') <= Cardinality(BusyWith(u)')
              /\ Cardinality(AboutToInsert(p)') \in Nat /\ Cardinality(BusyWith(u)') \in Nat
          BY <5>5, <5>6, PartCounts
        <5>8. Cardinality(Deliveries(u)') \in Nat
          BY <3>2, CountedSets
        <5>9. QED
          BY <1>2, <5>1, <5>7, <5>8
      <4>3. QED
        BY <4>1, <4>2
    <3>4. QED
      BY <1>1, <3>1, <3>3, Zenon DEF AboutToInsert
  <2>3. QED
    BY <1>1, <1>2, <2>1, <2>2 DEF LinkCountInv, AboutToInsert
<1>6. QED
  BY <1>1, <1>4, <1>5

\* Who records a link is no longer about to.
LEMMA InsertLinkCounts ==
  ASSUME NEW e \in Evaluators, RunInv, RunInv', LinkCountInv, InsertLink(e)
  PROVE  LinkCountInv'
<1> DEFINE pair == <<from[e], ret[e]>>
<1>1. /\ pc[e] = "linkinsert" /\ pc'[e] = "pushurl"
      /\ \A d \in Evaluators \ {e} : pc'[d] = pc[d]
      /\ UNCHANGED <<page, delivered, msg, from, ret>>
      /\ ~ harm' => ~ harm
      /\ \/ links' = links
         \/ links' = [links EXCEPT ![pair] = @ + 1]
  BY DEF InsertLink, At, Goto, Hurt, ghost, local, RunInv, CacheInv
<1>2. \A u \in Urls : Cardinality(BusyWith(u)') <= Cardinality(Deliveries(u)')
  BY <1>1, OthersCount
<1>3. \A p \in Pairs : links'[p] <= IF p = pair THEN links[p] + 1 ELSE links[p]
  <2>1. links \in [Pairs -> Nat]
    BY DEF RunInv, TableInv
  <2>2. CASE links' = links
    BY <2>1, <2>2
  <2>3. CASE links' = [links EXCEPT ![pair] = @ + 1]
    <3>1. \A p \in Pairs : links'[p] = IF p = pair THEN links[p] + 1 ELSE links[p]
      BY <2>1, <2>3, OneMore, Zenon
    <3>2. QED
      BY <2>1, <3>1
  <2>4. QED
    BY <1>1, <2>2, <2>3
<1>4. ASSUME NEW p \in Pairs
      PROVE  /\ links'[p] + Cardinality(AboutToInsert(p)')
                    <= links[p] + Cardinality(AboutToInsert(p))
             /\ links'[p] + Cardinality(AboutToInsert(p)') \in Nat
             /\ links[p] + Cardinality(AboutToInsert(p)) \in Nat
  <2>1. links[p] \in Nat /\ links'[p] \in Nat
    BY DEF RunInv, TableInv
  <2>2. IsFiniteSet(AboutToInsert(p)) /\ Cardinality(AboutToInsert(p)) \in Nat
    BY CountedSets DEF AboutToInsert
  <2>3. AboutToInsert(p)' = AboutToInsert(p) \ {e}
    BY <1>1 DEF AboutToInsert
  <2>4. CASE p = pair
    <3>1. e \in AboutToInsert(p)
      BY <1>1, <2>4 DEF AboutToInsert
    <3>2. Cardinality(AboutToInsert(p) \ {e}) = Cardinality(AboutToInsert(p)) - 1
      BY <2>2, <3>1, FS_RemoveElement, Zenon
    <3>3. Cardinality(AboutToInsert(p) \ {e}) \in Nat
      BY <2>2, FS_RemoveElement, FS_CardinalityType, Zenon
    <3>4. QED
      BY <1>3, <2>1, <2>2, <2>3, <2>4, <3>2, <3>3
  <2>5. CASE p # pair
    <3>1. AboutToInsert(p)' = AboutToInsert(p)
      BY <1>1, <2>3, <2>5 DEF AboutToInsert
    <3>2. QED
      BY <1>3, <2>1, <2>2, <2>5, <3>1
  <2>6. QED
    BY <2>4, <2>5
<1>5. ASSUME NEW p \in Pairs
      PROVE  links'[p] + Cardinality(AboutToInsert(p)') <= Cardinality(Evaluators)
  BY <1>4, CountedSets DEF LinkCountInv
<1>6. ASSUME ~ harm', NEW u \in Urls, NEW i \in Ids, page[u] # None
      PROVE  links'[<<page[u], i>>]
                 + Cardinality({d \in Evaluators : pc'[d] = "linkinsert"
                                    /\ <<from[d], ret[d]>> = <<page[u], i>>})
                 <= Cardinality(Deliveries(u)')
  <2>1. PICK p \in Pairs : p = <<page[u], i>>
    <3>1. page[u] \in Ids
      BY <1>6 DEF RunInv, CacheInv
    <3>2. QED
      BY <1>6, <3>1, IdPair
  <2>2. Deliveries(u)' = Deliveries(u)
    BY <1>1 DEF Deliveries
  <2>3. links[p] + Cardinality(AboutToInsert(p)) <= Cardinality(Deliveries(u))
    BY <1>1, <1>6, <2>1 DEF LinkCountInv
  <2>4. links'[p] + Cardinality(AboutToInsert(p)') <= Cardinality(Deliveries(u)')
    BY <1>4, <2>2, <2>3, CountedSets
  <2>5. QED
    BY <1>1, <2>1, <2>4, Zenon DEF AboutToInsert
<1>7. QED
  BY <1>1, <1>2, <1>5, <1>6 DEF LinkCountInv, AboutToInsert

\* The steps at which nobody gets to a link record.
LEMMA OtherStepsCount ==
  ASSUME NEW e \in Evaluators, RunInv, RunInv', LinkCountInv,
         links' = links, pc[e] # "linkinsert", pc'[e] # "linkinsert",
         \A d \in Evaluators \ {e} : Still(d), ~ harm' => ~ harm,
         \/ \E m \in Messages : Take(e, m)
         \/ delivered' = delivered /\ msg' = msg /\ pc[e] # "idle",
         \A u \in Urls : page'[u] # page[u] => page[u] = None /\ page'[u] = nextId
  PROVE  LinkCountInv'
<1>1. \A p \in Pairs : AboutToInsert(p)' \subseteq AboutToInsert(p)
  BY DEF AboutToInsert, Still
<1>2. CASE \E m \in Messages : Take(e, m)
  <2>1. \A u \in Urls : Cardinality(BusyWith(u)') <= Cardinality(Deliveries(u)')
    BY <1>2, TakeCounts
  <2>2. \A m \in Messages : delivered[m] <= delivered'[m]
    BY <1>2 DEF Take, RunInv, Shape
  <2>3. QED
    BY <1>1, <2>1, <2>2, NothingRecorded
<1>3. CASE delivered' = delivered /\ msg' = msg /\ pc[e] # "idle"
  <2>1. \A u \in Urls : Cardinality(BusyWith(u)') <= Cardinality(Deliveries(u)')
    BY <1>3, OthersCount DEF Still
  <2>2. \A m \in Messages : delivered[m] <= delivered'[m]
    BY <1>3 DEF RunInv, Shape
  <2>3. QED
    BY <1>1, <2>1, <2>2, NothingRecorded
<1>4. QED
  BY <1>2, <1>3

LEMMA StepLinkCountInv == RunInv /\ RunInv' /\ LinkCountInv /\ [Next]_vars => LinkCountInv'
<1> SUFFICES ASSUME RunInv, RunInv', LinkCountInv, [Next]_vars  PROVE LinkCountInv'
  OBVIOUS
<1>1. ASSUME NEW e \in Evaluators, Step(e)  PROVE LinkCountInv'
  <2> USE DEF At, Goto
  <2>1. CASE CountLink(e)
    BY <2>1, CountLinkCounts
  <2>2. CASE InsertLink(e)
    BY <2>2, InsertLinkCounts
  <2>3. CASE RefuseShort(e) \/ GetIdRefused(e) \/ PushPage(e)
    <3>1. /\ links' = links /\ pc[e] \notin {"linkinsert", "idle"} /\ pc'[e] = "idle"
          /\ \A d \in Evaluators \ {e} : Still(d)
          /\ UNCHANGED <<delivered, msg, page, harm>>
      BY <2>3 DEF RefuseShort, GetIdRefused, PushPage, GiveUp, tables, local, ghost,
                  RunInv, CacheInv, Still
    <3>2. QED
      BY <3>1, OtherStepsCount
  <2>4. CASE \E m \in Messages : Take(e, m)
    <3>1. /\ links' = links /\ pc[e] = "idle" /\ pc'[e] = "select"
          /\ \A d \in Evaluators \ {e} : Still(d)
          /\ UNCHANGED <<page, harm>>
      BY <2>4 DEF Take, tables, RunInv, CacheInv, Shape, Still
    <3>2. QED
      BY <2>4, <3>1, OtherStepsCount
  <2>5. CASE Select(e) \/ CacheId(e) \/ CacheMeta(e) \/ GetId(e) \/ Return(e)
    <3>1. Minor(e)
      BY <2>5, MinorSteps
    <3>2. /\ pc[e] \notin {"linkinsert", "idle"} /\ pc'[e] # "linkinsert" /\ msg' = msg
      BY <2>5 DEF Select, CacheId, CacheMeta, GetId, Return, Link, local, RunInv, CacheInv
    <3>3. QED
      BY <3>1, <3>2, OtherStepsCount DEF Minor, Honest
  <2>6. CASE UpdateCount(e)
    <3>1. Minor(e)
      BY <2>6, UpdateCountIsMinor
    <3>2. /\ pc[e] \notin {"linkinsert", "idle"} /\ pc'[e] # "linkinsert" /\ msg' = msg
      BY <2>6 DEF UpdateCount, local, RunInv, CacheInv
    <3>3. QED
      BY <3>1, <3>2, OtherStepsCount DEF Minor, Honest
  <2>7. CASE GetIdFromTable(e) \/ PushUrl(e) \/ UpdateContent(e)
    <3>1. /\ links' = links /\ pc[e] \notin {"linkinsert", "idle"} /\ pc'[e] # "linkinsert"
          /\ \A d \in Evaluators \ {e} : Still(d)
          /\ UNCHANGED <<delivered, msg, page>>
          /\ ~ harm' => ~ harm
      BY <2>7 DEF GetIdFromTable, PushUrl, UpdateContent, Hurt, Link, tables, local, ghost,
                  RunInv, CacheInv, Shape, Still
    <3>2. QED
      BY <3>1, OtherStepsCount
  <2>8. CASE Insert(e)
    <3>1. /\ links' = links /\ pc[e] = "insert" /\ pc'[e] = "return"
          /\ \A d \in Evaluators \ {e} : Still(d)
          /\ UNCHANGED <<delivered, msg>>
          /\ ~ harm' => ~ harm
      BY <2>8 DEF Insert, Hurt, ghost, RunInv, CacheInv, Shape, Still
    <3>2. \A u \in Urls : page'[u] # page[u] => page[u] = None /\ page'[u] = nextId
      BY <2>8 DEF Insert, RunInv, CacheInv
    <3>3. QED
      BY <3>1, <3>2, OtherStepsCount
  <2>9. CASE RedisFails(e)
    BY <2>9 DEF RedisFails, tables, local, ghost, LinkCountInv, AboutToInsert, BusyWith, Deliveries
  <2>10. QED
    BY <1>1, <2>1, <2>2, <2>3, <2>4, <2>5, <2>6, <2>7, <2>8, <2>9 DEF Step
<1>2. CASE \E u \in Urls : Expire(u)
  BY <1>2 DEF Expire, tables, local, ghost, LinkCountInv, AboutToInsert, BusyWith, Deliveries
<1>3. CASE UNCHANGED vars
  BY <1>3 DEF vars, tables, local, ghost, LinkCountInv, AboutToInsert, BusyWith, Deliveries
<1>4. QED
  BY <1>1, <1>2, <1>3 DEF Next

LEMMA CountsBoundLinks == RunInv /\ LinkCountInv => LinkRecordedOnce
<1> SUFFICES ASSUME RunInv, LinkCountInv  PROVE LinkRecordedOnce
  OBVIOUS
<1>1. \A p : Cardinality(AboutToInsert(p)) \in Nat
  BY CountedSets DEF AboutToInsert
<1>2. \A p \in Pairs : links[p] \in Nat
  BY DEF RunInv, TableInv
<1>3. \A p \in Pairs : links[p] <= Cardinality(Evaluators)
  BY <1>1, <1>2, CountedSets DEF LinkCountInv
<1>4. ASSUME ~ harm, NEW u \in Urls, NEW i \in Ids, page[u] # None
      PROVE  links[<<page[u], i>>] <= Cardinality(Deliveries(u))
  <2>1. <<page[u], i>> \in Pairs
    BY <1>4, IdPair DEF RunInv, CacheInv
  <2>2. links[<<page[u], i>>] + Cardinality(AboutToInsert(<<page[u], i>>))
            <= Cardinality(Deliveries(u))
    BY <1>4 DEF LinkCountInv
  <2>3. QED
    BY <1>1, <1>2, <2>1, <2>2, CountedSets
<1>5. QED
  BY <1>3, <1>4 DEF LinkRecordedOnce

\* A second record of a link gets into LinkTable only when evaluators race
\* between the SELECT COUNT and the INSERT (evaluator.cpp:607-645), and then at
\* most one for each evaluator, and, unhurt, one for each delivery of the page.
THEOREM LinksAreRecordedOnce == Spec => []LinkRecordedOnce
<1>1. Spec => []LinkCountInv
  BY RunInvHolds, InitLinkCountInv, StepLinkCountInv, PTL DEF Spec
<1>2. QED
  BY <1>1, RunInvHolds, CountsBoundLinks, PTL
=============================================================================
