------------------------------- MODULE Ingest -------------------------------
(***************************************************************************)
(* How a C++ module takes messages in: the Kafka consumer thread (poll,    *)
(* automatic commit, the record loop), message_handler with its wait on    *)
(* the queue's size, the ThreadSafeQueue, and the worker threads that pop. *)
(* Evaluator and IndexBuilder are built this way.  The process may crash   *)
(* at any moment and is started again; the broker keeps the log and the    *)
(* group's committed offset.                                               *)
(***************************************************************************)
EXTENDS ClientProperties, Sequences, FiniteSets

CONSTANTS
    Workers,         \* evaluator or index-builder threads
    None,            \* no worker, no message
    Consumer,        \* the thread that runs Kafka_cli::consumer::worker
    Blank,           \* offsets of records whose value is empty
    HighWater,       \* the 2 of `while (msg_queue.size() > 2) continue`
    BatchMax,        \* most records one poll returns (max.poll.records)
    MaxMessages,     \* bound of the model: records ever produced
    MaxCrashes,      \* bound of the model
    MaxRebalances    \* bound of the model

ASSUME IngestAssumption ==
    /\ HighWater \in Nat
    /\ BatchMax \in Nat
    /\ MaxMessages \in Nat
    /\ MaxCrashes \in Nat
    /\ MaxRebalances \in Nat
    /\ Consumer \notin Workers
    /\ None \notin Workers \cup {Consumer} \cup Nat
    /\ IsFiniteSet(Workers)

Offsets == 0 .. MaxMessages - 1

VARIABLES
    end,          \* broker: offset after the last record of the topic
    committed,    \* broker: the group's committed offset
    pending,      \* offset of the asynchronous commit on its way, or committed
    position,     \* consumer: offset after the last record polled
    hasStored,    \* consumer: _offsetsToStore is not empty
    next,         \* the record loop: next .. position - 1 are still to handle
    hpc,          \* where the consumer thread is
    rwMutex,      \* holder of the queue's mutex
    queue,        \* msg_queue
    work,         \* work[w]: the message worker w has taken
    wpc,          \* where each worker is
    done,         \* messages a worker is through with
    lost,         \* messages a crash took from memory when already committed
    crashes,
    rebalances

broker == <<end, committed, pending>>
consumer == <<position, hasStored, next, hpc>>
threads == <<rwMutex, queue, work, wpc, done>>
faults == <<lost, crashes, rebalances>>
vars == <<broker, consumer, threads, faults>>

Init ==
    /\ end = 0 /\ committed = 0 /\ pending = 0
    /\ position = 0 /\ hasStored = FALSE /\ next = 0 /\ hpc = "records"
    /\ rwMutex = None
    /\ queue = <<>>
    /\ work = [w \in Workers |-> None]
    /\ wpc = [w \in Workers |-> "idle"]
    /\ done = {} /\ lost = {}
    /\ crashes = 0 /\ rebalances = 0

(***************************************************************************)
(* The broker.                                                             *)
(***************************************************************************)
Produce ==
    /\ end < MaxMessages
    /\ end' = end + 1
    /\ UNCHANGED <<committed, pending, consumer, threads, faults>>

CommitArrives ==
    /\ pending # committed
    /\ committed' = pending
    /\ UNCHANGED <<end, pending, consumer, threads, faults>>

(***************************************************************************)
(* The consumer thread.                                                    *)
(***************************************************************************)

\* Not in the code: the offsets of this poll are committed, not those of the last.
BugPoll(n) ==
    /\ hpc = "records"
    /\ next = position
    /\ position + n <= end
    /\ pending' = position + n
    /\ position' = position + n
    /\ hasStored' = (n > 0)
    /\ UNCHANGED <<end, committed, next, hpc, threads, faults>>

\* What has a commit on its way after a poll for n records: what the last poll
\* returned, unless librdkafka itself commits all that it hands over.
CommittedByPoll(n) ==
    CASE LibraryCommits(ConsumerProps) -> position + n
      [] ~ LibraryCommits(ConsumerProps) /\ hasStored -> position
      [] OTHER -> pending

\* KafkaConsumer::poll: commit what the LAST poll returned, fetch n records,
\* store the offset of the last of them.
Poll(n) ==
    /\ hpc = "records"
    /\ next = position
    /\ position + n <= end
    /\ pending' = CommittedByPoll(n)
    /\ position' = position + n
    /\ hasStored' = (EnableAutoCommit(ConsumerProps) /\ n > 0)
    /\ UNCHANGED <<end, committed, next, hpc, threads, faults>>

\* The consumer was away from poll for more than max.poll.interval.ms, waiting
\* on a full queue: the group gave the partition up, its commit is refused and
\* the partition is fetched again from the committed offset.
PollAfterRebalance ==
    /\ rebalances < MaxRebalances
    /\ hpc = "records"
    /\ next = position
    /\ pending' = committed
    /\ position' = committed
    /\ next' = committed
    /\ hasStored' = FALSE
    /\ rebalances' = rebalances + 1
    /\ UNCHANGED <<end, committed, hpc, threads, lost, crashes>>

\* Not in the code: a blank record is counted twice.
BugSkipBlank ==
    /\ hpc = "records"
    /\ next < position
    /\ next \in Blank
    /\ next' = next + 2
    /\ UNCHANGED <<position, hasStored, hpc, broker, threads, faults>>

SkipBlank ==
    /\ hpc = "records"
    /\ next < position
    /\ next \in Blank
    /\ next' = next + 1
    /\ UNCHANGED <<position, hasStored, hpc, broker, threads, faults>>

\* Not in the code: message_handler pushes without a wait for room.
BugCallHandler ==
    /\ hpc = "records"
    /\ next < position
    /\ next \notin Blank
    /\ hpc' = "push"
    /\ UNCHANGED <<position, hasStored, next, broker, threads, faults>>

CallHandler ==
    /\ hpc = "records"
    /\ next < position
    /\ next \notin Blank
    /\ hpc' = "wait"
    /\ UNCHANGED <<position, hasStored, next, broker, threads, faults>>

\* What size(), which takes no mutex, may return: anything while a worker is inside
\* pop, of which it matters whether it is above the mark.
Sizes ==
    {Len(queue)} \cup {s \in {0, HighWater + 1} : \E w \in Workers : wpc[w] = "popping"}

\* Not in the code: the wait lets one message more through.
BugSizeLow ==
    /\ hpc = "wait"
    /\ \E s \in Sizes : s <= HighWater + 1
    /\ hpc' = "push"
    /\ UNCHANGED <<position, hasStored, next, broker, threads, faults>>

\* message_handler waits until it reads a size that is low enough.
SizeLow ==
    /\ hpc = "wait"
    /\ \E s \in Sizes : s <= HighWater
    /\ hpc' = "push"
    /\ UNCHANGED <<position, hasStored, next, broker, threads, faults>>

LockPush ==
    /\ hpc = "push"
    /\ rwMutex = None
    /\ rwMutex' = Consumer
    /\ hpc' = "pushing"
    /\ UNCHANGED <<position, hasStored, next, broker, queue, work, wpc, done, faults>>

Push ==
    /\ hpc = "pushing"
    /\ queue' = Append(queue, next)
    /\ rwMutex' = None
    /\ next' = next + 1
    /\ hpc' = "records"
    /\ UNCHANGED <<position, hasStored, broker, work, wpc, done, faults>>

(***************************************************************************)
(* A worker.  getFront throws -1 on an empty queue and the worker sleeps   *)
(* and calls it again, which changes nothing.                              *)
(***************************************************************************)
LockPop(w) ==
    /\ wpc[w] = "idle"
    /\ rwMutex = None
    /\ queue # <<>>
    /\ rwMutex' = w
    /\ wpc' = [wpc EXCEPT ![w] = "popping"]
    /\ UNCHANGED <<broker, consumer, queue, work, done, faults>>

\* Not in the code: getFront returns with the mutex locked.
BugPop(w) ==
    /\ wpc[w] = "popping"
    /\ work' = [work EXCEPT ![w] = Head(queue)]
    /\ queue' = Tail(queue)
    /\ wpc' = [wpc EXCEPT ![w] = "busy"]
    /\ UNCHANGED <<broker, consumer, rwMutex, done, faults>>

Pop(w) ==
    /\ wpc[w] = "popping"
    /\ work' = [work EXCEPT ![w] = Head(queue)]
    /\ queue' = Tail(queue)
    /\ rwMutex' = None
    /\ wpc' = [wpc EXCEPT ![w] = "busy"]
    /\ UNCHANGED <<broker, consumer, done, faults>>

\* The worker is through with its message: processed, or given up with a
\* caught exception.  Either way it is not looked at again.
Finish(w) ==
    /\ wpc[w] = "busy"
    /\ done' = done \cup {work[w]}
    /\ work' = [work EXCEPT ![w] = None]
    /\ wpc' = [wpc EXCEPT ![w] = "idle"]
    /\ UNCHANGED <<broker, consumer, rwMutex, queue, faults>>

(***************************************************************************)
(* The process dies with all it has in memory and starts again at the      *)
(* committed offset.  A commit on its way arrives or does not.             *)
(***************************************************************************)
InMemory ==
    {queue[i] : i \in DOMAIN queue} \cup ({work[w] : w \in Workers} \ {None})

Crash ==
    /\ crashes < MaxCrashes
    /\ crashes' = crashes + 1
    /\ committed' \in {committed, pending}
    /\ pending' = committed'
    /\ position' = committed'
    /\ next' = committed'
    /\ hasStored' = FALSE
    /\ hpc' = "records"
    /\ rwMutex' = None
    /\ queue' = <<>>
    /\ work' = [w \in Workers |-> None]
    /\ wpc' = [w \in Workers |-> "idle"]
    /\ lost' = lost \cup {m \in InMemory : m < committed'}
    /\ UNCHANGED <<end, done, rebalances>>

ConsumerStep == SkipBlank \/ CallHandler \/ SizeLow \/ LockPush \/ Push

WorkerStep(w) == LockPop(w) \/ Pop(w) \/ Finish(w)

Next ==
    \/ Produce \/ CommitArrives
    \/ \E n \in 0 .. BatchMax : Poll(n)
    \/ PollAfterRebalance
    \/ ConsumerStep
    \/ \E w \in Workers : WorkerStep(w)
    \/ Crash

Spec == Init /\ [][Next]_vars

\* The threads are scheduled, a worker ends its message, and the broker hands
\* out what the topic has.  Nobody is bound to produce, crash or rebalance.
FairSpec ==
    /\ Spec
    /\ WF_vars(ConsumerStep)
    /\ WF_vars(\E n \in 1 .. BatchMax : Poll(n))
    /\ \A w \in Workers : WF_vars(WorkerStep(w))

-----------------------------------------------------------------------------
OffsetTypes ==
    /\ committed \in Nat /\ pending \in Nat
    /\ next \in Nat /\ position \in Nat /\ end \in Nat
    /\ committed <= pending /\ pending <= next
    /\ next <= position /\ position <= end /\ end <= MaxMessages

ThreadTypes ==
    /\ hasStored \in BOOLEAN
    /\ hpc \in {"records", "wait", "push", "pushing"}
    /\ rwMutex \in Workers \cup {None, Consumer}
    /\ queue \in Seq(Offsets)
    /\ work \in [Workers -> Offsets \cup {None}]
    /\ wpc \in [Workers -> {"idle", "popping", "busy"}]

FaultTypes ==
    /\ done \subseteq Offsets
    /\ lost \subseteq Offsets
    /\ crashes \in 0 .. MaxCrashes
    /\ rebalances \in 0 .. MaxRebalances

TypeOK == OffsetTypes /\ ThreadTypes /\ FaultTypes

\* The size that message_handler reads without the mutex is unreliable, as
\* queue.h says, yet the queue never holds more than one message over the mark:
\* what spoils the read is a pop, and the push waits for that pop to end.
QueueBound == Len(queue) <= HighWater + 1

HandledOrHeld == Blank \cup done \cup lost \cup InMemory

\* An offset is committed only when every record before it was handed over:
\* nothing is skipped, whatever the records are and however the commits lag.
NothingSkipped == \A m \in 0 .. pending - 1 : m \in HandledOrHeld

\* The inductive invariant behind QueueBound and NothingSkipped.
MutexHeld ==
    /\ hpc = "pushing" <=> rwMutex = Consumer
    /\ \A w \in Workers : wpc[w] = "popping" => rwMutex = w /\ queue # <<>>

RoomToPush ==
    /\ hpc = "push" =>
           \/ Len(queue) <= HighWater
           \/ \E w \in Workers : wpc[w] = "popping"
    /\ hpc = "pushing" => Len(queue) <= HighWater

RecordInHand == hpc # "records" => next < position

WorkInHand == \A w \in Workers : wpc[w] = "busy" <=> work[w] # None

HandedOver == \A m \in 0 .. next - 1 : m \in HandledOrHeld

IInv ==
    /\ TypeOK
    /\ MutexHeld
    /\ RoomToPush
    /\ QueueBound
    /\ RecordInHand
    /\ WorkInHand
    /\ HandedOver

\* The commit does not wait for the workers, so a crash loses messages for
\* good; but never more than the queue and the workers hold at one time.
LossBound ==
    Cardinality({m \in 0 .. committed - 1 : m \notin done \cup Blank \cup InMemory})
        <= crashes * (HighWater + 1 + Cardinality(Workers))

\* The inductive invariant behind LossBound, together with IInv.
LossInv == Cardinality(lost) <= crashes * (HighWater + 1 + Cardinality(Workers))

\* Again and again everything produced so far is handled, but what a crash caught
\* in memory when its offset was committed already: the rest comes again.
EventuallyHandled == []<>(0 .. end - 1 \subseteq Blank \cup done \cup lost)
=============================================================================
