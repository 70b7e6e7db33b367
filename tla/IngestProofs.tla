---------------------------- MODULE IngestProofs ----------------------------
(***************************************************************************)
(* Proofs about Ingest, for every number of workers, every mark and batch  *)
(* size and any number of crashes and rebalances: the queue's bound in     *)
(* spite of the unlocked size(), that a commit skips nothing, and how much *)
(* the crashes can lose.                                                   *)
(***************************************************************************)
EXTENDS Ingest, SequenceTheorems, FiniteSetTheorems, TLAPS

\* Only KafkaConsumer commits, and it does.
LEMMA CommitsByItself ==
    ~ LibraryCommits(ConsumerProps) /\ EnableAutoCommit(ConsumerProps)
<1>1. ConsumerProps["enable.auto.commit"] = "true" /\ "enable.auto.commit" \in DOMAIN ConsumerProps
  BY DEF ConsumerProps
<1>2. EnableAutoCommit(ConsumerProps)
  BY <1>1 DEF EnableAutoCommit, Has
<1>3. \A props : ReformConsumer(props)["enable.auto.commit"] = "false"
  BY DEF ReformConsumer, put
<1> QED BY <1>2, <1>3 DEF LibraryCommits, Has

LEMMA PollCommits ==
    ASSUME NEW n, Poll(n)
    PROVE  /\ pending' = IF hasStored THEN position ELSE pending
           /\ hasStored' = (n > 0)
  BY CommitsByItself DEF Poll, CommittedByPoll

\* Offsets below an earlier offset are below a later one.
LEMMA IntervalGrows ==
    /\ \A a, b \in Nat : a <= b => 0 .. a - 1 \subseteq 0 .. b - 1
    /\ \A a \in Nat : \A m \in 0 .. a - 1 : m < a
OBVIOUS

\* What the process holds after a push, a pop and a finished message.
LEMMA InMemoryPush ==
    ASSUME queue \in Seq(Offsets), next \in Offsets,
           queue' = Append(queue, next), work' = work
    PROVE  InMemory' = InMemory \cup {next}
<1>1. DOMAIN queue' = DOMAIN queue \cup {Len(queue) + 1}
  OBVIOUS
<1>2. \A i \in DOMAIN queue : queue'[i] = queue[i]
  OBVIOUS
<1>3. queue'[Len(queue) + 1] = next
  OBVIOUS
<1>4. {queue'[i] : i \in DOMAIN queue'} = {queue[i] : i \in DOMAIN queue} \cup {next}
  <2>1. {queue'[i] : i \in DOMAIN queue'} \subseteq {queue[i] : i \in DOMAIN queue} \cup {next}
    <3>1. SUFFICES ASSUME NEW i \in DOMAIN queue'
                   PROVE  queue'[i] \in {queue[j] : j \in DOMAIN queue} \cup {next}
      BY Zenon
    <3>2. CASE i \in DOMAIN queue
      BY <1>2, <3>2, Zenon
    <3>3. CASE i = Len(queue) + 1
      BY <1>3, <3>3, Zenon
    <3>4. QED
      BY <1>1, <3>1, <3>2, <3>3, Zenon
  <2>2. next \in {queue'[i] : i \in DOMAIN queue'}
    BY <1>1, <1>3, Zenon
  <2>3. {queue[i] : i \in DOMAIN queue} \subseteq {queue'[i] : i \in DOMAIN queue'}
    BY <1>1, <1>2, Zenon
  <2>4. QED
    BY <2>1, <2>2, <2>3, Zenon
<1> QED BY <1>4, Zenon DEF InMemory

LEMMA QueueSplit ==
    ASSUME queue \in Seq(Offsets), queue # <<>>
    PROVE  {queue[i] : i \in DOMAIN queue}
               = {Head(queue)} \cup {Tail(queue)[i] : i \in DOMAIN Tail(queue)}
<1> DEFINE rest == Tail(queue)
<1>1. /\ DOMAIN queue = 1 .. Len(queue)
      /\ DOMAIN rest = 1 .. Len(queue) - 1
      /\ Len(queue) \in Nat \ {0}
      /\ Head(queue) = queue[1]
      /\ \A i \in 1 .. Len(queue) - 1 : rest[i] = queue[i + 1]
  OBVIOUS
<1>2. ASSUME NEW i \in DOMAIN queue
      PROVE  queue[i] \in {Head(queue)} \cup {rest[j] : j \in DOMAIN rest}
  <2>1. CASE i = 1
    BY <1>1, <2>1
  <2>2. CASE i # 1
    <3>1. i - 1 \in DOMAIN rest /\ rest[i - 1] = queue[i]
      BY <1>1, <2>2
    <3> QED BY <3>1
  <2> QED BY <2>1, <2>2
<1>3. ASSUME NEW j \in DOMAIN rest
      PROVE  rest[j] \in {queue[i] : i \in DOMAIN queue}
  <2>1. j + 1 \in DOMAIN queue /\ rest[j] = queue[j + 1]
    BY <1>1
  <2> QED BY <2>1
<1>4. Head(queue) \in {queue[i] : i \in DOMAIN queue}
  BY <1>1
<1> QED BY <1>2, <1>3, <1>4

LEMMA InMemoryPop ==
    ASSUME NEW w \in Workers,
           queue \in Seq(Offsets), queue # <<>>,
           work \in [Workers -> Offsets \cup {None}], work[w] = None,
           queue' = Tail(queue),
           work' = [work EXCEPT ![w] = Head(queue)]
    PROVE  InMemory' = InMemory
<1>1. Head(queue) # None
  <2>1. Head(queue) \in Offsets
    OBVIOUS
  <2> QED BY <2>1, IngestAssumption DEF Offsets
<1>2. {work'[v] : v \in Workers} \ {None}
          = ({work[v] : v \in Workers} \ {None}) \cup {Head(queue)}
  <2>1. work'[w] = Head(queue) /\ \A v \in Workers \ {w} : work'[v] = work[v]
    OBVIOUS
  <2> QED BY <1>1, <2>1, Zenon
<1> QED BY <1>2, QueueSplit, Zenon DEF InMemory

LEMMA InMemoryFinish ==
    ASSUME NEW w \in Workers,
           work \in [Workers -> Offsets \cup {None}],
           queue' = queue,
           work' = [work EXCEPT ![w] = None]
    PROVE  InMemory \subseteq InMemory' \cup {work[w]}
<1>1. \A v \in Workers \ {w} : work'[v] = work[v]
  OBVIOUS
<1> QED BY <1>1, Zenon DEF InMemory

LEMMA InMemoryTypes ==
    ASSUME queue \in Seq(Offsets), work \in [Workers -> Offsets \cup {None}]
    PROVE  InMemory \subseteq Offsets
BY DEF InMemory

LEMMA InitIInv == Init => IInv
<1> SUFFICES ASSUME Init PROVE IInv
  OBVIOUS
<1> USE IngestAssumption
<1>1. TypeOK
  <2>1. OffsetTypes
    BY DEF Init, OffsetTypes
  <2>2. ThreadTypes
    <3>1. hasStored \in BOOLEAN
      BY Zenon DEF Init
    <3> QED BY <3>1 DEF Init, ThreadTypes
  <2>3. FaultTypes
    BY DEF Init, FaultTypes
  <2> QED BY <2>1, <2>2, <2>3 DEF TypeOK
<1>2. MutexHeld /\ RoomToPush /\ QueueBound /\ RecordInHand /\ WorkInHand
  BY DEF Init, MutexHeld, RoomToPush, QueueBound, RecordInHand, WorkInHand
<1>3. HandedOver
  BY DEF Init, HandedOver
<1> QED BY <1>1, <1>2, <1>3 DEF IInv

\* The part of the invariant about the queue and its mutex.
Locking == MutexHeld /\ RoomToPush /\ QueueBound /\ WorkInHand

LEMMA StepIInv == IInv /\ [Next]_vars => IInv'
<1> SUFFICES ASSUME IInv, [Next]_vars PROVE IInv'
  OBVIOUS
<1> USE IngestAssumption
<1> USE DEF IInv, TypeOK, broker, consumer, threads, faults
<1>1. ASSUME Produce PROVE IInv'
  <2>1. TypeOK'
    <3>1. OffsetTypes'
      BY <1>1 DEF Produce, OffsetTypes
    <3>2. ThreadTypes'
      BY <1>1 DEF Produce, ThreadTypes
    <3>3. FaultTypes'
      BY <1>1 DEF Produce, FaultTypes
    <3> QED BY <3>1, <3>2, <3>3 DEF TypeOK
  <2>2. Locking'
    BY <1>1 DEF Produce, Locking, ThreadTypes, MutexHeld, RoomToPush, QueueBound, WorkInHand
  <2>3. RecordInHand'
    BY <1>1 DEF Produce, OffsetTypes, ThreadTypes, RecordInHand, MutexHeld
  <2>4. HandedOver'
    <3>1. HandledOrHeld' = HandledOrHeld
      BY <1>1 DEF Produce, HandledOrHeld, InMemory
    <3> QED BY <1>1, <3>1 DEF Produce, HandedOver
  <2> QED BY <2>1, <2>2, <2>3, <2>4 DEF Locking
<1>2. ASSUME CommitArrives PROVE IInv'
  <2>1. TypeOK'
    <3>1. OffsetTypes'
      BY <1>2 DEF CommitArrives, OffsetTypes
    <3>2. ThreadTypes'
      BY <1>2 DEF CommitArrives, ThreadTypes
    <3>3. FaultTypes'
      BY <1>2 DEF CommitArrives, FaultTypes
    <3> QED BY <3>1, <3>2, <3>3 DEF TypeOK
  <2>2. Locking'
    BY <1>2 DEF CommitArrives, Locking, ThreadTypes, MutexHeld, RoomToPush, QueueBound, WorkInHand
  <2>3. RecordInHand'
    BY <1>2 DEF CommitArrives, OffsetTypes, ThreadTypes, RecordInHand, MutexHeld
  <2>4. HandedOver'
    <3>1. HandledOrHeld' = HandledOrHeld
      BY <1>2 DEF CommitArrives, HandledOrHeld, InMemory
    <3> QED BY <1>2, <3>1 DEF CommitArrives, HandedOver
  <2> QED BY <2>1, <2>2, <2>3, <2>4 DEF Locking
<1>3. ASSUME NEW n \in 0 .. BatchMax, Poll(n) PROVE IInv'
  <2>1. TypeOK'
    <3>1. OffsetTypes'
      BY <1>3, PollCommits DEF Poll, OffsetTypes
    <3>2. ThreadTypes'
      BY <1>3, PollCommits DEF Poll, ThreadTypes
    <3>3. FaultTypes'
      BY <1>3, PollCommits DEF Poll, FaultTypes
    <3> QED BY <3>1, <3>2, <3>3 DEF TypeOK
  <2>2. Locking'
    BY <1>3, PollCommits DEF Poll, Locking, ThreadTypes, MutexHeld, RoomToPush, QueueBound, WorkInHand
  <2>3. RecordInHand'
    BY <1>3, PollCommits DEF Poll, OffsetTypes, ThreadTypes, RecordInHand, MutexHeld
  <2>4. HandedOver'
    <3>1. HandledOrHeld' = HandledOrHeld
      BY <1>3, PollCommits DEF Poll, HandledOrHeld, InMemory
    <3> QED BY <1>3, <3>1, PollCommits DEF Poll, HandedOver
  <2> QED BY <2>1, <2>2, <2>3, <2>4 DEF Locking
<1>4. ASSUME PollAfterRebalance PROVE IInv'
  <2>1. TypeOK'
    <3>1. OffsetTypes'
      BY <1>4 DEF PollAfterRebalance, OffsetTypes
    <3>2. ThreadTypes'
      BY <1>4 DEF PollAfterRebalance, ThreadTypes
    <3>3. FaultTypes'
      BY <1>4 DEF PollAfterRebalance, FaultTypes
    <3> QED BY <3>1, <3>2, <3>3 DEF TypeOK
  <2>2. Locking'
    BY <1>4 DEF PollAfterRebalance, Locking, ThreadTypes, MutexHeld, RoomToPush, QueueBound, WorkInHand
  <2>3. RecordInHand'
    BY <1>4 DEF PollAfterRebalance, OffsetTypes, ThreadTypes, RecordInHand, MutexHeld
  <2>4. HandedOver'
    <3>1. HandledOrHeld' = HandledOrHeld
      BY <1>4 DEF PollAfterRebalance, HandledOrHeld, InMemory
    <3>2. next' \in 0 .. next
      BY <1>4 DEF PollAfterRebalance, OffsetTypes, ThreadTypes
    <3>3. 0 .. next' - 1 \subseteq 0 .. next - 1
      <4>1. next \in Nat
        BY DEF OffsetTypes
      <4>2. next' \in Nat /\ next' <= next
        BY <3>2, <4>1
      <4> QED BY <4>1, <4>2, IntervalGrows, Zenon
    <3> QED BY <3>1, <3>3, Zenon DEF HandedOver
  <2> QED BY <2>1, <2>2, <2>3, <2>4 DEF Locking
<1>5. ASSUME SkipBlank PROVE IInv'
  <2>1. TypeOK'
    <3>1. OffsetTypes'
      BY <1>5 DEF SkipBlank, OffsetTypes
    <3>2. ThreadTypes'
      BY <1>5 DEF SkipBlank, ThreadTypes
    <3>3. FaultTypes'
      BY <1>5 DEF SkipBlank, FaultTypes
    <3> QED BY <3>1, <3>2, <3>3 DEF TypeOK
  <2>2. Locking'
    BY <1>5 DEF SkipBlank, Locking, ThreadTypes, MutexHeld, RoomToPush, QueueBound, WorkInHand
  <2>3. RecordInHand'
    BY <1>5 DEF SkipBlank, OffsetTypes, ThreadTypes, RecordInHand, MutexHeld
  <2>4. HandedOver'
    <3>1. HandledOrHeld' = HandledOrHeld
      BY <1>5 DEF SkipBlank, HandledOrHeld, InMemory
    <3>2. next \in HandledOrHeld /\ next' = next + 1
      BY <1>5 DEF SkipBlank, HandledOrHeld
    <3> QED BY <3>1, <3>2 DEF OffsetTypes, HandedOver
  <2> QED BY <2>1, <2>2, <2>3, <2>4 DEF Locking
<1>6. ASSUME CallHandler PROVE IInv'
  <2>1. TypeOK'
    <3>1. OffsetTypes'
      BY <1>6 DEF CallHandler, OffsetTypes
    <3>2. ThreadTypes'
      BY <1>6 DEF CallHandler, ThreadTypes
    <3>3. FaultTypes'
      BY <1>6 DEF CallHandler, FaultTypes
    <3> QED BY <3>1, <3>2, <3>3 DEF TypeOK
  <2>2. Locking'
    BY <1>6 DEF CallHandler, Locking, ThreadTypes, MutexHeld, RoomToPush, QueueBound, WorkInHand
  <2>3. RecordInHand'
    BY <1>6 DEF CallHandler, OffsetTypes, ThreadTypes, RecordInHand, MutexHeld
  <2>4. HandedOver'
    <3>1. HandledOrHeld' = HandledOrHeld
      BY <1>6 DEF CallHandler, HandledOrHeld, InMemory
    <3> QED BY <1>6, <3>1 DEF CallHandler, HandedOver
  <2> QED BY <2>1, <2>2, <2>3, <2>4 DEF Locking
<1>7. ASSUME SizeLow PROVE IInv'
  <2>1. TypeOK'
    <3>1. OffsetTypes'
      BY <1>7 DEF SizeLow, Sizes, OffsetTypes
    <3>2. ThreadTypes'
      BY <1>7 DEF SizeLow, Sizes, ThreadTypes
    <3>3. FaultTypes'
      BY <1>7 DEF SizeLow, Sizes, FaultTypes
    <3> QED BY <3>1, <3>2, <3>3 DEF TypeOK
  <2>2. Locking'
    BY <1>7 DEF SizeLow, Sizes, Locking, ThreadTypes, MutexHeld, RoomToPush, QueueBound, WorkInHand
  <2>3. RecordInHand'
    BY <1>7 DEF SizeLow, Sizes, OffsetTypes, ThreadTypes, RecordInHand, MutexHeld
  <2>4. HandedOver'
    <3>1. HandledOrHeld' = HandledOrHeld
      BY <1>7 DEF SizeLow, Sizes, HandledOrHeld, InMemory
    <3> QED BY <1>7, <3>1 DEF SizeLow, Sizes, HandedOver
  <2> QED BY <2>1, <2>2, <2>3, <2>4 DEF Locking
<1>8. ASSUME LockPush PROVE IInv'
  <2>1. TypeOK'
    <3>1. OffsetTypes'
      BY <1>8 DEF LockPush, OffsetTypes
    <3>2. ThreadTypes'
      BY <1>8 DEF LockPush, ThreadTypes
    <3>3. FaultTypes'
      BY <1>8 DEF LockPush, FaultTypes
    <3> QED BY <3>1, <3>2, <3>3 DEF TypeOK
  <2>2. Locking'
    BY <1>8 DEF LockPush, Locking, ThreadTypes, MutexHeld, RoomToPush, QueueBound, WorkInHand
  <2>3. RecordInHand'
    BY <1>8 DEF LockPush, OffsetTypes, ThreadTypes, RecordInHand, MutexHeld
  <2>4. HandedOver'
    <3>1. HandledOrHeld' = HandledOrHeld
      BY <1>8 DEF LockPush, HandledOrHeld, InMemory
    <3> QED BY <1>8, <3>1 DEF LockPush, HandedOver
  <2> QED BY <2>1, <2>2, <2>3, <2>4 DEF Locking
<1>9. ASSUME Push PROVE IInv'
  <2>1. TypeOK'
    <3>1. OffsetTypes'
      BY <1>9 DEF Push, OffsetTypes, RecordInHand
    <3>2. ThreadTypes'
      BY <1>9 DEF Push, ThreadTypes, Offsets, RecordInHand, OffsetTypes
    <3>3. FaultTypes'
      BY <1>9 DEF Push, FaultTypes
    <3> QED BY <3>1, <3>2, <3>3 DEF TypeOK
  <2>2. Locking'
    BY <1>9 DEF Push, Locking, ThreadTypes, MutexHeld, RoomToPush, QueueBound, WorkInHand
  <2>3. RecordInHand'
    BY <1>9 DEF Push, OffsetTypes, ThreadTypes, RecordInHand, MutexHeld
  <2>4. HandedOver'
    <3>1. next \in Offsets
      BY <1>9 DEF Push, OffsetTypes, RecordInHand, Offsets
    <3>2. HandledOrHeld' = HandledOrHeld \cup {next}
      BY <1>9, <3>1, InMemoryPush DEF Push, ThreadTypes, HandledOrHeld
    <3> QED BY <1>9, <3>2 DEF Push, OffsetTypes, HandedOver
  <2> QED BY <2>1, <2>2, <2>3, <2>4 DEF Locking
<1>10. ASSUME NEW w \in Workers, LockPop(w) PROVE IInv'
  <2>1. TypeOK'
    <3>1. OffsetTypes'
      BY <1>10 DEF LockPop, OffsetTypes
    <3>2. ThreadTypes'
      BY <1>10 DEF LockPop, ThreadTypes
    <3>3. FaultTypes'
      BY <1>10 DEF LockPop, FaultTypes
    <3> QED BY <3>1, <3>2, <3>3 DEF TypeOK
  <2>2. Locking'
    BY <1>10 DEF LockPop, Locking, ThreadTypes, MutexHeld, RoomToPush, QueueBound, WorkInHand
  <2>3. RecordInHand'
    BY <1>10 DEF LockPop, OffsetTypes, ThreadTypes, RecordInHand, MutexHeld
  <2>4. HandedOver'
    <3>1. HandledOrHeld' = HandledOrHeld
      BY <1>10 DEF LockPop, HandledOrHeld, InMemory
    <3> QED BY <1>10, <3>1 DEF LockPop, HandedOver
  <2> QED BY <2>1, <2>2, <2>3, <2>4 DEF Locking
<1>11. ASSUME NEW w \in Workers, Pop(w) PROVE IInv'
  <2>1. TypeOK'
    <3>1. OffsetTypes'
      BY <1>11 DEF Pop, OffsetTypes
    <3>2. ThreadTypes'
      BY <1>11 DEF Pop, ThreadTypes, MutexHeld
    <3>3. FaultTypes'
      BY <1>11 DEF Pop, FaultTypes
    <3> QED BY <3>1, <3>2, <3>3 DEF TypeOK
  <2>2. Locking'
    <3>1. rwMutex = w /\ queue # <<>>
      BY <1>11 DEF Pop, MutexHeld
    <3>2. Len(queue') = Len(queue) - 1 /\ Len(queue) \in Nat
      BY <1>11, <3>1 DEF Pop, ThreadTypes
    <3>3. Head(queue) # None
      <4>1. Head(queue) \in Offsets
        BY <3>1 DEF ThreadTypes
      <4> QED BY <4>1 DEF Offsets
    <3>4. MutexHeld'
      BY <1>11, <3>1 DEF Pop, MutexHeld, ThreadTypes
    <3>5. QueueBound' /\ RoomToPush'
      BY <1>11, <3>1, <3>2 DEF Pop, MutexHeld, RoomToPush, QueueBound
    <3>6. WorkInHand'
      BY <1>11, <3>3 DEF Pop, WorkInHand, ThreadTypes
    <3> QED BY <3>4, <3>5, <3>6 DEF Locking
  <2>3. RecordInHand'
    BY <1>11 DEF Pop, OffsetTypes, ThreadTypes, RecordInHand, MutexHeld
  <2>4. HandedOver'
    <3>1. InMemory' = InMemory
      BY <1>11, InMemoryPop DEF Pop, ThreadTypes, MutexHeld, WorkInHand
    <3> QED BY <1>11, <3>1 DEF Pop, HandedOver, HandledOrHeld
  <2> QED BY <2>1, <2>2, <2>3, <2>4 DEF Locking
<1>12. ASSUME NEW w \in Workers, Finish(w) PROVE IInv'
  <2>1. TypeOK'
    <3>1. OffsetTypes'
      BY <1>12 DEF Finish, OffsetTypes
    <3>2. ThreadTypes'
      BY <1>12 DEF Finish, ThreadTypes
    <3>3. FaultTypes'
      <4>1. work[w] \in Offsets
        BY <1>12 DEF Finish, ThreadTypes, WorkInHand
      <4> QED BY <1>12, <4>1 DEF Finish, FaultTypes
    <3> QED BY <3>1, <3>2, <3>3 DEF TypeOK
  <2>2. Locking'
    BY <1>12 DEF Finish, Locking, ThreadTypes, MutexHeld, RoomToPush, QueueBound, WorkInHand
  <2>3. RecordInHand'
    BY <1>12 DEF Finish, OffsetTypes, ThreadTypes, RecordInHand, MutexHeld
  <2>4. HandedOver'
    <3>1. InMemory \subseteq InMemory' \cup {work[w]}
      BY <1>12, InMemoryFinish DEF Finish, OffsetTypes, ThreadTypes
    <3> QED BY <1>12, <3>1 DEF Finish, HandedOver, HandledOrHeld
  <2> QED BY <2>1, <2>2, <2>3, <2>4 DEF Locking
<1>13. ASSUME Crash PROVE IInv'
  <2>1. TypeOK'
    <3>1. OffsetTypes'
      BY <1>13 DEF Crash, OffsetTypes
    <3>2. ThreadTypes'
      <4>1. hasStored' \in BOOLEAN
        BY <1>13, Zenon DEF Crash
      <4> QED BY <1>13, <4>1 DEF Crash, ThreadTypes
    <3>3. FaultTypes'
      <4>1. InMemory \subseteq Offsets
        BY InMemoryTypes DEF ThreadTypes
      <4> QED BY <1>13, <4>1 DEF Crash, FaultTypes
    <3> QED BY <3>1, <3>2, <3>3 DEF TypeOK
  <2>2. Locking'
    BY <1>13 DEF Crash, Locking, ThreadTypes, MutexHeld, RoomToPush, QueueBound, WorkInHand
  <2>3. RecordInHand'
    BY <1>13 DEF Crash, OffsetTypes, ThreadTypes, RecordInHand, MutexHeld
  <2>4. HandedOver'
    <3>1. next' = committed' /\ committed' \in {committed, pending}
      BY <1>13 DEF Crash
    <3>2. /\ next \in Nat /\ committed \in Nat /\ pending \in Nat
          /\ committed <= next /\ pending <= next
      BY DEF OffsetTypes
    <3>3. next' \in Nat /\ next' <= next
      BY <3>1, <3>2
    <3>4. 0 .. next' - 1 \subseteq 0 .. next - 1
      BY <3>2, <3>3, IntervalGrows, Zenon
    <3>5. ASSUME NEW m \in 0 .. next' - 1 PROVE m \in HandledOrHeld'
      <4>1. m \in HandledOrHeld
        BY <3>4 DEF HandedOver
      <4>2. m < next'
        BY <3>3, IntervalGrows, Zenon
      <4>3. m < committed'
        BY <3>1, <4>2, Zenon
      <4> QED BY <1>13, <4>1, <4>3 DEF Crash, HandledOrHeld
    <3> QED BY <3>5 DEF HandedOver
  <2> QED BY <2>1, <2>2, <2>3, <2>4 DEF Locking
<1>14. CASE UNCHANGED vars
  BY <1>14 DEF vars, OffsetTypes, ThreadTypes, FaultTypes, MutexHeld, RoomToPush, QueueBound, RecordInHand, WorkInHand,
               HandedOver, HandledOrHeld, InMemory
<1> QED
  BY <1>1, <1>2, <1>3, <1>4, <1>5, <1>6, <1>7, <1>8, <1>9, <1>10, <1>11, <1>12, <1>13, <1>14
  DEF Next, ConsumerStep, WorkerStep

\* Every variable keeps its type; in particular the offsets stay ordered:
\* committed, then pending, then the record in hand, then what was polled.
THEOREM IngestTypes == Spec => []TypeOK
<1>1. Spec => []IInv
  BY InitIInv, StepIInv, PTL DEF Spec
<1>2. IInv => TypeOK
  BY DEF IInv
<1> QED BY <1>1, <1>2, PTL

\* The queue never holds more than one message over the mark, whatever the
\* unlocked read of its size returns during a pop.
THEOREM QueueBounded == Spec => []QueueBound
<1>1. Spec => []IInv
  BY InitIInv, StepIInv, PTL DEF Spec
<1>2. IInv => QueueBound
  BY DEF IInv
<1> QED BY <1>1, <1>2, PTL

\* No record is skipped: a commit covers only what was handed over.
THEOREM CommitSkipsNothing == Spec => []NothingSkipped
<1>1. Spec => []IInv
  BY InitIInv, StepIInv, PTL DEF Spec
<1>2. IInv => NothingSkipped
  BY DEF IInv, TypeOK, OffsetTypes, HandedOver, NothingSkipped
<1> QED BY <1>1, <1>2, PTL

-----------------------------------------------------------------------------
\* The values of a function are no more than its arguments.
LEMMA ValuesFew ==
    ASSUME NEW f, IsFiniteSet(DOMAIN f), f = [x \in DOMAIN f |-> f[x]]
    PROVE  /\ IsFiniteSet({f[x] : x \in DOMAIN f})
           /\ Cardinality({f[x] : x \in DOMAIN f}) <= Cardinality(DOMAIN f)
<1> DEFINE values == {f[x] : x \in DOMAIN f}
<1>1. f \in Surjection(DOMAIN f, values)
  BY DEF Surjection
<1> HIDE DEF values
<1>2. IsFiniteSet(values) /\ Cardinality(values) <= Cardinality(DOMAIN f)
  BY <1>1, FS_Surjection
<1> QED BY <1>2 DEF values

\* Memory holds one message per worker and one more than the mark in the queue.
LEMMA InMemoryFew ==
    ASSUME IInv
    PROVE  /\ IsFiniteSet(InMemory)
           /\ Cardinality(InMemory) <= HighWater + 1 + Cardinality(Workers)
<1> DEFINE queued == {queue[i] : i \in DOMAIN queue}
           taken == {work[w] : w \in Workers}
<1>1. queue \in Seq(Offsets) /\ Len(queue) <= HighWater + 1
  BY DEF IInv, TypeOK, ThreadTypes, QueueBound
<1>2. IsFiniteSet(queued) /\ Cardinality(queued) <= HighWater + 1
  <2>1. DOMAIN queue = 1 .. Len(queue) /\ Len(queue) \in Nat
    BY <1>1
  <2>2. IsFiniteSet(DOMAIN queue) /\ Cardinality(DOMAIN queue) = Len(queue)
    <3>1. PICK n \in Nat : n = Len(queue)
      BY <2>1
    <3>2. /\ IsFiniteSet(1 .. n)
          /\ Cardinality(1 .. n) = IF 1 > n THEN 0 ELSE n - 1 + 1
      BY FS_Interval
    <3>3. IsFiniteSet(1 .. n) /\ Cardinality(1 .. n) = n
      BY <3>2
    <3> QED BY <2>1, <3>1, <3>3, Zenon
  <2>3. queue = [i \in DOMAIN queue |-> queue[i]]
    BY <1>1
  <2>4. IsFiniteSet(queued) /\ Cardinality(queued) <= Cardinality(DOMAIN queue)
    BY <2>2, <2>3, ValuesFew
  <2>5. Cardinality(queued) \in Nat
    BY <2>4, FS_CardinalityType
  <2> QED BY <1>1, <2>1, <2>2, <2>4, <2>5, IngestAssumption
<1>3. IsFiniteSet(taken) /\ Cardinality(taken) <= Cardinality(Workers)
  <2>1. DOMAIN work = Workers /\ work = [w \in DOMAIN work |-> work[w]]
    BY DEF IInv, TypeOK, ThreadTypes
  <2>2. IsFiniteSet(DOMAIN work)
    BY <2>1, IngestAssumption
  <2>3. /\ IsFiniteSet({work[w] : w \in DOMAIN work})
        /\ Cardinality({work[w] : w \in DOMAIN work}) <= Cardinality(DOMAIN work)
    BY <2>1, <2>2, ValuesFew
  <2> QED BY <2>1, <2>3
<1>4. InMemory \subseteq queued \cup taken
  BY DEF InMemory
<1> HIDE DEF queued, taken
<1>5. /\ IsFiniteSet(queued \cup taken)
      /\ Cardinality(queued \cup taken)
             = Cardinality(queued) + Cardinality(taken) - Cardinality(queued \cap taken)
  BY <1>2, <1>3, FS_Union
<1>6. Cardinality(queued \cap taken) \in Nat
  <2>1. IsFiniteSet(queued \cap taken)
    BY <1>2, FS_Subset
  <2> QED BY <2>1, FS_CardinalityType
<1>7. IsFiniteSet(InMemory) /\ Cardinality(InMemory) <= Cardinality(queued \cup taken)
  BY <1>4, <1>5, FS_Subset
<1>8. /\ Cardinality(queued) \in Nat /\ Cardinality(taken) \in Nat
      /\ Cardinality(Workers) \in Nat /\ Cardinality(InMemory) \in Nat
  BY <1>2, <1>3, <1>7, FS_CardinalityType, IngestAssumption
<1> QED BY <1>2, <1>3, <1>5, <1>6, <1>7, <1>8, IngestAssumption

LEMMA OffsetsFew == IsFiniteSet(Offsets)
BY IngestAssumption, FS_Interval DEF Offsets

\* A crash loses no more than memory held.
LEMMA CrashLoses ==
    ASSUME IInv, LossInv, Crash
    PROVE  LossInv'
<1> DEFINE bound == HighWater + 1 + Cardinality(Workers)
           losing == {m \in InMemory : m < committed'}
<1>1. bound \in Nat
  BY IngestAssumption, FS_CardinalityType
<1>2. IsFiniteSet(lost)
  BY OffsetsFew, FS_Subset DEF IInv, TypeOK, FaultTypes
<1>3. IsFiniteSet(losing) /\ Cardinality(losing) <= Cardinality(InMemory)
  BY InMemoryFew, FS_Subset
<1>4. Cardinality(InMemory) <= bound
  BY InMemoryFew
<1>5. lost' = lost \cup losing /\ crashes' = crashes + 1 /\ crashes \in Nat
  BY IngestAssumption DEF Crash, IInv, TypeOK, FaultTypes
<1>6. Cardinality(lost) <= crashes * bound
  BY DEF LossInv
<1> HIDE DEF bound, losing
<1>7. /\ Cardinality(lost \cup losing)
             = Cardinality(lost) + Cardinality(losing) - Cardinality(lost \cap losing)
  BY <1>2, <1>3, FS_Union
<1>8. /\ Cardinality(lost \cap losing) \in Nat /\ Cardinality(lost) \in Nat
      /\ Cardinality(losing) \in Nat /\ Cardinality(InMemory) \in Nat
  <2>1. IsFiniteSet(lost \cap losing)
    BY <1>2, FS_Subset
  <2> QED BY <1>2, <1>3, <2>1, InMemoryFew, FS_CardinalityType
<1>9. (crashes + 1) * bound = crashes * bound + bound /\ crashes * bound \in Nat
  BY <1>1, <1>5
<1>10. Cardinality(lost \cup losing) <= (crashes + 1) * bound
  <2>1. PICK c \in Nat : c = crashes * bound
    BY <1>9
  <2> QED BY <1>1, <1>3, <1>4, <1>6, <1>7, <1>8, <1>9, <2>1
<1>11. Cardinality(lost)' <= crashes' * bound
  BY <1>5, <1>10, Zenon
<1> QED BY <1>11 DEF LossInv, bound

LEMMA StepLossInv == IInv /\ LossInv /\ [Next]_vars => LossInv'
<1> SUFFICES ASSUME IInv, LossInv, [Next]_vars  PROVE LossInv'
  OBVIOUS
<1>1. CASE Crash
  BY <1>1, CrashLoses
<1>2. CASE UNCHANGED <<lost, crashes>>
  BY <1>2 DEF LossInv
<1>3. Crash \/ UNCHANGED <<lost, crashes>>
  BY DEF Next, Produce, CommitArrives, Poll, PollAfterRebalance, ConsumerStep, SkipBlank,
         CallHandler, SizeLow, LockPush, Push, WorkerStep, LockPop, Pop, Finish, vars, faults
<1> QED BY <1>1, <1>2, <1>3

LEMMA InitLossInv == Init => LossInv
<1> SUFFICES ASSUME Init  PROVE LossInv
  OBVIOUS
<1>1. lost = {} /\ crashes = 0
  BY DEF Init
<1>2. Cardinality(lost) = 0
  BY <1>1, FS_EmptySet, Zenon
<1>3. Cardinality(Workers) \in Nat
  BY IngestAssumption, FS_CardinalityType
<1> QED BY <1>1, <1>2, <1>3, IngestAssumption DEF LossInv

\* A crash loses committed messages, but over any number of crashes no more than
\* the queue and the workers hold at one time for each of them.
THEOREM LossIsBounded == Spec => []LossBound
<1>1. IInv /\ LossInv => LossBound
  <2> SUFFICES ASSUME IInv, LossInv  PROVE LossBound
    OBVIOUS
  <2> DEFINE gone == {m \in 0 .. committed - 1 : m \notin done \cup Blank \cup InMemory}
             bound == crashes * (HighWater + 1 + Cardinality(Workers))
  <2>1. 0 .. committed - 1 \subseteq 0 .. next - 1
    BY IntervalGrows DEF IInv, TypeOK, OffsetTypes
  <2>2. gone \subseteq lost
    BY <2>1 DEF IInv, HandedOver, HandledOrHeld
  <2>3. IsFiniteSet(lost)
    BY OffsetsFew, FS_Subset DEF IInv, TypeOK, FaultTypes
  <2>4. bound \in Nat
    BY IngestAssumption, FS_CardinalityType DEF IInv, TypeOK, FaultTypes
  <2>5. Cardinality(lost) <= bound
    BY DEF LossInv
  <2> HIDE DEF gone, bound
  <2>6. IsFiniteSet(gone) /\ Cardinality(gone) <= Cardinality(lost)
    BY <2>2, <2>3, FS_Subset
  <2>7. Cardinality(gone) \in Nat /\ Cardinality(lost) \in Nat
    BY <2>3, <2>6, FS_CardinalityType
  <2>8. Cardinality(gone) <= bound
    BY <2>4, <2>5, <2>6, <2>7
  <2> QED BY <2>8 DEF LossBound, gone, bound
<1>2. Spec => [](IInv /\ LossInv)
  BY InitIInv, StepIInv, InitLossInv, StepLossInv, PTL DEF Spec
<1> QED BY <1>1, <1>2, PTL
=============================================================================
