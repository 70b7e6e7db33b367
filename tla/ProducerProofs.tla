--------------------------- MODULE ProducerProofs ----------------------------
(***************************************************************************)
(* Proofs about Producer, for every number of records, room in librdkafka  *)
(* and faults: an opaque is deleted once, and the topic keeps the order    *)
(* of the records without repeats.                                         *)
(***************************************************************************)
EXTENDS Producer, TLAPS

\* The properties of kafka_client.cpp make the producer idempotent.
LEMMA IsIdempotent == Idempotent(ProducerProps)
<1>1. /\ DOMAIN ProducerProps = {"bootstrap.servers", "enable.idempotence"}
      /\ ProducerProps["enable.idempotence"] = "true"
  BY DEF ProducerProps
<1> HIDE DEF ProducerProps
<1> QED BY <1>1 DEF Idempotent, Has, ReformClient, putIfMissing, put

LEMMA SentOnce == \A sent : Retried(sent) = sent
  BY IsIdempotent DEF Retried

\* What Tail and Append do to an increasing sequence and to the set of its members.
LEMMA TailIncreasing ==
    ASSUME NEW s \in Seq(Nat), Increasing(s), s # <<>>
    PROVE  /\ Tail(s) \in Seq(Nat) /\ Increasing(Tail(s))
           /\ Head(s) \in Range(s) /\ Range(Tail(s)) = Range(s) \ {Head(s)}
           /\ \A x \in Range(Tail(s)) : Head(s) < x
<1>1. /\ Tail(s) \in Seq(Nat) /\ Len(s) \in Nat \ {0} /\ Len(Tail(s)) = Len(s) - 1
      /\ Head(s) = s[1] /\ 1 \in DOMAIN s
      /\ \A i \in DOMAIN Tail(s) : i + 1 \in DOMAIN s /\ Tail(s)[i] = s[i + 1]
      /\ \A i \in DOMAIN s : i \in Nat \ {0} /\ s[i] \in Nat
      /\ \A i \in DOMAIN Tail(s) : i \in Nat \ {0}
  OBVIOUS
<1>2. \A i \in DOMAIN s : i # 1 => i - 1 \in DOMAIN Tail(s) /\ Tail(s)[i - 1] = s[i]
  BY <1>1
<1>3. Increasing(Tail(s))
  BY <1>1 DEF Increasing
<1>4. \A i \in DOMAIN s : i # 1 => s[1] < s[i]
  BY <1>1 DEF Increasing
<1> HIDE DEF Increasing
<1> DEFINE t == Tail(s)
<1>5. Range(t) = {s[i] : i \in DOMAIN s \ {1}}
  <2>1. \A i \in DOMAIN t : i + 1 \in DOMAIN s \ {1} /\ t[i] = s[i + 1]
    BY <1>1
  <2>2. \A i \in DOMAIN s \ {1} : \E j \in DOMAIN t : t[j] = s[i]
    BY <1>2
  <2> HIDE DEF t
  <2>3. \A x : x \in Range(t) <=> \E i \in DOMAIN t : t[i] = x
    BY Zenon DEF Range
  <2>4. ASSUME NEW x \in Range(t)  PROVE x \in {s[i] : i \in DOMAIN s \ {1}}
    <3>1. PICK j \in DOMAIN t : t[j] = x
      BY <2>3, Zenon
    <3>2. x = s[j + 1] /\ j + 1 \in DOMAIN s \ {1}
      BY <2>1, <3>1, Zenon
    <3>3. QED
      BY <3>2
  <2>5. {s[i] : i \in DOMAIN s \ {1}} \subseteq Range(t)
    BY <2>2, <2>3, Zenon
  <2>6. QED
    BY <2>4, <2>5, Zenon
<1>6. \A x \in Range(Tail(s)) : Head(s) < x /\ x # Head(s)
  BY <1>1, <1>4, <1>5
<1>7. Range(Tail(s)) = Range(s) \ {Head(s)}
  <2>1. \A x : x \in Range(s) <=> \E i \in DOMAIN s : s[i] = x
    BY Zenon DEF Range
  <2>2. \A x \in Range(s) : x = Head(s) \/ x \in Range(t)
    BY <1>1, <1>5, <2>1
  <2>3. \A x \in Range(t) : x \in Range(s)
    BY <1>5, <2>1
  <2>4. \A x \in Range(t) : x # Head(s)
    BY <1>6
  <2> HIDE DEF t
  <2>5. Range(t) = Range(s) \ {Head(s)}
    BY <2>2, <2>3, <2>4
  <2>6. QED
    BY <2>5 DEF t
<1> QED BY <1>1, <1>3, <1>6, <1>7 DEF Range

LEMMA AppendIncreasing ==
    ASSUME NEW s \in Seq(Nat), NEW x \in Nat, Increasing(s), \A y \in Range(s) : y < x
    PROVE  /\ Append(s, x) \in Seq(Nat) /\ Increasing(Append(s, x))
           /\ Range(Append(s, x)) = Range(s) \cup {x}
<1>1. /\ Append(s, x) \in Seq(Nat) /\ Len(Append(s, x)) = Len(s) + 1
      /\ DOMAIN Append(s, x) = DOMAIN s \cup {Len(s) + 1} /\ Len(s) + 1 \notin DOMAIN s
      /\ \A i \in DOMAIN s : Append(s, x)[i] = s[i] /\ i < Len(s) + 1 /\ i \in Nat
      /\ Append(s, x)[Len(s) + 1] = x /\ Len(s) + 1 \in Nat
  OBVIOUS
<1>2. Range(Append(s, x)) = Range(s) \cup {x}
  BY <1>1 DEF Range
<1>3. Increasing(Append(s, x))
  BY <1>1 DEF Increasing, Range
<1> QED BY <1>1, <1>2, <1>3

\* Two sequences with the same members at the same places are one.
LEMMA SameSequence ==
    ASSUME NEW S, NEW s \in Seq(S), NEW t \in Seq(S),
           Len(s) = Len(t), \A i \in 1 .. Len(s) : s[i] = t[i]
    PROVE  s = t
<1>1. s \in [1 .. Len(s) -> S] /\ t \in [1 .. Len(s) -> S]
  OBVIOUS
<1>2. s = [i \in 1 .. Len(s) |-> s[i]] /\ t = [i \in 1 .. Len(s) |-> t[i]]
  BY <1>1
<1> QED BY <1>2

\* The records of a queue of librdkafka are those of its tail, and of what is appended.
LEMMA RecordsOfTail ==
    ASSUME NEW S, NEW q \in Seq(S), q # <<>>
    PROVE  /\ RecordsOf(Tail(q)) = Tail(RecordsOf(q)) /\ RecordsOf(q) # <<>>
           /\ Head(RecordsOf(q)) = Head(q).record /\ Head(q) \in S /\ Tail(q) \in Seq(S)
<1> USE DEF RecordsOf
<1>1. /\ Tail(q) \in Seq(S) /\ Head(q) = q[1] /\ Head(q) \in S /\ Len(q) \in Nat \ {0}
      /\ DOMAIN q = 1 .. Len(q) /\ DOMAIN Tail(q) = 1 .. (Len(q) - 1)
      /\ \A i \in DOMAIN Tail(q) : Tail(q)[i] = q[i + 1]
  OBVIOUS
<1> DEFINE r == RecordsOf(q)
<1>2. /\ r \in Seq({q[i].record : i \in DOMAIN q}) /\ Len(r) = Len(q)
      /\ \A i \in DOMAIN q : r[i] = q[i].record
  BY <1>1
<1> HIDE DEF r, RecordsOf
<1>3. r # <<>> /\ Head(r) = r[1]
  BY <1>1, <1>2
<1>4. /\ Tail(r) \in Seq({q[i].record : i \in DOMAIN q}) /\ Len(Tail(r)) = Len(q) - 1
      /\ \A i \in 1 .. (Len(q) - 1) : Tail(r)[i] = r[i + 1]
  BY <1>1, <1>2, <1>3
<1>5. /\ RecordsOf(Tail(q)) \in Seq({q[i].record : i \in DOMAIN q})
      /\ Len(RecordsOf(Tail(q))) = Len(q) - 1
      /\ \A i \in 1 .. (Len(q) - 1) : RecordsOf(Tail(q))[i] = Tail(q)[i].record
  BY <1>1 DEF RecordsOf
<1>6. \A i \in 1 .. (Len(q) - 1) : Tail(q)[i].record = r[i + 1]
  BY <1>1, <1>2
<1>7. RecordsOf(Tail(q)) = Tail(r)
  <2> DEFINE u == RecordsOf(Tail(q))
             w == Tail(r)
  <2>1. Len(u) = Len(w) /\ \A i \in 1 .. Len(u) : u[i] = w[i]
    BY <1>1, <1>4, <1>5, <1>6
  <2>2. PICK V : u \in Seq(V) /\ w \in Seq(V)
    BY <1>4, <1>5, Zenon
  <2> HIDE DEF u, w
  <2>3. u = w
    BY <2>1, <2>2, SameSequence, Zenon
  <2>4. QED
    BY <2>3 DEF u, w
<1>8. 1 \in DOMAIN q
  BY <1>1
<1>9. r[1] = q[1].record
  BY <1>2, <1>8
<1>10. Head(r) = Head(q).record
  BY <1>1, <1>3, <1>9
<1> QED BY <1>1, <1>3, <1>7, <1>10, Zenon DEF r

LEMMA RecordsOfAppend ==
    ASSUME NEW S, NEW q \in Seq(S), NEW e \in S
    PROVE  RecordsOf(Append(q, e)) = Append(RecordsOf(q), e.record)
<1>1. /\ DOMAIN Append(q, e) = 1 .. (Len(q) + 1) /\ Len(q) \in Nat /\ DOMAIN q = 1 .. Len(q)
      /\ \A i \in 1 .. Len(q) : Append(q, e)[i] = q[i]
      /\ Append(q, e)[Len(q) + 1] = e
  OBVIOUS
<1> DEFINE r == RecordsOf(q)
<1>2. /\ r \in Seq({q[i].record : i \in DOMAIN q}) /\ Len(r) = Len(q)
      /\ \A i \in 1 .. Len(q) : r[i] = q[i].record
  BY <1>1 DEF RecordsOf
<1> HIDE DEF r
<1>3. Append(r, e.record) =
        [i \in 1 .. (Len(q) + 1) |-> IF i = Len(q) + 1 THEN e.record ELSE r[i]]
  BY <1>1, <1>2
<1>4. RecordsOf(Append(q, e)) = [i \in 1 .. (Len(q) + 1) |-> Append(q, e)[i].record]
  BY <1>1 DEF RecordsOf
<1>5. \A i \in 1 .. (Len(q) + 1) :
         Append(q, e)[i].record = IF i = Len(q) + 1 THEN e.record ELSE r[i]
  BY <1>1, <1>2
<1> QED BY <1>3, <1>4, <1>5 DEF r

-----------------------------------------------------------------------------
(***************************************************************************)
(* The order of what is in memory, for sets: R the reported records, S the *)
(* sent ones, U those of them that are not written, B the buffer, H the    *)
(* record in hand, I the input, L the topic.                               *)
(***************************************************************************)
Chain(R, S, B, H, I, U, L, p) ==
    /\ Before(R, S \cup B \cup H \cup I) /\ Before(S, B \cup H \cup I)
    /\ Before(B, H \cup I) /\ Before(H, I)
    /\ R \cup S \cup B \cup H \cup I \subseteq 1 .. p
    /\ U \subseteq S /\ L \subseteq 1 .. p /\ Before(L, U \cup B \cup H \cup I)

Queues == Chain(Range(Reported), Range(Sent), Range(buffer), InHand, Range(input),
                Unwritten, Range(log), pushed)

\* A record that moves one place on, from the head of one queue to the end of the next,
\* keeps the order.
LEMMA ChainMoves ==
    ASSUME NEW R, NEW S, NEW B, NEW H, NEW I, NEW U, NEW L, NEW p \in Nat,
           Chain(R, S, B, H, I, U, L, p)
    PROVE  /\ Chain(R, S, B, H, I \cup {p + 1}, U, L, p + 1)
           /\ \A x \in I : H = {} /\ (\A y \in I \ {x} : x < y)
                              => Chain(R, S, B, {x}, I \ {x}, U, L, p)
           /\ \A x : H = {x} => Chain(R, S, B \cup {x}, {}, I, U, L, p)
           /\ Chain(R, S, B, {}, I, U, L, p)
           /\ \A x \in B : (\A y \in B \ {x} : x < y)
                              => Chain(R, S \cup {x}, B \ {x}, H, I, U \cup {x}, L, p)
           /\ \A x \in S : \A V \in SUBSET (U \ {x}) : (\A y \in S \ {x} : x < y)
                              => Chain(R \cup {x}, S \ {x}, B, H, I, V, L, p)
           /\ \A x \in B : S = {} /\ (\A y \in B \ {x} : x < y)
                              => Chain(R \cup {x}, {}, B \ {x}, H, I, {}, L, p)
           /\ \A x \in R : Chain(R \ {x}, S, B, H, I, U, L, p)
           /\ \A x \in U : (\A y \in U \ {x} : x < y)
                              => Chain(R, S, B, H, I, U \ {x}, L \cup {x}, p)
           /\ Chain({}, {}, {}, {}, {}, {}, L, p)
<1>0. /\ \A x \in 1 .. p : x < p + 1 /\ x \in 1 .. (p + 1)
      /\ p + 1 \in 1 .. (p + 1)
  OBVIOUS
<1> USE DEF Chain, Before
<1>1. Chain(R, S, B, H, I \cup {p + 1}, U, L, p + 1)
  <2>1. /\ R \cup S \cup B \cup H \cup I \subseteq 1 .. p /\ L \subseteq 1 .. p /\ U \subseteq S
    OBVIOUS
  <2>2. \A x \in R \cup S \cup B \cup H \cup I \cup L : x < p + 1 /\ x \in 1 .. (p + 1)
    BY <1>0, <2>1
  <2> QED BY <1>0, <2>1, <2>2
<1>2. ASSUME NEW x \in I, H = {}, \A y \in I \ {x} : x < y
      PROVE  Chain(R, S, B, {x}, I \ {x}, U, L, p)
  BY <1>2
<1>3. ASSUME NEW x, H = {x}
      PROVE  Chain(R, S, B \cup {x}, {}, I, U, L, p)
  BY <1>3
<1>4. Chain(R, S, B, {}, I, U, L, p)
  OBVIOUS
<1>5. ASSUME NEW x \in B, \A y \in B \ {x} : x < y
      PROVE  Chain(R, S \cup {x}, B \ {x}, H, I, U \cup {x}, L, p)
  BY <1>5
<1>6. ASSUME NEW x \in S, NEW V \in SUBSET (U \ {x}), \A y \in S \ {x} : x < y
      PROVE  Chain(R \cup {x}, S \ {x}, B, H, I, V, L, p)
  BY <1>6
<1>7. ASSUME NEW x \in B, S = {}, \A y \in B \ {x} : x < y
      PROVE  Chain(R \cup {x}, {}, B \ {x}, H, I, {}, L, p)
  BY <1>7
<1>8. \A x \in R : Chain(R \ {x}, S, B, H, I, U, L, p)
  OBVIOUS
<1>9. ASSUME NEW x \in U, \A y \in U \ {x} : x < y
      PROVE  Chain(R, S, B, H, I, U \ {x}, L \cup {x}, p)
  BY <1>9
<1>10. Chain({}, {}, {}, {}, {}, {}, L, p)
  OBVIOUS
<1> HIDE DEF Chain, Before
<1> QED BY <1>1, <1>2, <1>3, <1>4, <1>5, <1>6, <1>7, <1>8, <1>9, <1>10

-----------------------------------------------------------------------------
Ordered ==
    /\ Increasing(Reported) /\ Increasing(Sent) /\ Increasing(buffer)
    /\ Increasing(input) /\ Increasing(log)

\* The invariant in terms of Chain.
LEMMA QueuesOfInv ==
    ASSUME ProducerInv
    PROVE  Ordered /\ Queues
<1>1. Unwritten \subseteq Range(Sent)
  BY DEF Unwritten, Sent, RecordsOf, Range
<1> QED BY <1>1 DEF ProducerInv, InOrder, LogBehind, Ordered, Queues, Chain

LEMMA InvOfQueues ==
    ASSUME ProducerTypes', Ordered', Queues', LiveUndeleted'
    PROVE  ProducerInv'
BY DEF ProducerInv, InOrder, LogBehind, Ordered, Queues, Chain

\* A sequence is the function of its entries, and a sequence over every larger set.
LEMMA SameAsEntries ==
    ASSUME NEW S, NEW s \in Seq(S)
    PROVE  s = [i \in DOMAIN s |-> s[i]]
<1>1. s \in [1 .. Len(s) -> S]
  OBVIOUS
<1> QED BY <1>1

LEMMA EntryOfSequence ==
    ASSUME NEW S, NEW s \in Seq(S), NEW i \in DOMAIN s
    PROVE  s[i] \in S
<1>1. s \in [1 .. Len(s) -> S] /\ DOMAIN s = 1 .. Len(s)
  OBVIOUS
<1> QED BY <1>1

LEMMA WiderSequences ==
    ASSUME NEW S, NEW T, S \subseteq T, NEW s \in Seq(S)
    PROVE  s \in Seq(T)
<1>1. Len(s) \in Nat /\ s \in [1 .. Len(s) -> T]
  OBVIOUS
<1> QED BY <1>1

LEMMA RecordsAreRecords ==
    ASSUME NEW S, NEW q \in Seq(S), \A e \in S : e.record \in Records
    PROVE  RecordsOf(q) \in Seq(Records)
<1>1. Len(q) \in Nat /\ DOMAIN q = 1 .. Len(q) /\ \A i \in 1 .. Len(q) : q[i] \in S
  OBVIOUS
<1>2. RecordsOf(q) \in [1 .. Len(q) -> Records]
  BY <1>1 DEF RecordsOf
<1> QED BY <1>1, <1>2

LEMMA SequencesOfNumbers ==
    ASSUME ProducerTypes
    PROVE  /\ pushed \in Nat /\ Records \subseteq Nat
           /\ input \in Seq(Nat) /\ buffer \in Seq(Nat) /\ log \in Seq(Nat)
           /\ Reported \in Seq(Nat) /\ Sent \in Seq(Nat)
<1>1. pushed \in Nat /\ Records \subseteq Nat
  BY ProducerAssumption DEF ProducerTypes, Records
<1>2. input \in Seq(Nat) /\ buffer \in Seq(Nat) /\ log \in Seq(Nat)
  BY <1>1, WiderSequences DEF ProducerTypes
<1>3. Reported \in Seq(Records)
  <2>1. \A e \in [record : Records, ok : BOOLEAN] : e.record \in Records
    OBVIOUS
  <2> QED BY <2>1, RecordsAreRecords DEF ProducerTypes, Reported
<1>4. Sent \in Seq(Records)
  <2>1. \A e \in [record : Records, written : BOOLEAN] : e.record \in Records
    OBVIOUS
  <2> QED BY <2>1, RecordsAreRecords DEF ProducerTypes, Sent
<1>5. Reported \in Seq(Nat) /\ Sent \in Seq(Nat)
  BY <1>1, <1>3, <1>4, WiderSequences
<1> QED BY <1>1, <1>2, <1>5

LEMMA PushKeeps ==
    ASSUME ProducerInv, Push
    PROVE  ProducerInv'
<1>1. ProducerTypes /\ LiveUndeleted /\ Ordered /\ Queues
  BY QueuesOfInv DEF ProducerInv
<1>2. /\ pushed \in Nat /\ pushed' = pushed + 1 /\ pushed' \in Records
      /\ input' = Append(input, pushed + 1) /\ input \in Seq(Nat)
      /\ UNCHANGED <<hand, stage, deleted, flight, buffer, reports, log, lost>>
  BY <1>1, SequencesOfNumbers, ProducerAssumption
     DEF Push, Records, ProducerTypes, library, Fault
<1>3. Range(input) \subseteq 1 .. pushed
  BY <1>1 DEF Queues, Chain
<1>4. Increasing(input') /\ Range(input') = Range(input) \cup {pushed + 1}
  <2>1. \A y \in Range(input) : y < pushed + 1
    BY <1>2, <1>3
  <2> QED BY <1>1, <1>2, <2>1, AppendIncreasing DEF Ordered
<1>5. ProducerTypes'
  BY <1>1, <1>2, ProducerAssumption DEF ProducerTypes, Records
<1>6. /\ UNCHANGED <<Reported, Sent, Unwritten, InHand>>
  BY <1>2 DEF Reported, Sent, Unwritten, InHand
<1>7. Ordered'
  BY <1>1, <1>2, <1>4, <1>6 DEF Ordered
<1>8. Queues'
  BY <1>1, <1>2, <1>4, <1>6, ChainMoves DEF Queues
<1>9. Live' = Live
  <2>1. {r \in Records : r > pushed} = {r \in Records : r > pushed + 1} \cup {pushed + 1}
    <3>1. \A r \in Records : r > pushed <=> r > pushed + 1 \/ r = pushed + 1
      BY <1>1, <1>2, SequencesOfNumbers
    <3> QED BY <1>2, <3>1
  <2> QED BY <1>2, <1>4, <1>6, <2>1 DEF Live
<1>10. LiveUndeleted'
  BY <1>1, <1>2, <1>9 DEF LiveUndeleted
<1> QED BY <1>5, <1>7, <1>8, <1>10, InvOfQueues

LEMMA GetFrontKeeps ==
    ASSUME ProducerInv, GetFront
    PROVE  ProducerInv'
<1>1. ProducerTypes /\ LiveUndeleted /\ Ordered /\ Queues
  BY QueuesOfInv DEF ProducerInv
<1>2. /\ stage = "idle" /\ stage' = "send" /\ input # <<>> /\ input \in Seq(Nat)
      /\ pushed \in Nat
      /\ hand' = Head(input) /\ input' = Tail(input)
      /\ UNCHANGED <<pushed, deleted, flight, buffer, reports, log, lost>>
  BY <1>1, SequencesOfNumbers DEF GetFront, library
<1>3. /\ Increasing(input') /\ hand' \in Range(input)
      /\ Range(input') = Range(input) \ {hand'} /\ \A y \in Range(input') : hand' < y
  BY <1>1, <1>2, TailIncreasing DEF Ordered
<1>4. ProducerTypes'
  BY <1>1, <1>2 DEF ProducerTypes
<1>5. /\ InHand = {} /\ InHand' = {hand'} /\ UNCHANGED <<Reported, Sent, Unwritten>>
  BY <1>2 DEF Reported, Sent, Unwritten, InHand
<1>6. Ordered'
  BY <1>1, <1>2, <1>3, <1>5 DEF Ordered
<1>7. Queues'
  <2>1. Chain(Range(Reported), Range(Sent), Range(buffer), {hand'},
              Range(input) \ {hand'}, Unwritten, Range(log), pushed)
    BY <1>1, <1>2, <1>3, <1>5, ChainMoves DEF Queues
  <2> QED BY <1>2, <1>3, <1>5, <2>1 DEF Queues
<1>8. Live' = Live
  BY <1>2, <1>3, <1>5 DEF Live
<1>9. LiveUndeleted'
  BY <1>1, <1>2, <1>8 DEF LiveUndeleted
<1> QED BY <1>4, <1>6, <1>7, <1>9, InvOfQueues

LEMMA AcceptKeeps ==
    ASSUME ProducerInv, Accept
    PROVE  ProducerInv'
<1>1. ProducerTypes /\ LiveUndeleted /\ Ordered /\ Queues
  BY QueuesOfInv DEF ProducerInv
<1>2. /\ stage = "send" /\ stage' = "release" /\ hand \in Records /\ hand \in Nat
      /\ pushed \in Nat
      /\ buffer \in Seq(Nat) /\ buffer' = Append(buffer, hand)
      /\ UNCHANGED <<pushed, input, deleted, flight, reports, log, lost>>
  BY <1>1, SequencesOfNumbers DEF Accept, ProducerTypes
<1>3. /\ InHand = {hand} /\ InHand' = {} /\ UNCHANGED <<Reported, Sent, Unwritten>>
  BY <1>2 DEF Reported, Sent, Unwritten, InHand
<1>4. Increasing(buffer') /\ Range(buffer') = Range(buffer) \cup {hand}
  <2>1. \A y \in Range(buffer) : y < hand
    BY <1>1, <1>3 DEF Queues, Chain, Before
  <2> QED BY <1>1, <1>2, <2>1, AppendIncreasing DEF Ordered
<1>5. ProducerTypes'
  BY <1>1, <1>2 DEF ProducerTypes
<1>6. Ordered'
  BY <1>1, <1>2, <1>3, <1>4 DEF Ordered
<1>7. Queues'
  <2>1. Chain(Range(Reported), Range(Sent), Range(buffer) \cup {hand}, {},
              Range(input), Unwritten, Range(log), pushed)
    BY <1>1, <1>2, <1>3, ChainMoves DEF Queues
  <2> QED BY <1>2, <1>3, <1>4, <2>1 DEF Queues
<1>8. Live' = Live
  BY <1>2, <1>3, <1>4 DEF Live
<1>9. LiveUndeleted'
  BY <1>1, <1>2, <1>8 DEF LiveUndeleted
<1> QED BY <1>5, <1>6, <1>7, <1>9, InvOfQueues

-----------------------------------------------------------------------------
\* No record is in two of the queues, and what is in one was pushed.
LEMMA ChainApart ==
    ASSUME NEW R, NEW S, NEW B, NEW H, NEW I, NEW U, NEW L, NEW p \in Nat,
           Chain(R, S, B, H, I, U, L, p)
    PROVE  /\ \A x \in H : x \notin R \cup S \cup B \cup I
           /\ \A x \in R : x \notin S \cup B \cup H \cup I
           /\ \A x \in R \cup S \cup B \cup H \cup I : x \in Nat /\ ~ (x > p)
<1>1. \A x \in 1 .. p : x \in Nat /\ ~ (x > p) /\ ~ (x < x)
  OBVIOUS
<1>2. R \cup S \cup B \cup H \cup I \subseteq 1 .. p
  BY DEF Chain
<1>3. Before(R, S \cup B \cup H \cup I) /\ Before(S, H) /\ Before(B, H) /\ Before(H, I)
  BY DEF Chain, Before
<1> QED BY <1>1, <1>2, <1>3 DEF Before

\* Deleting the opaque of a record that leaves memory.
LEMMA DeletedOnce ==
    ASSUME LiveUndeleted, deleted \in [Records -> Nat], UNCHANGED lost,
           NEW r \in Live \cap Records, Delete(r), Live' = Live \ {r}
    PROVE  LiveUndeleted' /\ deleted' \in [Records -> Nat]
<1>1. deleted' = [deleted EXCEPT ![r] = deleted[r] + 1]
  BY DEF Delete
<1>2. deleted' \in [Records -> Nat]
  BY <1>1
<1>3. \A x \in Records \ lost : deleted'[x] = IF x \in Live' THEN 0 ELSE 1
  BY <1>1 DEF LiveUndeleted
<1> QED BY <1>2, <1>3 DEF LiveUndeleted

LEMMA RefuseKeeps ==
    ASSUME ProducerInv, Refuse
    PROVE  ProducerInv'
<1>1. ProducerTypes /\ LiveUndeleted /\ Ordered /\ Queues
  BY QueuesOfInv DEF ProducerInv
<1>2. /\ stage = "send" /\ stage' = "idle" /\ hand \in Records /\ pushed \in Nat
      /\ Delete(hand) /\ deleted \in [Records -> Nat]
      /\ UNCHANGED <<pushed, input, buffer, flight, reports, log, lost>>
  BY <1>1, SequencesOfNumbers DEF Refuse, ProducerTypes, library
<1>3. /\ InHand = {hand} /\ InHand' = {} /\ UNCHANGED <<Reported, Sent, Unwritten>>
  BY <1>2 DEF Reported, Sent, Unwritten, InHand
<1>4. Ordered'
  BY <1>1, <1>2, <1>3 DEF Ordered
<1>5. Queues'
  BY <1>1, <1>2, <1>3, ChainMoves DEF Queues
<1>6. Live' = Live \ {hand} /\ hand \in Live
  <2>1. /\ hand \notin Range(Reported) \cup Range(Sent) \cup Range(buffer) \cup Range(input)
        /\ ~ (hand > pushed)
    BY <1>1, <1>2, <1>3, ChainApart DEF Queues
  <2> QED BY <1>2, <1>3, <2>1 DEF Live
<1>7. LiveUndeleted' /\ deleted' \in [Records -> Nat]
  BY <1>1, <1>2, <1>6, DeletedOnce
<1>8. ProducerTypes'
  BY <1>1, <1>2, <1>7 DEF ProducerTypes
<1> QED BY <1>4, <1>5, <1>7, <1>8, InvOfQueues

LEMMA ServeKeeps ==
    ASSUME ProducerInv, Serve
    PROVE  ProducerInv'
<1>1. ProducerTypes /\ LiveUndeleted /\ Ordered /\ Queues
  BY QueuesOfInv DEF ProducerInv
<1> DEFINE x == Head(Reported)
<1>2. /\ reports # <<>> /\ reports' = Tail(reports) /\ Delete(Head(reports).record)
      /\ deleted \in [Records -> Nat] /\ pushed \in Nat
      /\ reports \in Seq([record : Records, ok : BOOLEAN])
      /\ UNCHANGED <<pushed, input, hand, stage, buffer, flight, log, lost>>
  BY <1>1, SequencesOfNumbers DEF Serve, ProducerTypes
<1>3. /\ Reported' = Tail(Reported) /\ Reported # <<>> /\ x = Head(reports).record
      /\ reports' \in Seq([record : Records, ok : BOOLEAN])
      /\ Head(reports) \in [record : Records, ok : BOOLEAN]
  BY <1>2, RecordsOfTail DEF Reported
<1>4. x \in Records
  BY <1>3
<1> HIDE DEF x
<1>5. /\ Increasing(Reported') /\ x \in Range(Reported)
      /\ Range(Reported') = Range(Reported) \ {x}
  BY <1>1, <1>3, TailIncreasing, SequencesOfNumbers DEF Ordered, x
<1>6. UNCHANGED <<Sent, Unwritten, InHand>>
  BY <1>2 DEF Sent, Unwritten, InHand
<1>7. Ordered'
  BY <1>1, <1>2, <1>5, <1>6 DEF Ordered
<1>8. Queues'
  <2>1. Chain(Range(Reported) \ {x}, Range(Sent), Range(buffer), InHand,
              Range(input), Unwritten, Range(log), pushed)
    BY <1>1, <1>2, <1>5, ChainMoves DEF Queues
  <2> QED BY <1>2, <1>5, <1>6, <2>1 DEF Queues
<1>9. Live' = Live \ {x} /\ x \in Live
  <2>1. /\ x \notin Range(Sent) \cup Range(buffer) \cup InHand \cup Range(input)
        /\ ~ (x > pushed)
    BY <1>1, <1>2, <1>5, ChainApart DEF Queues
  <2> QED BY <1>2, <1>5, <1>6, <2>1 DEF Live
<1>10. LiveUndeleted' /\ deleted' \in [Records -> Nat]
  BY <1>1, <1>2, <1>3, <1>4, <1>9, DeletedOnce
<1>11. ProducerTypes'
  BY <1>1, <1>2, <1>3, <1>10 DEF ProducerTypes
<1> QED BY <1>7, <1>8, <1>10, <1>11, InvOfQueues

\* Steps that leave every record where it is.
LEMMA StillKeeps ==
    ASSUME ProducerInv, Release \/ Reconnect \/ UNCHANGED vars
    PROVE  ProducerInv'
<1>1. ProducerTypes /\ LiveUndeleted /\ Ordered /\ Queues
  BY QueuesOfInv DEF ProducerInv
<1>2. UNCHANGED <<pushed, input, buffer, flight, reports, log, lost, deleted>>
  <2>1. Reconnect => flight' = flight
    <3>1. flight \in Seq([record : Records, written : BOOLEAN])
      BY <1>1 DEF ProducerTypes
    <3>2. flight = [i \in DOMAIN flight |-> flight[i]]
      BY <3>1, SameAsEntries
    <3> QED BY <3>2, SentOnce DEF Reconnect
  <2> QED BY <2>1 DEF Release, Reconnect, vars, ours, library
<1>3. \/ stage = "release" /\ stage' = "idle"
      \/ UNCHANGED <<stage, hand>>
  BY DEF Release, Reconnect, vars, ours
<1>4. UNCHANGED <<Reported, Sent, Unwritten, InHand>>
  BY <1>2, <1>3 DEF Reported, Sent, Unwritten, InHand
<1>5. ProducerTypes'
  BY <1>1, <1>2, <1>3 DEF ProducerTypes
<1>6. Ordered' /\ Queues'
  BY <1>1, <1>2, <1>4 DEF Ordered, Queues
<1>7. LiveUndeleted'
  BY <1>1, <1>2, <1>4 DEF LiveUndeleted, Live
<1> QED BY <1>5, <1>6, <1>7, InvOfQueues

-----------------------------------------------------------------------------
\* A report is appended for a record behind those that have one.
LEMMA ReportAppended ==
    ASSUME ProducerTypes, Increasing(Reported), NEW x \in Records, NEW b \in BOOLEAN,
           reports' = Append(reports, [record |-> x, ok |-> b]),
           \A y \in Range(Reported) : y < x
    PROVE  /\ reports' \in Seq([record : Records, ok : BOOLEAN])
           /\ Increasing(Reported') /\ Range(Reported') = Range(Reported) \cup {x}
<1> DEFINE e == [record |-> x, ok |-> b]
<1>1. e \in [record : Records, ok : BOOLEAN] /\ e.record = x
  OBVIOUS
<1> HIDE DEF e
<1>2. /\ reports' = Append(reports, e)
      /\ reports \in Seq([record : Records, ok : BOOLEAN])
  BY DEF e, ProducerTypes
<1>3. Reported' = Append(Reported, x)
  BY <1>1, <1>2, RecordsOfAppend DEF Reported
<1>4. reports' \in Seq([record : Records, ok : BOOLEAN])
  BY <1>1, <1>2
<1> QED BY <1>3, <1>4, AppendIncreasing, SequencesOfNumbers

\* The first of what was sent leaves: it is the least, and nothing else changes.
LEMMA FlightShortened ==
    ASSUME ProducerTypes, Increasing(Sent), flight # <<>>, flight' = Tail(flight)
    PROVE  /\ flight' \in Seq([record : Records, written : BOOLEAN])
           /\ Head(flight).record \in Records \cap Range(Sent)
           /\ Increasing(Sent') /\ Range(Sent') = Range(Sent) \ {Head(flight).record}
           /\ \A y \in Range(Sent') : Head(flight).record < y
           /\ Unwritten' \subseteq Unwritten \ {Head(flight).record}
<1> DEFINE x == Head(flight).record
<1>1. flight \in Seq([record : Records, written : BOOLEAN])
  BY DEF ProducerTypes
<1>2. /\ Sent' = Tail(Sent) /\ Sent # <<>> /\ Head(Sent) = x
      /\ flight' \in Seq([record : Records, written : BOOLEAN])
      /\ Head(flight) \in [record : Records, written : BOOLEAN]
  BY <1>1, RecordsOfTail DEF Sent
<1>3. x \in Records
  BY <1>2
<1> HIDE DEF x
<1>4. /\ Increasing(Sent') /\ x \in Range(Sent) /\ Range(Sent') = Range(Sent) \ {x}
      /\ \A y \in Range(Sent') : x < y
  BY <1>2, TailIncreasing, SequencesOfNumbers
<1>5. Unwritten' \subseteq Unwritten
  <2>1. \A i \in DOMAIN flight' : i + 1 \in DOMAIN flight /\ flight'[i] = flight[i + 1]
    BY <1>1
  <2> QED BY <2>1 DEF Unwritten
<1>6. Unwritten' \subseteq Range(Sent')
  BY DEF Unwritten, Sent, RecordsOf, Range
<1> QED BY <1>2, <1>3, <1>4, <1>5, <1>6 DEF x

LEMMA TransmitKeeps ==
    ASSUME ProducerInv, Transmit
    PROVE  ProducerInv'
<1>1. ProducerTypes /\ LiveUndeleted /\ Ordered /\ Queues
  BY QueuesOfInv DEF ProducerInv
<1> DEFINE x == Head(buffer)
           e == [record |-> x, written |-> FALSE]
<1>2. /\ buffer # <<>> /\ buffer' = Tail(buffer) /\ flight' = Append(flight, e)
      /\ buffer \in Seq(Nat) /\ buffer \in Seq(Records) /\ pushed \in Nat
      /\ flight \in Seq([record : Records, written : BOOLEAN])
      /\ UNCHANGED <<pushed, input, hand, stage, reports, log, lost, deleted>>
  BY <1>1, SequencesOfNumbers DEF Transmit, ProducerTypes, ours
<1>3. /\ x \in Records /\ buffer' \in Seq(Records)
      /\ Increasing(buffer') /\ x \in Range(buffer) /\ Range(buffer') = Range(buffer) \ {x}
      /\ \A y \in Range(buffer') : x < y
  BY <1>1, <1>2, TailIncreasing DEF Ordered
<1>4. e \in [record : Records, written : BOOLEAN] /\ e.record = x /\ ~ e.written
  BY <1>3
<1> HIDE DEF x, e
<1>5. flight' \in Seq([record : Records, written : BOOLEAN]) /\ Sent' = Append(Sent, x)
  <2>1. RecordsOf(Append(flight, e)) = Append(RecordsOf(flight), e.record)
    BY <1>2, <1>4, RecordsOfAppend
  <2>2. Append(flight, e) \in Seq([record : Records, written : BOOLEAN])
    BY <1>2, <1>4
  <2> QED BY <1>2, <1>4, <2>1, <2>2, Zenon DEF Sent
<1>6. Increasing(Sent') /\ Range(Sent') = Range(Sent) \cup {x}
  <2>1. \A y \in Range(Sent) : y < x
    BY <1>1, <1>3 DEF Queues, Chain, Before
  <2> QED BY <1>1, <1>3, <1>5, <2>1, AppendIncreasing, SequencesOfNumbers DEF Ordered
<1>7. Unwritten' = Unwritten \cup {x}
  <2>1. /\ DOMAIN flight' = DOMAIN flight \cup {Len(flight) + 1}
        /\ \A i \in DOMAIN flight : flight'[i] = flight[i] /\ i # Len(flight) + 1
        /\ flight'[Len(flight) + 1] = e
    BY <1>2
  <2> QED BY <1>4, <2>1 DEF Unwritten
<1>8. UNCHANGED <<Reported, InHand>>
  BY <1>2 DEF Reported, InHand
<1>9. ProducerTypes'
  BY <1>1, <1>2, <1>3, <1>5 DEF ProducerTypes
<1>10. Ordered'
  BY <1>1, <1>2, <1>3, <1>6, <1>8 DEF Ordered
<1>11. Queues'
  <2>1. Chain(Range(Reported), Range(Sent) \cup {x}, Range(buffer) \ {x}, InHand,
              Range(input), Unwritten \cup {x}, Range(log), pushed)
    BY <1>1, <1>2, <1>3, ChainMoves DEF Queues
  <2> QED BY <1>2, <1>3, <1>6, <1>7, <1>8, <2>1 DEF Queues
<1>12. LiveUndeleted'
  <2>1. Live' = Live
    BY <1>2, <1>3, <1>6, <1>8 DEF Live
  <2> QED BY <1>1, <1>2, <2>1 DEF LiveUndeleted
<1> QED BY <1>9, <1>10, <1>11, <1>12, InvOfQueues

LEMMA AckKeeps ==
    ASSUME ProducerInv, Ack
    PROVE  ProducerInv'
<1>1. ProducerTypes /\ LiveUndeleted /\ Ordered /\ Queues
  BY QueuesOfInv DEF ProducerInv
<1> DEFINE x == Head(flight).record
<1>2. /\ flight # <<>> /\ flight' = Tail(flight) /\ pushed \in Nat
      /\ reports' = Append(reports, [record |-> x, ok |-> TRUE])
      /\ UNCHANGED <<pushed, input, hand, stage, buffer, log, lost, deleted>>
  BY <1>1, SequencesOfNumbers DEF Ack, ours
<1>3. /\ flight' \in Seq([record : Records, written : BOOLEAN])
      /\ x \in Records \cap Range(Sent)
      /\ Increasing(Sent') /\ Range(Sent') = Range(Sent) \ {x}
      /\ \A y \in Range(Sent') : x < y
      /\ Unwritten' \in SUBSET (Unwritten \ {x})
  BY <1>1, <1>2, FlightShortened DEF Ordered
<1> HIDE DEF x
<1>4. /\ reports' \in Seq([record : Records, ok : BOOLEAN])
      /\ Increasing(Reported') /\ Range(Reported') = Range(Reported) \cup {x}
  <2>1. \A y \in Range(Reported) : y < x
    BY <1>1, <1>3 DEF Queues, Chain, Before
  <2> QED BY <1>1, <1>2, <1>3, <2>1, ReportAppended DEF Ordered
<1>5. InHand' = InHand
  BY <1>2 DEF InHand
<1>6. ProducerTypes'
  BY <1>1, <1>2, <1>3, <1>4 DEF ProducerTypes
<1>7. Ordered'
  BY <1>1, <1>2, <1>3, <1>4 DEF Ordered
<1>8. Queues'
  <2>1. Chain(Range(Reported) \cup {x}, Range(Sent) \ {x}, Range(buffer), InHand,
              Range(input), Unwritten', Range(log), pushed)
    BY <1>1, <1>2, <1>3, ChainMoves DEF Queues
  <2> QED BY <1>2, <1>3, <1>4, <1>5, <2>1 DEF Queues
<1>9. LiveUndeleted'
  <2>1. Live' = Live
    BY <1>2, <1>3, <1>4, <1>5 DEF Live
  <2> QED BY <1>1, <1>2, <2>1 DEF LiveUndeleted
<1> QED BY <1>6, <1>7, <1>8, <1>9, InvOfQueues

LEMMA WriteKeeps ==
    ASSUME ProducerInv, Write
    PROVE  ProducerInv'
<1>1. ProducerTypes /\ LiveUndeleted /\ Ordered /\ Queues
  BY QueuesOfInv DEF ProducerInv
<1>2. PICK i \in DOMAIN flight :
        /\ ~ flight[i].written /\ \A j \in 1 .. i - 1 : flight[j].written
        /\ flight' = [flight EXCEPT ![i].written = TRUE]
        /\ log' = Append(log, flight[i].record)
        /\ UNCHANGED <<pushed, ours, buffer, reports, lost, faults>>
  BY DEF Write
<1> DEFINE x == flight[i].record
<1>3. /\ UNCHANGED <<pushed, input, hand, stage, buffer, reports, lost, deleted>>
      /\ flight \in Seq([record : Records, written : BOOLEAN])
      /\ log \in Seq(Nat) /\ log \in Seq(Records) /\ pushed \in Nat
  BY <1>1, <1>2, SequencesOfNumbers DEF ours, ProducerTypes
<1>4. /\ x \in Records /\ x \in Unwritten
  <2>1. flight[i] \in [record : Records, written : BOOLEAN]
    BY <1>3, EntryOfSequence
  <2>2. x \in Records
    BY <2>1
  <2>3. x \in Unwritten
    BY <1>2, Zenon DEF Unwritten
  <2> QED BY <2>2, <2>3
<1>5. /\ DOMAIN flight' = DOMAIN flight
      /\ flight' \in Seq([record : Records, written : BOOLEAN])
      /\ \A j \in DOMAIN flight : flight'[j].record = flight[j].record
      /\ \A j \in DOMAIN flight : j # i => flight'[j].written = flight[j].written
      /\ flight'[i].written
  <2> DEFINE f == [flight[i] EXCEPT !.written = TRUE]
  <2>1. flight[i] \in [record : Records, written : BOOLEAN]
    BY <1>3, EntryOfSequence
  <2>2. f \in [record : Records, written : BOOLEAN] /\ f.record = x /\ f.written
    BY <2>1
  <2>3. flight' = [flight EXCEPT ![i] = f]
    BY <1>2, <1>3
  <2> HIDE DEF f
  <2>4. flight' \in Seq([record : Records, written : BOOLEAN]) /\ DOMAIN flight' = DOMAIN flight
    BY <1>3, <2>2, <2>3
  <2>5. \A j \in DOMAIN flight : flight'[j] = IF j = i THEN f ELSE flight[j]
    BY <1>3, <2>3
  <2> QED BY <2>2, <2>4, <2>5
<1>6. \A j \in DOMAIN flight : ~ flight[j].written /\ j # i => x < flight[j].record
  <2>1. \A j \in DOMAIN flight : ~ flight[j].written /\ j # i => i < j
    BY <1>2, <1>3
  <2>2. \A j \in DOMAIN flight : i < j => Sent[i] < Sent[j]
    BY <1>1 DEF Ordered, Increasing, Sent, RecordsOf
  <2>3. \A j \in DOMAIN flight : Sent[j] = flight[j].record
    BY DEF Sent, RecordsOf
  <2> QED BY <2>1, <2>2, <2>3
<1>7. Sent' = Sent
  BY <1>5 DEF Sent, RecordsOf
<1>8. Unwritten' = Unwritten \ {x} /\ \A y \in Unwritten \ {x} : x < y
  <2>1. \A y \in Unwritten \ {x} : x < y
    BY <1>6 DEF Unwritten
  <2>2. \A j \in DOMAIN flight : ~ flight[j].written /\ j # i => x # flight[j].record
    BY <1>3, <1>4, <1>6 DEF Records
  <2> QED BY <1>5, <2>1, <2>2 DEF Unwritten
<1>9. log' = Append(log, x)
  BY <1>2
<1> HIDE DEF x
<1>10. Increasing(log') /\ Range(log') = Range(log) \cup {x}
  <2>1. \A y \in Range(log) : y < x
    BY <1>1, <1>4 DEF Queues, Chain, Before
  <2> QED BY <1>1, <1>3, <1>4, <1>9, <2>1, AppendIncreasing, SequencesOfNumbers DEF Ordered
<1>11. UNCHANGED <<Reported, InHand>>
  BY <1>3 DEF Reported, InHand
<1>12. ProducerTypes'
  <2>1. log' \in Seq(Records)
    BY <1>3, <1>4, <1>9
  <2> QED BY <1>1, <1>3, <1>5, <2>1 DEF ProducerTypes
<1>13. Ordered'
  BY <1>1, <1>3, <1>7, <1>10, <1>11 DEF Ordered
<1>14. Queues'
  <2>1. Chain(Range(Reported), Range(Sent), Range(buffer), InHand, Range(input),
              Unwritten \ {x}, Range(log) \cup {x}, pushed)
    BY <1>1, <1>3, <1>4, <1>8, ChainMoves DEF Queues
  <2> QED BY <1>3, <1>7, <1>8, <1>10, <1>11, <2>1 DEF Queues
<1>15. LiveUndeleted'
  <2>1. Live' = Live
    BY <1>3, <1>7, <1>11 DEF Live
  <2> QED BY <1>1, <1>3, <2>1 DEF LiveUndeleted
<1> QED BY <1>12, <1>13, <1>14, <1>15, InvOfQueues

\* Kafka gives up the first of what was sent, or of the buffer when nothing is sent.
LEMMA ExpireKeeps ==
    ASSUME ProducerInv, Expire
    PROVE  ProducerInv'
<1>1. ProducerTypes /\ LiveUndeleted /\ Ordered /\ Queues
  BY QueuesOfInv DEF ProducerInv
<1>2. /\ UNCHANGED <<pushed, input, hand, stage, log, lost, deleted>>
      /\ pushed \in Nat /\ buffer \in Seq(Nat) /\ buffer \in Seq(Records)
      /\ FALSE \in BOOLEAN
  BY <1>1, SequencesOfNumbers DEF Expire, ours, ProducerTypes
<1>3. InHand' = InHand
  BY <1>2 DEF InHand
<1>4. CASE /\ flight # <<>> /\ flight' = Tail(flight) /\ UNCHANGED buffer
           /\ reports' = Append(reports, [record |-> Head(flight).record, ok |-> FALSE])
  <2> DEFINE x == Head(flight).record
  <2>1. /\ flight' \in Seq([record : Records, written : BOOLEAN])
        /\ x \in Records \cap Range(Sent)
        /\ Increasing(Sent') /\ Range(Sent') = Range(Sent) \ {x}
        /\ \A y \in Range(Sent') : x < y
        /\ Unwritten' \in SUBSET (Unwritten \ {x})
    BY <1>1, <1>4, FlightShortened DEF Ordered
  <2>2. reports' = Append(reports, [record |-> x, ok |-> FALSE])
    BY <1>4
  <2> HIDE DEF x
  <2>3. /\ reports' \in Seq([record : Records, ok : BOOLEAN])
        /\ Increasing(Reported') /\ Range(Reported') = Range(Reported) \cup {x}
    <3>1. \A y \in Range(Reported) : y < x
      BY <1>1, <2>1 DEF Queues, Chain, Before
    <3> QED BY <1>1, <1>2, <2>1, <2>2, <3>1, ReportAppended DEF Ordered
  <2>4. ProducerTypes'
    BY <1>1, <1>2, <1>4, <2>1, <2>3 DEF ProducerTypes
  <2>5. Ordered'
    BY <1>1, <1>2, <1>4, <2>1, <2>3 DEF Ordered
  <2>6. Queues'
    <3>1. Chain(Range(Reported) \cup {x}, Range(Sent) \ {x}, Range(buffer), InHand,
                Range(input), Unwritten', Range(log), pushed)
      BY <1>1, <1>2, <2>1, ChainMoves DEF Queues
    <3> QED BY <1>2, <1>3, <1>4, <2>1, <2>3, <3>1 DEF Queues
  <2>7. Live' = Live
    BY <1>2, <1>3, <1>4, <2>1, <2>3 DEF Live
  <2>8. LiveUndeleted'
    BY <1>1, <1>2, <2>7 DEF LiveUndeleted
  <2> QED BY <2>4, <2>5, <2>6, <2>8, InvOfQueues
<1>5. CASE /\ flight = <<>> /\ buffer # <<>> /\ buffer' = Tail(buffer) /\ UNCHANGED flight
           /\ reports' = Append(reports, [record |-> Head(buffer), ok |-> FALSE])
  <2> DEFINE x == Head(buffer)
  <2>1. /\ x \in Records /\ buffer' \in Seq(Records)
        /\ Increasing(buffer') /\ x \in Range(buffer)
        /\ Range(buffer') = Range(buffer) \ {x} /\ \A y \in Range(buffer') : x < y
    BY <1>1, <1>2, <1>5, TailIncreasing DEF Ordered
  <2>2. reports' = Append(reports, [record |-> x, ok |-> FALSE])
    BY <1>5
  <2> HIDE DEF x
  <2>3. /\ reports' \in Seq([record : Records, ok : BOOLEAN])
        /\ Increasing(Reported') /\ Range(Reported') = Range(Reported) \cup {x}
    <3>1. \A y \in Range(Reported) : y < x
      BY <1>1, <2>1 DEF Queues, Chain, Before
    <3> QED BY <1>1, <1>2, <2>1, <2>2, <3>1, ReportAppended DEF Ordered
  <2>4. /\ Range(Sent) = {} /\ Unwritten = {} /\ UNCHANGED <<Sent, Unwritten>>
    BY <1>5 DEF Sent, Unwritten, RecordsOf, Range
  <2>5. ProducerTypes'
    BY <1>1, <1>2, <1>5, <2>1, <2>3 DEF ProducerTypes
  <2>6. Ordered'
    BY <1>1, <1>2, <2>1, <2>3, <2>4 DEF Ordered
  <2>7. Queues'
    <3>1. Chain(Range(Reported) \cup {x}, {}, Range(buffer) \ {x}, InHand,
                Range(input), {}, Range(log), pushed)
      BY <1>1, <1>2, <2>1, <2>4, ChainMoves DEF Queues
    <3> QED BY <1>2, <1>3, <2>1, <2>3, <2>4, <3>1 DEF Queues
  <2>8. Live' = Live
    BY <1>2, <1>3, <2>1, <2>3, <2>4 DEF Live
  <2>9. LiveUndeleted'
    BY <1>1, <1>2, <2>8 DEF LiveUndeleted
  <2> QED BY <2>5, <2>6, <2>7, <2>9, InvOfQueues
<1> QED BY <1>4, <1>5 DEF Expire

\* Everything in memory is gone, and whose opaque was not deleted is lost with it.
LEMMA KillKeeps ==
    ASSUME ProducerInv, Kill
    PROVE  ProducerInv'
<1>1. ProducerTypes /\ LiveUndeleted /\ Ordered /\ Queues
  BY QueuesOfInv DEF ProducerInv
<1>2. /\ input' = <<>> /\ buffer' = <<>> /\ flight' = <<>> /\ reports' = <<>>
      /\ stage' = "idle" /\ UNCHANGED <<pushed, deleted, log>> /\ pushed \in Nat
      /\ lost' = lost \cup InMemory
  BY <1>1, SequencesOfNumbers DEF Kill
<1>3. ProducerTypes'
  <2>1. \A S : <<>> \in Seq(S)
    OBVIOUS
  <2> QED BY <1>1, <1>2, <2>1 DEF ProducerTypes
<1>4. /\ Range(input') = {} /\ Range(buffer') = {} /\ Range(Sent') = {}
      /\ Range(Reported') = {} /\ Unwritten' = {} /\ InHand' = {}
  BY <1>2 DEF Sent, Reported, RecordsOf, Unwritten, InHand, Range
<1>5. Ordered'
  <2>1. DOMAIN input' = {} /\ DOMAIN buffer' = {} /\ DOMAIN Sent' = {} /\ DOMAIN Reported' = {}
    BY <1>2 DEF Sent, Reported, RecordsOf
  <2> QED BY <1>1, <1>2, <2>1 DEF Ordered, Increasing
<1>6. Queues'
  <2>1. Chain({}, {}, {}, {}, {}, {}, Range(log), pushed)
    BY <1>1, <1>2, ChainMoves DEF Queues
  <2> QED BY <1>2, <1>4, <2>1 DEF Queues
<1>7. LiveUndeleted'
  <2>1. Live' = {r \in Records : r > pushed}
    BY <1>2, <1>4 DEF Live
  <2>2. Live \subseteq {r \in Records : r > pushed} \cup InMemory
    <3>1. InHand \subseteq {hand} \ {None}
      BY <1>1, ProducerAssumption, SequencesOfNumbers DEF InHand, ProducerTypes
    <3>2. Range(Sent) \cup Range(Reported) \cup Range(buffer) \subseteq InLibrary
      BY DEF InLibrary, Sent, Reported, RecordsOf, Range
    <3> QED BY <3>1, <3>2 DEF Live, InMemory
  <2>3. {r \in Records : r > pushed} \subseteq Live
    BY DEF Live
  <2> QED BY <1>1, <1>2, <2>1, <2>2, <2>3 DEF LiveUndeleted
<1> QED BY <1>3, <1>5, <1>6, <1>7, InvOfQueues

LEMMA InitHolds ==
    ASSUME Init
    PROVE  ProducerInv
<1>1. /\ Range(input) = {} /\ Range(buffer) = {} /\ Range(Sent) = {} /\ Range(log) = {}
      /\ Range(Reported) = {} /\ Unwritten = {} /\ InHand = {}
  BY DEF Init, Sent, Reported, RecordsOf, Unwritten, InHand, Range
<1>2. ProducerTypes
  <2>1. \A S : <<>> \in Seq(S)
    OBVIOUS
  <2>2. pushed \in 0 .. MaxRecords /\ deleted \in [Records -> Nat]
    BY ProducerAssumption DEF Init
  <2> QED BY <2>1, <2>2 DEF Init, ProducerTypes
<1>3. InOrder /\ LogBehind
  <2>1. /\ DOMAIN input = {} /\ DOMAIN buffer = {} /\ DOMAIN log = {}
        /\ DOMAIN Sent = {} /\ DOMAIN Reported = {}
    BY DEF Init, Sent, Reported, RecordsOf
  <2> QED BY <1>1, <2>1 DEF InOrder, LogBehind, Increasing, Before
<1>4. LiveUndeleted
  <2>1. \A r \in Records : r > pushed /\ deleted[r] = 0
    BY ProducerAssumption DEF Init, Records
  <2> QED BY <2>1 DEF LiveUndeleted, Live
<1> QED BY <1>2, <1>3, <1>4 DEF ProducerInv

LEMMA ProducerInvariant == Spec => []ProducerInv
<1>1. Init => ProducerInv
  BY InitHolds
<1>2. ProducerInv /\ [Next]_vars => ProducerInv'
  BY PushKeeps, GetFrontKeeps, AcceptKeeps, RefuseKeeps, ServeKeeps, StillKeeps,
     TransmitKeeps, WriteKeeps, AckKeeps, ExpireKeeps, KillKeeps DEF Next, Progress
<1> QED BY <1>1, <1>2, PTL DEF Spec

\* The opaque of a record is deleted once: not while send or librdkafka has it, and
\* not left over, however the two threads run.
THEOREM OpaqueIsDeletedOnce == Spec => []OpaqueOnce
<1>1. ProducerInv => OpaqueOnce
  <2> SUFFICES ASSUME ProducerInv, NEW r \in Records \ lost
               PROVE  LET pending == r > pushed \/ r \in Range(input)
                                       \/ (r = hand /\ stage = "send")
                      IN  deleted[r] = IF pending \/ r \in InLibrary THEN 0 ELSE 1
    BY DEF OpaqueOnce
  <2>1. InLibrary = Range(buffer) \cup Range(Sent) \cup Range(Reported)
    BY DEF InLibrary, Sent, Reported, RecordsOf, Range
  <2>2. r \in InHand <=> r = hand /\ stage = "send"
    BY DEF InHand
  <2> QED BY <2>1, <2>2 DEF ProducerInv, LiveUndeleted, Live
<1> QED BY <1>1, ProducerInvariant, PTL

\* The topic has the records in the order they were pushed in and none twice, however
\* often the connection is lost.
THEOREM TopicIsOrdered == Spec => []LogOrdered
<1>1. ProducerInv => LogOrdered
  BY DEF ProducerInv, LogBehind, Increasing, LogOrdered
<1> QED BY <1>1, ProducerInvariant, PTL
=============================================================================
