------------------------------ MODULE Producer ------------------------------
(***************************************************************************)
(* How a C++ module sends: the evaluators push into a queue, the thread of *)
(* Kafka_cli::producer takes each message from it and gives it to          *)
(* KafkaProducer::send, librdkafka sends it on, and KafkaProducer's poll   *)
(* thread serves the delivery reports.  send makes an object for each      *)
(* record (the opaque) that the report's callback deletes.                 *)
(***************************************************************************)
EXTENDS ClientProperties, Sequences, SequencesExt

CONSTANTS
    None,
    QueueMax,     \* queue.buffering.max.messages
    InFlightMax,  \* max.in.flight
    MaxRecords,   \* bound of the model: records the evaluators push
    MaxFaults     \* bound of the model: refusals, expiries, lost connections, kills

ASSUME ProducerAssumption ==
    /\ QueueMax \in Nat \ {0}
    /\ InFlightMax \in Nat \ {0}
    /\ Idempotent(ProducerProps) => InFlightMax <= KAFKA_IDEMP_MAX_INFLIGHT
    /\ MaxRecords \in Nat /\ MaxFaults \in Nat
    /\ None \notin Nat

Records == 1 .. MaxRecords

VARIABLES
    pushed,   \* records pushed so far; they are numbered in that order
    input,    \* send2indexBuilder_queue
    hand,     \* the record that the thread is sending
    stage,    \* "idle", "send" or "release": where it is
    buffer,   \* librdkafka: accepted, not sent
    flight,   \* librdkafka: sent, not answered; each with whether it was written
    reports,  \* librdkafka: delivery reports, with their success
    log,      \* the topic
    deleted,  \* deleted[r]: how often the opaque of r was deleted
    failed,   \* records whose callback printed a failure
    refused,  \* records for which send threw
    lost,     \* records that were in memory when the process was killed
    faults

ours == <<input, hand, stage, deleted, failed, refused>>
library == <<buffer, flight, reports>>
vars == <<pushed, ours, library, log, lost, faults>>

\* The constructor throws if it does not accept the properties.
Init ==
    /\ ProducerAccepts(ProducerProps)
    /\ pushed = 0
    /\ input = <<>> /\ hand = None /\ stage = "idle"
    /\ buffer = <<>> /\ flight = <<>> /\ reports = <<>>
    /\ log = <<>>
    /\ deleted = [r \in Records |-> 0]
    /\ failed = {} /\ refused = {} /\ lost = {}
    /\ faults = 0

Fault == faults < MaxFaults /\ faults' = faults + 1

Delete(r) == deleted' = [deleted EXCEPT ![r] = @ + 1]

\* An evaluator has a page to announce.
Push ==
    /\ pushed < MaxRecords
    /\ pushed' = pushed + 1
    /\ input' = Append(input, pushed')
    /\ UNCHANGED <<hand, stage, deleted, failed, refused, library, log, lost, faults>>

(***************************************************************************)
(* The producer's thread.                                                  *)
(***************************************************************************)

\* send_msg2indexBuilder_handler sleeps and tries again until there is one.
\* send begins with a unique_ptr to the opaque.
GetFront ==
    /\ stage = "idle" /\ input # <<>>
    /\ hand' = Head(input) /\ input' = Tail(input)
    /\ stage' = "send"
    /\ UNCHANGED <<pushed, deleted, failed, refused, library, log, lost, faults>>

\* A record takes room until its report is served.
Room == Len(buffer) + Len(flight) + Len(reports) < QueueMax

\* rd_kafka_produceva, which waits for room.
Accept ==
    /\ stage = "send"
    /\ Room
    /\ buffer' = Append(buffer, hand)
    /\ stage' = "release"
    /\ UNCHANGED <<pushed, input, hand, deleted, failed, refused, flight, reports, log,
                   lost, faults>>

\* Or it fails: the unique_ptr deletes the opaque, Kafka_cli logs the exception.
Refuse ==
    /\ stage = "send"
    /\ Fault
    /\ Delete(hand)
    /\ refused' = refused \cup {hand}
    /\ stage' = "idle" /\ hand' = None
    /\ UNCHANGED <<pushed, input, failed, library, log, lost>>

\* Not in the code: the unique_ptr is not released, and deletes the opaque.
BugRelease ==
    /\ stage = "release"
    /\ Delete(hand)
    /\ stage' = "idle" /\ hand' = None
    /\ UNCHANGED <<pushed, input, failed, refused, library, log, lost, faults>>

\* The callback may have deleted the opaque already: release does not touch it.
Release ==
    /\ stage = "release"
    /\ stage' = "idle" /\ hand' = None
    /\ UNCHANGED <<pushed, input, deleted, failed, refused, library, log, lost, faults>>

(***************************************************************************)
(* The poll thread: rd_kafka_poll serves the reports, whatever the sending *)
(* thread does.                                                            *)
(***************************************************************************)

\* Not in the code: events are polled between two sends, and send waits for room.
BugServe ==
    /\ stage = "idle"
    /\ reports # <<>>
    /\ Delete(Head(reports).record)
    /\ failed' = IF Head(reports).ok THEN failed ELSE failed \cup {Head(reports).record}
    /\ reports' = Tail(reports)
    /\ UNCHANGED <<pushed, input, hand, stage, refused, buffer, flight, log, lost, faults>>

Serve ==
    /\ reports # <<>>
    /\ Delete(Head(reports).record)
    /\ failed' = IF Head(reports).ok THEN failed ELSE failed \cup {Head(reports).record}
    /\ reports' = Tail(reports)
    /\ UNCHANGED <<pushed, input, hand, stage, refused, buffer, flight, log, lost, faults>>

(***************************************************************************)
(* librdkafka and the broker.                                              *)
(***************************************************************************)
Transmit ==
    /\ buffer # <<>> /\ Len(flight) < InFlightMax
    /\ flight' = Append(flight, [record |-> Head(buffer), written |-> FALSE])
    /\ buffer' = Tail(buffer)
    /\ UNCHANGED <<pushed, ours, reports, log, lost, faults>>

\* The broker writes what comes next in the sequence.
Write ==
    \E i \in DOMAIN flight :
        /\ ~ flight[i].written /\ \A j \in 1 .. i - 1 : flight[j].written
        /\ flight' = [flight EXCEPT ![i].written = TRUE]
        /\ log' = Append(log, flight[i].record)
        /\ UNCHANGED <<pushed, ours, buffer, reports, lost, faults>>

Ack ==
    /\ flight # <<>> /\ Head(flight).written
    /\ reports' = Append(reports, [record |-> Head(flight).record, ok |-> TRUE])
    /\ flight' = Tail(flight)
    /\ UNCHANGED <<pushed, ours, buffer, log, lost, faults>>

\* Not in the code: without enable.idempotence the broker takes it for a new record.
BugRetried(sent) == [sent EXCEPT !.written = FALSE]

\* What is sent a second time the broker knows by its sequence number, if it has one.
Retried(sent) == IF Idempotent(ProducerProps) THEN sent ELSE [sent EXCEPT !.written = FALSE]

\* The connection is lost before the answer, and all in flight is sent again.
Reconnect ==
    /\ flight # <<>>
    /\ Fault
    /\ flight' = [i \in DOMAIN flight |-> Retried(flight[i])]
    /\ UNCHANGED <<pushed, ours, buffer, reports, log, lost>>

\* message.timeout.ms: nobody knows whether the record was written.
Expire ==
    /\ Fault
    /\ \/ /\ flight # <<>>
          /\ reports' = Append(reports, [record |-> Head(flight).record, ok |-> FALSE])
          /\ flight' = Tail(flight)
          /\ UNCHANGED buffer
       \/ /\ flight = <<>> /\ buffer # <<>>
          /\ reports' = Append(reports, [record |-> Head(buffer), ok |-> FALSE])
          /\ buffer' = Tail(buffer)
          /\ UNCHANGED flight
    /\ UNCHANGED <<pushed, ours, log, lost>>

\* What the process holds of records that are not answered.
InLibrary ==
    Range(buffer) \cup {flight[i].record : i \in DOMAIN flight}
        \cup {reports[i].record : i \in DOMAIN reports}

InMemory == Range(input) \cup InLibrary \cup ({hand} \ {None})

\* The process ends, closes nothing, and is started again.
Kill ==
    /\ Fault
    /\ lost' = lost \cup InMemory
    /\ input' = <<>> /\ hand' = None /\ stage' = "idle"
    /\ buffer' = <<>> /\ flight' = <<>> /\ reports' = <<>>
    /\ UNCHANGED <<pushed, deleted, failed, refused, log>>

Progress ==
    \/ GetFront \/ Accept \/ Release \/ Serve
    \/ Transmit \/ Write \/ Ack

Next == Progress \/ Push \/ Refuse \/ Reconnect \/ Expire \/ Kill

Spec == Init /\ [][Next]_vars

\* The thread and the poll thread are scheduled and the broker answers.  Records
\* are finite, so no thread can run for ever.
FairSpec == Spec /\ WF_vars(Progress)

-----------------------------------------------------------------------------
\* The opaque of a record is not touched after it was deleted, and none is left
\* over, although the callback in the poll thread may run before send releases it
\* (KafkaProducer.h:326, 336, 407-410).
OpaqueOnce ==
    \A r \in Records \ lost :
        LET pending == r > pushed \/ r \in Range(input) \/ (r = hand /\ stage = "send")
        IN  deleted[r] = IF pending \/ r \in InLibrary THEN 0 ELSE 1

\* The index builder gets the pages in the evaluators' order and none twice,
\* whatever is sent again (kafka_client.cpp:86).
LogOrdered == \A i, j \in DOMAIN log : i < j => log[i] < log[j]

\* Every record is answered for: it is in the topic, or its failure was logged, or
\* the process was killed with it.  A send that waits for room gets it, because the
\* reports are served by another thread (KafkaProducer.h:337, KafkaClient.h:292-298).
AllSettled ==
    \A r \in Records :
        pushed >= r ~>
            \/ r \in lost
            \/ deleted[r] = 1 /\ r \in Range(log) \cup failed \cup refused

(***************************************************************************)
(* The inductive invariant behind OpaqueOnce and LogOrdered: from the      *)
(* reports back to the queue, what is in memory is in the order of the     *)
(* records, so that no record is in two places, and behind what is written.*)
(***************************************************************************)
ProducerTypes ==
    /\ pushed \in 0 .. MaxRecords
    /\ input \in Seq(Records) /\ buffer \in Seq(Records) /\ log \in Seq(Records)
    /\ stage \in {"idle", "send", "release"}
    /\ stage = "send" => hand \in Records
    /\ flight \in Seq([record : Records, written : BOOLEAN])
    /\ reports \in Seq([record : Records, ok : BOOLEAN])
    /\ deleted \in [Records -> Nat]

Increasing(s) == \A i, j \in DOMAIN s : i < j => s[i] < s[j]
Before(S, T) == \A x \in S, y \in T : x < y
RecordsOf(q) == [i \in DOMAIN q |-> q[i].record]

Reported == RecordsOf(reports)
Sent == RecordsOf(flight)
InHand == IF stage = "send" THEN {hand} ELSE {}
Unwritten == {flight[i].record : i \in {j \in DOMAIN flight : ~ flight[j].written}}

InOrder ==
    /\ Increasing(Reported) /\ Increasing(Sent) /\ Increasing(buffer) /\ Increasing(input)
    /\ Before(Range(Reported), Range(Sent) \cup Range(buffer) \cup InHand \cup Range(input))
    /\ Before(Range(Sent), Range(buffer) \cup InHand \cup Range(input))
    /\ Before(Range(buffer), InHand \cup Range(input))
    /\ Before(InHand, Range(input))
    /\ Range(Reported) \cup Range(Sent) \cup Range(buffer) \cup InHand \cup Range(input)
           \subseteq 1 .. pushed

LogBehind ==
    /\ Increasing(log) /\ Range(log) \subseteq 1 .. pushed
    /\ Before(Range(log), Unwritten \cup Range(buffer) \cup InHand \cup Range(input))

\* Records whose opaque has not been deleted: not made yet, or in use.
Live ==
    {r \in Records : r > pushed} \cup Range(input) \cup InHand \cup Range(buffer)
        \cup Range(Sent) \cup Range(Reported)

LiveUndeleted == \A r \in Records \ lost : deleted[r] = IF r \in Live THEN 0 ELSE 1

ProducerInv == ProducerTypes /\ InOrder /\ LogBehind /\ LiveUndeleted
=============================================================================
