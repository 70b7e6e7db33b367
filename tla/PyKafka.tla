------------------------------- MODULE PyKafka -------------------------------
(***************************************************************************)
(* The Python side's Kafka client (utils/kafka_py/client.py): a Producer   *)
(* thread for each of its topics takes a message from the queue the other  *)
(* threads fill, sends it, and waits at most ten seconds for the answer.   *)
(* KafkaProducer keeps what it was given in order; retries are off.  Web   *)
(* API, word splitter and crawler are built on it.                         *)
(***************************************************************************)
EXTENDS Naturals, Sequences

CONSTANTS
    Topics,      \* the topics that are written by a Producer
    QueMaxSize,  \* maxsize of the queues between two threads that have one
    SendFaults,  \* what may go wrong: a subset of {"fail", "timeout", "raise"}
    MaxFaults    \* bound of the model: how often something goes wrong

ASSUME PyKafkaAssumption ==
    /\ SendFaults \subseteq {"fail", "timeout", "raise"}
    /\ MaxFaults \in Nat /\ QueMaxSize \in Nat \ {0}

VARIABLES
    queue,     \* queue[t]: message_que of t's Producer
    flight,    \* flight[t]: sent, the broker has not answered yet
    waiting,   \* waiting[t]: the Producer is in future.get
    dead,      \* dead[t]: the Producer's thread has ended
    topic,     \* topic[t]: the records that the consumer of t has not taken
    dropped,   \* the messages that a Producer has given up
    faults     \* how often something went wrong

kafkaVars == <<queue, flight, waiting, dead, topic, dropped, faults>>

KafkaInit ==
    /\ queue = [t \in Topics |-> <<>>]
    /\ flight = [t \in Topics |-> <<>>]
    /\ waiting = [t \in Topics |-> FALSE]
    /\ dead = [t \in Topics |-> FALSE]
    /\ topic = [t \in Topics |-> <<>>]
    /\ dropped = {}
    /\ faults = 0

\* One of at most MaxFaults faults.
Fault == faults < MaxFaults /\ faults' = faults + 1

Put(t, m) == queue' = [queue EXCEPT ![t] = Append(@, m)]

\* The next message of Producer t goes to KafkaProducer.
Send(t) ==
    /\ ~ dead[t] /\ ~ waiting[t]
    /\ queue[t] # <<>>
    /\ queue' = [queue EXCEPT ![t] = Tail(@)]
    /\ flight' = [flight EXCEPT ![t] = Append(@, Head(queue[t]))]
    /\ waiting' = [waiting EXCEPT ![t] = TRUE]
    /\ UNCHANGED <<dead, topic, dropped, faults>>

\* send itself raises, when there is no metadata for a minute: nobody catches it.
SendRaises(t) ==
    /\ "raise" \in SendFaults
    /\ ~ dead[t] /\ ~ waiting[t]
    /\ queue[t] # <<>>
    /\ Fault
    /\ queue' = [queue EXCEPT ![t] = Tail(@)]
    /\ dropped' = dropped \cup {Head(queue[t])}
    /\ dead' = [dead EXCEPT ![t] = TRUE]
    /\ UNCHANGED <<flight, waiting, topic>>

\* The broker has answered for the oldest message; the Producer waits for the
\* answer to its newest.
Answered(t) ==
    /\ flight[t] # <<>>
    /\ flight' = [flight EXCEPT ![t] = Tail(@)]
    /\ waiting' = [waiting EXCEPT ![t] = @ /\ Len(flight[t]) > 1]
    /\ UNCHANGED <<queue, dead>>

Arrive(t) ==
    /\ Answered(t)
    /\ topic' = [topic EXCEPT ![t] = Append(@, Head(flight[t]))]
    /\ UNCHANGED <<dropped, faults>>

\* The error is printed, the message is not sent again.
SendFails(t) ==
    /\ "fail" \in SendFaults
    /\ Fault
    /\ Answered(t)
    /\ dropped' = dropped \cup {Head(flight[t])}
    /\ UNCHANGED topic

\* Ten seconds without an answer.  The message stays where it is.
SendTimeout(t) ==
    /\ "timeout" \in SendFaults
    /\ waiting[t]
    /\ Fault
    /\ waiting' = [waiting EXCEPT ![t] = FALSE]
    /\ UNCHANGED <<queue, flight, dead, topic, dropped>>

Trip(t) == SendRaises(t) \/ SendFails(t) \/ SendTimeout(t)

\* The consumer of t takes the next record.
Consume(t) ==
    /\ topic[t] # <<>>
    /\ topic' = [topic EXCEPT ![t] = Tail(@)]
=============================================================================
