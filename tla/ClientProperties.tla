-------------------------- MODULE ClientProperties --------------------------
(***************************************************************************)
(* The properties of the two Kafka clients: what kafka_client.cpp asks     *)
(* for, and what the constructors of KafkaClient, KafkaConsumer and        *)
(* KafkaProducer make of it before librdkafka sees it.  Properties are a   *)
(* function from the names that are set to their values.                   *)
(***************************************************************************)
EXTENDS Naturals

put(props, name, value) ==
    [n \in DOMAIN props \cup {name} |-> IF n = name THEN value ELSE props[n]]

remove(props, name) == [n \in DOMAIN props \ {name} |-> props[n]]

putIfMissing(props, name, value) ==
    IF name \in DOMAIN props THEN props ELSE put(props, name, value)

Has(props, name, value) == name \in DOMAIN props /\ props[name] = value

\* KafkaClient::validateAndReformProperties, of properties that have the brokers.
ReformClient(props) ==
    putIfMissing(putIfMissing(props, "client.id", "random"), "log_level", "Notice")

(***************************************************************************)
(* The consumer.                                                           *)
(***************************************************************************)
ConsumerProps ==
    [n \in {"bootstrap.servers", "enable.auto.commit", "group.id", "auto.offset.reset"} |->
        CASE n = "bootstrap.servers" -> "brokers"
          [] n = "enable.auto.commit" -> "true"
          [] n = "group.id" -> "module"
          [] n = "auto.offset.reset" -> "earliest"]

\* Not in the code: librdkafka is given the caller's enable.auto.commit.
BugReformConsumer(props) ==
    LET base == putIfMissing(ReformClient(remove(props, "max.poll.records")),
                             "group.id", "random")
    IN  put(put(base, "auto.commit.interval.ms", "0"), "enable.auto.offset.store", "true")

\* KafkaConsumer::validateAndReformProperties: librdkafka's own commits are
\* switched off, since KafkaConsumer commits by itself.
ReformConsumer(props) ==
    LET base == putIfMissing(ReformClient(remove(props, "max.poll.records")),
                             "group.id", "random")
        manual == put(base, "enable.auto.commit", "false")
    IN  put(put(manual, "auto.commit.interval.ms", "0"), "enable.auto.offset.store", "true")

\* _enableAutoCommit, from the properties as they were given.
EnableAutoCommit(props) ==
    Has(props, "enable.auto.commit", "true") \/ Has(props, "enable.auto.commit", "1")

\* librdkafka commits what it has handed over.
LibraryCommits(props) ==
    Has(ReformConsumer(props), "enable.auto.commit", "true")

(***************************************************************************)
(* The producer.                                                           *)
(***************************************************************************)
ProducerProps ==
    [n \in {"bootstrap.servers", "enable.idempotence"} |->
        CASE n = "bootstrap.servers" -> "brokers"
          [] n = "enable.idempotence" -> "true"]

KAFKA_IDEMP_MAX_INFLIGHT == 5

Idempotent(props) == Has(ReformClient(props), "enable.idempotence", "true")

availPartitioners ==
    {"murmur2_random", "murmur2", "random", "consistent", "consistent_random",
     "fnv1a", "fnv1a_random"}

\* KafkaProducer::validateAndReformProperties does not throw.
ProducerAccepts(props) ==
    LET reformed == ReformClient(props)
        set == DOMAIN reformed
    IN  /\ "partitioner" \in set => reformed["partitioner"] \in availPartitioners
        /\ Idempotent(props) =>
               /\ "max.in.flight" \in set =>
                      reformed["max.in.flight"] <= KAFKA_IDEMP_MAX_INFLIGHT
               /\ "acks" \in set => reformed["acks"] \in {"all", "-1"}
=============================================================================
