---------------------------- MODULE KafkaProducer ----------------------------
(***************************************************************************)
(* The Kafka producer (ingest/producer.rs): produce enqueues a message     *)
(* without waiting and spawns a task that observes its delivery report.    *)
(* The client library and the broker behind it are external and modelled   *)
(* from the configuration the code gives them: enable.idempotence and      *)
(* acks=all keep one copy of a message, in queue order, per partition;     *)
(* message.timeout.ms fails a message whose report is late, whether or not *)
(* the broker has it.                                                      *)
(*                                                                         *)
(* An entry is [req, index, message]: the message, tagged with the request *)
(* that enqueued it and its position there.  The tag makes entries unique  *)
(* and is what the properties refer to; Kafka never sees it.               *)
(***************************************************************************)
EXTENDS Integers, Sequences, FiniteSets, Functions

CONSTANTS
  Partitions,    \* partitions of the topic
  PartitionOf,   \* the partitioner: a function from message keys to partitions
  QueueCapacity  \* how many messages the local queue holds

ASSUME KafkaAssumption == QueueCapacity \in Nat \ {0}

VARIABLES
  unsent,    \* per partition, the queue of messages not yet written by the broker
  topic,     \* per partition, the log the consumers read
  unacked,   \* messages in the log whose delivery report has not arrived
  failed,    \* messages whose delivery report is an error
  observers, \* messages whose spawned observer task has not finished
  warned     \* messages whose failed delivery was logged

kafkaVars == <<unsent, topic, unacked, failed, observers, warned>>

KafkaInit ==
  /\ unsent = [p \in Partitions |-> <<>>]
  /\ topic = [p \in Partitions |-> <<>>]
  /\ unacked = {}
  /\ failed = {}
  /\ observers = {}
  /\ warned = {}

(* Messages that occupy the local queue: those without a delivery report. *)
Pending == unacked \cup UNION {Range(unsent[p]) : p \in Partitions}

(* Every message produce ever accepted. *)
Enqueued ==
  failed \cup UNION {Range(unsent[p]) \cup Range(topic[p]) : p \in Partitions}

-----------------------------------------------------------------------------
(* Mutant of ProduceOk: the task waits for a message that was never queued. *)
ProduceUnqueued(entry) ==
  /\ Cardinality(Pending) < QueueCapacity
  /\ unacked' = unacked \cup {entry}
  /\ observers' = observers \cup {entry}
  /\ UNCHANGED <<unsent, topic, failed, warned>>

(* send_result queues the message and the observer of its future is spawned. *)
ProduceOk(entry) ==
  LET p == PartitionOf[entry.message.key] IN
  /\ Cardinality(Pending) < QueueCapacity
  /\ unsent' = [unsent EXCEPT ![p] = Append(@, entry)]
  /\ observers' = observers \cup {entry}
  /\ UNCHANGED <<topic, unacked, failed, warned>>

(* send_result refuses the message; no task is spawned. *)
ProduceQueueFull ==
  /\ Cardinality(Pending) >= QueueCapacity
  /\ UNCHANGED kafkaVars

(* Any other error of send_result: nothing is queued and no task spawned. *)
ProduceBackend == UNCHANGED kafkaVars

-----------------------------------------------------------------------------
(* External: the library's sender and the broker.                          *)

(* Mutant of BrokerAppend: without idempotence a retry writes a second copy. *)
BrokerAppendRetried(p) ==
  /\ unsent[p] # <<>>
  /\ unsent' = [unsent EXCEPT ![p] = Tail(@)]
  /\ topic' = [topic EXCEPT ![p] = @ \o <<Head(unsent[p]), Head(unsent[p])>>]
  /\ unacked' = unacked \cup {Head(unsent[p])}
  /\ UNCHANGED <<failed, observers, warned>>

(* The broker appends the message at the head of a partition's queue. *)
BrokerAppend(p) ==
  /\ unsent[p] # <<>>
  /\ unsent' = [unsent EXCEPT ![p] = Tail(@)]
  /\ topic' = [topic EXCEPT ![p] = Append(@, Head(unsent[p]))]
  /\ unacked' = unacked \cup {Head(unsent[p])}
  /\ UNCHANGED <<failed, observers, warned>>

(* The delivery report of a written message arrives in time. *)
DeliveryReport(entry) ==
  /\ entry \in unacked
  /\ unacked' = unacked \ {entry}
  /\ UNCHANGED <<unsent, topic, failed, observers, warned>>

(* message.timeout.ms expires for a message the broker never wrote.  All
   messages have the same timeout, so the oldest of a queue expires first. *)
ExpireUnsent(p) ==
  /\ unsent[p] # <<>>
  /\ unsent' = [unsent EXCEPT ![p] = Tail(@)]
  /\ failed' = failed \cup {Head(unsent[p])}
  /\ UNCHANGED <<topic, unacked, observers, warned>>

(* message.timeout.ms expires for a message the broker did write: its
   acknowledgements were lost, and the report is an error all the same. *)
ExpireUnacked(entry) ==
  /\ entry \in unacked
  /\ unacked' = unacked \ {entry}
  /\ failed' = failed \cup {entry}
  /\ UNCHANGED <<unsent, topic, observers, warned>>

-----------------------------------------------------------------------------
(* Mutant of ObserveDelivery: a failed delivery is dropped without a warning. *)
ObserveDeliverySilently(entry) ==
  /\ entry \in observers \ Pending
  /\ observers' = observers \ {entry}
  /\ UNCHANGED <<unsent, topic, unacked, failed, warned>>

(* The spawned task resumes once its report is there, logs a failure, ends. *)
ObserveDelivery(entry) ==
  /\ entry \in observers \ Pending
  /\ observers' = observers \ {entry}
  /\ warned' = IF entry \in failed THEN warned \cup {entry} ELSE warned
  /\ UNCHANGED <<unsent, topic, unacked, failed>>

KafkaNext ==
  \/ \E p \in Partitions : BrokerAppend(p) \/ ExpireUnsent(p)
  \/ \E entry \in unacked : DeliveryReport(entry) \/ ExpireUnacked(entry)
  \/ \E entry \in observers : ObserveDelivery(entry)
=============================================================================
