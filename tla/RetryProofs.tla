---------------------------- MODULE RetryProofs ----------------------------
(***************************************************************************)
(* Proofs about clients that repeat their submissions to a process that    *)
(* may die: for any number of clients, tries, deaths, events, partitions   *)
(* and any queue capacity.                                                 *)
(*                                                                         *)
(* The argument: what Kafka was ever given for a try is its events up to   *)
(* the handler's counter, whatever died in between (GivenInv), and a       *)
(* client replaces a try only after it gave up on it or heard that it      *)
(* failed (TriesInv).                                                      *)
(***************************************************************************)
EXTENDS RetryingClient, IngestProofs

-----------------------------------------------------------------------------
(* The inductive invariant.                                                *)

(* The process died while the handler published. *)
Killed(r) ==
  /\ stage[r] = "dropped" /\ response[r] = NoResponse
  /\ Refusals(sub[r]) = {} /\ now[r] \in Instants /\ next[r] <= Size(r)

HandlersInv == \A r \in Requests : RequestInv(r) \/ Killed(r)

(* Everything Kafka was given, what died with a queue included. *)
GivenBy(r) == {e \in Enqueued \cup lost : e.req = r}
GivenInv == \A r \in Requests : GivenBy(r) = Events(r)

(* A try has not begun, or it was given up, or answered with a failure, before
   the next one began. *)
History(c, n) ==
  /\ n > tries[c] => stage[<<c, n>>] = "idle"
  /\ n < tries[c] =>
       \/ n \in doubts[c]
       \/ /\ stage[<<c, n>>] = "responded"
          /\ response[<<c, n>>].status \in {408, 500, 503}

(* A client's tries carry the same thing, and begin one after the other. *)
TriesInv ==
  /\ doubts \in [Clients -> SUBSET (1..MaxTries)]
  /\ \A c \in Clients : heard[c] => tries[c] > 0 /\ stage[LastTry(c)] = "responded"
  /\ \A c \in Clients, n \in 1..MaxTries : sub[<<c, n>>] = sub[<<c, 1>>] /\ History(c, n)

(* A message is where the partitioner put it. *)
PlacedInv ==
  \A p \in Partitions : \A e \in Range(topic[p]) \cup Range(unsent[p]) :
    PartitionOf[e.message.key] = p

(* The local queue is bounded, and with it what a death can cost. *)
QueueInv == IsFiniteSet(Pending) /\ Cardinality(Pending) <= QueueCapacity
LostInv == IsFiniteSet(lost) /\ Cardinality(lost) <= crashes * QueueCapacity

(* What the service and its producer keep, whoever the clients are. *)
ServiceInv ==
  /\ TypeOK /\ lost \subseteq Entries
  /\ HandlersInv /\ GivenInv /\ PlacedInv /\ QueueInv /\ OrderInv

(* What is known of a client's counters. *)
ClientsInv ==
  /\ tries \in [Clients -> 0..MaxTries]
  /\ heard \in [Clients -> BOOLEAN]
  /\ \A c \in Clients : doubts[c] \subseteq 1..(tries[c] - 1)
  /\ crashes \in 0..MaxCrashes

RInv == ClientsInv /\ TriesInv /\ ServiceInv /\ LostInv

-----------------------------------------------------------------------------
(* Requests are the tries of the clients. *)
LEMMA RequestsAreTries ==
  /\ \A r \in Requests :
       r[1] \in Clients /\ r[2] \in 1..MaxTries /\ r = <<r[1], r[2]>>
  /\ \A c \in Clients, n \in 1..MaxTries : <<c, n>> \in Requests
BY ClientAssumption

(* A killed handler stays as it was. *)
LEMMA KilledUntouched ==
  ASSUME NEW r \in Requests, Killed(r),
         sub'[r] = sub[r], stage'[r] = stage[r], now'[r] = now[r],
         next'[r] = next[r], response'[r] = response[r]
  PROVE  Killed(r)' /\ Events(r)' = Events(r)
<1>1. Size(r)' = Size(r) /\ \A i : EntryOf(r, i)' = EntryOf(r, i)
  BY DEF Size, EntryOf
<1>2. QED
  BY <1>1 DEF Killed, Events

(* Queues and topic hold entries. *)
LEMMA EnqueuedType ==
  ASSUME KafkaTypeOK
  PROVE  Enqueued \subseteq Entries
<1>1. ASSUME NEW p \in Partitions
      PROVE  Range(unsent[p]) \subseteq Entries /\ Range(topic[p]) \subseteq Entries
  <2>1. unsent[p] \in Seq(Entries) /\ topic[p] \in Seq(Entries)
    BY DEF KafkaTypeOK
  <2>2. QED
    BY <2>1 DEF Range
<1>2. QED
  BY <1>1 DEF Enqueued, KafkaTypeOK

-----------------------------------------------------------------------------
(* The producer.                                                           *)

(* The queue admits a message only while it has room. *)
LEMMA QueueProduce ==
  ASSUME KafkaTypeOK, QueueInv, NEW e \in Entries, ProduceOk(e),
         PartitionOf[e.message.key] \in Partitions
  PROVE  QueueInv'
<1>1. Pending' \in SUBSET (Pending \cup {e})
  BY PendingProduce
<1>2. Cardinality(Pending) < QueueCapacity
  BY DEF ProduceOk
<1>3. IsFiniteSet(Pending \cup {e}) /\ Cardinality(Pending \cup {e}) <= QueueCapacity
  <2>1. IsFiniteSet(Pending) /\ Cardinality(Pending) \in Nat /\ QueueCapacity \in Nat
    BY FS_CardinalityType, KafkaAssumption DEF QueueInv
  <2>2. /\ IsFiniteSet(Pending \cup {e})
        /\ \/ Cardinality(Pending \cup {e}) = Cardinality(Pending)
           \/ Cardinality(Pending \cup {e}) = Cardinality(Pending) + 1
    BY <2>1, FS_AddElement
  <2>3. QED
    BY <1>2, <2>1, <2>2
<1>4. IsFiniteSet(Pending') /\ Cardinality(Pending') <= Cardinality(Pending \cup {e})
  BY <1>1, <1>3, FS_Subset
<1>5. Cardinality(Pending') \in Nat /\ Cardinality(Pending \cup {e}) \in Nat
  BY <1>3, <1>4, FS_CardinalityType
<1>6. QED
  BY <1>3, <1>4, <1>5, KafkaAssumption DEF QueueInv

(* The library only takes messages out of it. *)
LEMMA QueueKafka ==
  ASSUME KafkaTypeOK, QueueInv, KafkaNext
  PROVE  QueueInv'
<1>1. Pending' \in SUBSET Pending
  BY PendingStep
<1>2. IsFiniteSet(Pending') /\ Cardinality(Pending') <= Cardinality(Pending)
  BY <1>1, FS_Subset DEF QueueInv
<1>3. Cardinality(Pending') \in Nat /\ Cardinality(Pending) \in Nat
  BY <1>2, FS_CardinalityType DEF QueueInv
<1>4. QED
  BY <1>2, <1>3, KafkaAssumption DEF QueueInv

(* A message joins the queue of its partition ... *)
LEMMA PlacedProduce ==
  ASSUME KafkaTypeOK, PlacedInv, NEW e \in Entries, ProduceOk(e)
  PROVE  PlacedInv'
<1> DEFINE p == PartitionOf[e.message.key]
<1> SUFFICES ASSUME NEW q \in Partitions, NEW x \in Range(topic'[q]) \cup Range(unsent'[q])
             PROVE  PartitionOf[x.message.key] = q
  BY DEF PlacedInv
<1>1. topic' = topic /\ unsent' = [unsent EXCEPT ![p] = Append(@, e)]
  BY DEF ProduceOk
<1>2. unsent[q] \in Seq(Entries)
  BY DEF KafkaTypeOK
<1>3. Range(Append(unsent[q], e)) = Range(unsent[q]) \cup {e}
  BY <1>2, RangeAppend
<1>4. Range(unsent'[q]) \subseteq Range(unsent[q]) \cup (IF q = p THEN {e} ELSE {})
  BY <1>1, <1>3 DEF KafkaTypeOK
<1>5. QED
  BY <1>1, <1>4 DEF PlacedInv

(* ... and leaves it for the log of the same partition. *)
LEMMA PlacedKafka ==
  ASSUME KafkaTypeOK, PlacedInv, KafkaNext
  PROVE  PlacedInv'
<1> SUFFICES ASSUME NEW q \in Partitions
             PROVE  Range(topic'[q]) \cup Range(unsent'[q])
                      \subseteq Range(topic[q]) \cup Range(unsent[q])
  BY DEF PlacedInv
<1>1. topic[q] \in Seq(Entries) /\ unsent[q] \in Seq(Entries)
  BY DEF KafkaTypeOK
<1>2. CASE topic'[q] = topic[q] /\ unsent'[q] = unsent[q]
  BY <1>2
<1>3. CASE BrokerAppend(q) \/ ExpireUnsent(q)
  <2>1. unsent[q] # <<>> /\ unsent'[q] = Tail(unsent[q])
    BY <1>3 DEF BrokerAppend, ExpireUnsent, KafkaTypeOK
  <2>2. /\ Head(unsent[q]) \in Entries
        /\ Range(unsent[q]) = {Head(unsent[q])} \cup Range(Tail(unsent[q]))
    BY <1>1, <2>1, RangeTail
  <2>3. topic'[q] = topic[q] \/ topic'[q] = Append(topic[q], Head(unsent[q]))
    BY <1>3 DEF BrokerAppend, ExpireUnsent, KafkaTypeOK
  <2>4. Range(Append(topic[q], Head(unsent[q]))) = Range(topic[q]) \cup {Head(unsent[q])}
    BY <1>1, <2>2, RangeAppend
  <2>5. QED
    BY <2>1, <2>2, <2>3, <2>4
<1>4. ASSUME NEW p \in Partitions, p # q, BrokerAppend(p) \/ ExpireUnsent(p)
      PROVE  topic'[q] = topic[q] /\ unsent'[q] = unsent[q]
  BY <1>4 DEF BrokerAppend, ExpireUnsent, KafkaTypeOK
<1>5. ASSUME NEW e, DeliveryReport(e) \/ ExpireUnacked(e) \/ ObserveDelivery(e)
      PROVE  topic'[q] = topic[q] /\ unsent'[q] = unsent[q]
  BY <1>5 DEF DeliveryReport, ExpireUnacked, ObserveDelivery
<1>6. QED
  BY <1>2, <1>3, <1>4, <1>5 DEF KafkaNext

-----------------------------------------------------------------------------
(* The steps of the service.                                               *)

(* Nothing of the service changes. *)
LEMMA ServiceUnchanged ==
  ASSUME ServiceInv, UNCHANGED vars, lost' = lost
  PROVE  ServiceInv'
<1>1. UNCHANGED requestVars /\ UNCHANGED trackingVars /\ UNCHANGED kafkaVars
  BY DEF vars
<1>2. TypeOK' /\ Enqueued' = Enqueued
  BY <1>1, KafkaUnchanged, TrackingUnchanged
  DEF ServiceInv, TypeOK, RequestTypeOK, requestVars
<1>3. ASSUME NEW r \in Requests
      PROVE  (RequestInv(r)' \/ Killed(r)') /\ GivenBy(r)' = Events(r)'
  <2>1. /\ (RequestInv(r) \/ Killed(r)) /\ GivenBy(r) = Events(r)
        /\ sub' = sub /\ stage' = stage /\ now' = now
        /\ next' = next /\ response' = response
    BY <1>1 DEF ServiceInv, HandlersInv, GivenInv, requestVars
  <2>2. (RequestInv(r)' \/ Killed(r)') /\ Events(r)' = Events(r)
    BY <2>1, Untouched, KilledUntouched
  <2>3. GivenBy(r)' = GivenBy(r)
    BY <1>2 DEF GivenBy
  <2>4. QED
    BY <2>1, <2>2, <2>3
<1>4. unsent' = unsent /\ topic' = topic /\ unacked' = unacked
  BY <1>1 DEF kafkaVars
<1>5. PlacedInv' /\ QueueInv'
  BY <1>4 DEF ServiceInv, PlacedInv, QueueInv, Pending
<1>6. OrderInv'
  BY <1>4 DEF ServiceInv, OrderInv
<1>7. HandlersInv' /\ GivenInv'
  BY <1>3 DEF HandlersInv, GivenInv
<1>8. QED
  BY <1>2, <1>5, <1>6, <1>7 DEF ServiceInv

(* A handler's step. *)
LEMMA ServiceHandler ==
  ASSUME ServiceInv, NEW q \in Requests, Arrival(q) \/ AwaitBody(q) \/ Running(q),
         lost' = lost
  PROVE  ServiceInv' /\ Spares(q) /\ stage[q] \in {"idle", "body", "running"}
<1>1. RequestTypeOK /\ TrackingTypeOK /\ KafkaTypeOK
  BY DEF ServiceInv, TypeOK
<1>2. stage[q] \in {"idle", "body", "running"}
  BY DEF Arrival, Health, NotFound, MethodNotAllowed, ReceiveHead, AwaitBody, Timeout,
         Disconnect, BodyRejected, Refuse, HandlerPanic, Accept, Running, Enqueue,
         EnqueueQueueFull, EnqueueBackend, Finish
<1>3. RequestInv(q)
  BY <1>2 DEF ServiceInv, HandlersInv, Killed
<1>4. /\ Keeps(q)
      /\ \/ Holds(q) /\ UNCHANGED kafkaVars
         \/ Advances(q) /\ ProduceOk(NextEntry(q))
  BY <1>1, <1>3, HandlerStep
<1>5. HandlersInv'
  <2>1. ASSUME NEW r \in Requests, r # q PROVE RequestInv(r)' \/ Killed(r)'
    <3>1. /\ sub'[r] = sub[r] /\ stage'[r] = stage[r] /\ now'[r] = now[r]
          /\ next'[r] = next[r] /\ response'[r] = response[r]
      BY <1>4, <2>1 DEF Keeps, Spares
    <3>2. RequestInv(r) \/ Killed(r)
      BY DEF ServiceInv, HandlersInv
    <3>3. QED
      BY <3>1, <3>2, Untouched, KilledUntouched
  <2>2. QED
    BY <1>4, <2>1 DEF HandlersInv, Keeps
<1>6. \A r \in Requests : GivenBy(r) = Events(r)
  BY DEF ServiceInv, GivenInv
<1>7. CASE Holds(q) /\ UNCHANGED kafkaVars
  <2>1. KafkaTypeOK' /\ Enqueued' = Enqueued
    BY <1>1, <1>7, KafkaUnchanged
  <2>2. ASSUME NEW r \in Requests PROVE GivenBy(r)' = Events(r)'
    <3>1. Events(r)' = Events(r)
      BY <1>4, <1>7, EventsHold DEF Keeps
    <3>2. GivenBy(r)' = GivenBy(r)
      BY <2>1 DEF GivenBy
    <3>3. QED
      BY <1>6, <3>1, <3>2
  <2>3. GivenInv'
    BY <2>2 DEF GivenInv
  <2>4. unsent' = unsent /\ topic' = topic /\ unacked' = unacked
    BY <1>7 DEF kafkaVars
  <2>5. PlacedInv' /\ QueueInv'
    BY <2>4 DEF ServiceInv, PlacedInv, QueueInv, Pending
  <2>6. OrderInv'
    BY <2>4 DEF ServiceInv, OrderInv
  <2>7. QED
    BY <1>2, <1>4, <1>5, <2>1, <2>3, <2>5, <2>6 DEF ServiceInv, Keeps, TypeOK
<1>8. CASE Advances(q) /\ ProduceOk(NextEntry(q))
  <2> DEFINE e == NextEntry(q)
  <2>1. /\ e \in Entries /\ PartitionOf[e.message.key] \in Partitions
        /\ e.req = q /\ e.index = next[q] + 1 /\ ProduceOk(e)
    BY <1>8 DEF Advances
  <2>2. Events(q)' = Events(q) \cup {e} /\ \A r \in Requests \ {q} : Events(r)' = Events(r)
    BY <1>1, <1>4, <1>8, EventsAdvance DEF Keeps, RequestTypeOK
  <2> HIDE DEF e
  <2>3. KafkaTypeOK' /\ Enqueued' = Enqueued \cup {e}
    BY <1>1, <2>1, ProduceStep
  <2>4. GivenBy(q)' = GivenBy(q) \cup {e} /\ \A r \in Requests \ {q} : GivenBy(r)' = GivenBy(r)
    BY <2>1, <2>3 DEF GivenBy
  <2>5. GivenInv'
    BY <1>6, <2>2, <2>4 DEF GivenInv
  <2>6. PlacedInv' /\ QueueInv'
    BY <1>1, <2>1, PlacedProduce, QueueProduce DEF ServiceInv
  <2>7. ASSUME NEW x \in Enqueued, x.req = e.req PROVE x.index < e.index
    <3>1. x \in Events(q)
      BY <1>6, <2>1, <2>7 DEF GivenBy
    <3>2. PICK i \in 1..next[q] : x = EntryOf(q, i)
      BY <3>1 DEF Events
    <3>3. x.index = i /\ next[q] \in Nat
      BY <1>1, <3>2 DEF EntryOf, RequestTypeOK
    <3>4. QED
      BY <2>1, <3>3
  <2>8. OrderInv'
    BY <1>1, <2>1, <2>7, OrderProduce DEF ServiceInv
  <2>9. QED
    BY <1>2, <1>4, <1>5, <2>3, <2>5, <2>6, <2>8 DEF ServiceInv, Keeps, TypeOK
<1>9. QED
  BY <1>4, <1>7, <1>8

(* A step of the library, the broker or an observer. *)
LEMMA ServiceKafka ==
  ASSUME ServiceInv, Kafka, lost' = lost
  PROVE  ServiceInv'
<1>1. KafkaTypeOK' /\ Enqueued' = Enqueued /\ KafkaNext /\ KafkaTypeOK
  BY KafkaStep DEF Kafka, ServiceInv, TypeOK
<1>2. /\ sub' = sub /\ stage' = stage /\ now' = now
      /\ next' = next /\ response' = response /\ UNCHANGED trackingVars
  BY DEF Kafka, requestVars
<1>3. TypeOK'
  BY <1>1, <1>2, TrackingUnchanged DEF ServiceInv, TypeOK, RequestTypeOK
<1>4. ASSUME NEW r \in Requests
      PROVE  (RequestInv(r)' \/ Killed(r)') /\ GivenBy(r)' = Events(r)'
  <2>1. (RequestInv(r) \/ Killed(r)) /\ GivenBy(r) = Events(r)
    BY DEF ServiceInv, HandlersInv, GivenInv
  <2>2. (RequestInv(r)' \/ Killed(r)') /\ Events(r)' = Events(r)
    BY <1>2, <2>1, Untouched, KilledUntouched
  <2>3. GivenBy(r)' = GivenBy(r)
    BY <1>1 DEF GivenBy
  <2>4. QED
    BY <2>1, <2>2, <2>3
<1>5. PlacedInv' /\ QueueInv' /\ OrderInv'
  BY <1>1, PlacedKafka, QueueKafka, OrderKafka DEF ServiceInv
<1>6. HandlersInv' /\ GivenInv'
  BY <1>4 DEF HandlersInv, GivenInv
<1>7. QED
  BY <1>3, <1>5, <1>6 DEF ServiceInv

-----------------------------------------------------------------------------
(* The death of the process.                                               *)

(* Nothing is left of the queue; the log of a partition stays in order. *)
LEMMA OrderedPrefix ==
  ASSUME NEW s \in Seq(Entries), NEW u \in Seq(Entries), Ordered(s \o u)
  PROVE  Ordered(s \o <<>>)
<1>1. /\ DOMAIN (s \o u) = 1..(Len(s) + Len(u))
      /\ \A i \in 1..(Len(s) + Len(u)) :
           (s \o u)[i] = IF i <= Len(s) THEN s[i] ELSE u[i - Len(s)]
  BY ConcatElements
<1>2. s \o <<>> = s /\ DOMAIN s = 1..Len(s) /\ Len(s) \in Nat /\ Len(u) \in Nat
  OBVIOUS
<1>3. ASSUME NEW i \in 1..Len(s)
      PROVE  i \in DOMAIN (s \o u) /\ (s \o u)[i] = s[i]
  BY <1>1, <1>2
<1>4. QED
  BY <1>2, <1>3 DEF Ordered

(* Handlers, queue and observers are gone; what was in the queue is lost. *)
LEMMA ServiceCrash ==
  ASSUME ServiceInv, Crash
  PROVE  /\ ServiceInv' /\ lost' \subseteq lost \cup Pending
         /\ \A r \in Requests : stage[r] = "responded" => stage'[r] = "responded"
         /\ \A r \in Requests : stage[r] = "idle" => stage'[r] = "idle"
<1>1. RequestTypeOK /\ TrackingTypeOK /\ KafkaTypeOK
  BY DEF ServiceInv, TypeOK
<1>2. /\ lost' = lost \cup UNION {Range(unsent[p]) : p \in Partitions}
      /\ unsent' = [p \in Partitions |-> <<>>]
      /\ unacked' = {} /\ observers' = {}
      /\ UNCHANGED <<topic, failed, warned>>
  BY DEF Crash
<1>3. /\ stage' = [r \in Requests |->
                     IF stage[r] \in {"body", "running"} THEN "dropped" ELSE stage[r]]
      /\ sub' = sub /\ now' = now /\ next' = next /\ response' = response
      /\ UNCHANGED trackingVars
  BY DEF Crash
<1>4. \A p \in Partitions : Range(unsent'[p]) = {}
  BY <1>2 DEF Range
<1>5. lost' \cup Enqueued' = lost \cup Enqueued
  <2>1. Enqueued' = failed \cup UNION {Range(topic[p]) : p \in Partitions}
    BY <1>2, <1>4 DEF Enqueued
  <2>2. QED
    BY <1>2, <2>1 DEF Enqueued
<1>6. TypeOK' /\ lost' \subseteq Entries
  <2>1. KafkaTypeOK'
    BY <1>1, <1>2 DEF KafkaTypeOK
  <2>2. RequestTypeOK'
    BY <1>1, <1>3 DEF RequestTypeOK, Stages
  <2>3. lost' \subseteq lost \cup Enqueued
    BY <1>2 DEF Enqueued
  <2>4. QED
    BY <1>1, <1>3, <2>1, <2>2, <2>3, EnqueuedType, TrackingUnchanged DEF ServiceInv, TypeOK
<1>7. ASSUME NEW r \in Requests
      PROVE  (RequestInv(r)' \/ Killed(r)') /\ GivenBy(r)' = Events(r)'
  <2>1. (RequestInv(r) \/ Killed(r)) /\ GivenBy(r) = Events(r)
    BY DEF ServiceInv, HandlersInv, GivenInv
  <2>2. Events(r)' = Events(r) /\ Size(r)' = Size(r)
    BY <1>3 DEF Events, EntryOf, Size
  <2>3. GivenBy(r)' = GivenBy(r)
    BY <1>5 DEF GivenBy
  <2>4. CASE stage[r] \notin {"body", "running"}
    BY <1>3, <2>1, <2>4, Untouched, KilledUntouched, <2>2, <2>3
  <2>5. CASE stage[r] \in {"body", "running"}
    <3>1. RequestInv(r) /\ stage'[r] = "dropped"
      BY <1>3, <2>1, <2>5 DEF Killed
    <3>2. response'[r] = NoResponse
      BY <1>3, <2>5, <3>1 DEF RequestInv
    <3>3. CASE stage[r] = "body"
      BY <1>3, <3>1, <3>2, <3>3, <2>1, <2>2, <2>3 DEF RequestInv
    <3>4. CASE stage[r] = "running"
      BY <1>3, <3>1, <3>2, <3>4, <2>1, <2>2, <2>3 DEF RequestInv, Killed
    <3>5. QED
      BY <2>5, <3>3, <3>4
  <2>6. QED
    BY <2>4, <2>5
<1>8. PlacedInv'
  BY <1>2, <1>4 DEF ServiceInv, PlacedInv
<1>9. QueueInv'
  <2>1. Pending' = {}
    BY <1>2, <1>4 DEF Pending
  <2>2. QED
    BY <2>1, FS_EmptySet, KafkaAssumption DEF QueueInv
<1>10. OrderInv'
  <2>1. ASSUME NEW p \in Partitions PROVE Ordered(topic'[p] \o unsent'[p])
    <3>1. topic[p] \in Seq(Entries) /\ unsent[p] \in Seq(Entries)
      BY <1>1 DEF KafkaTypeOK
    <3>2. Ordered(topic[p] \o <<>>)
      BY <3>1, OrderedPrefix DEF ServiceInv, OrderInv
    <3>3. QED
      BY <1>2, <3>2
  <2>2. QED
    BY <2>1 DEF OrderInv
<1>11. HandlersInv' /\ GivenInv'
  BY <1>7 DEF HandlersInv, GivenInv
<1>12. lost' \subseteq lost \cup Pending
  BY <1>2 DEF Pending
<1>13. QED
  BY <1>3, <1>6, <1>8, <1>9, <1>10, <1>11, <1>12 DEF ServiceInv

-----------------------------------------------------------------------------
(* The clients.                                                            *)

(* A client hears an answer, begins the next try, or gives up on the last. *)
LEMMA ClientStep ==
  ASSUME ClientsInv, TriesInv, NEW c \in Clients,
         Hear(c) \/ Try(c) \/ GiveUpWaiting(c)
  PROVE  ClientsInv' /\ TriesInv' /\ UNCHANGED <<vars, crashes, lost>>
<1>1. /\ sub' = sub /\ stage' = stage /\ response' = response
      /\ UNCHANGED <<vars, crashes, lost>>
  BY DEF Hear, Try, GiveUpWaiting, vars, requestVars
<1>2. MaxTries \in Nat
  BY ClientAssumption
<1>3. CASE Hear(c)
  <2>1. tries' = tries /\ doubts' = doubts /\ heard' = [heard EXCEPT ![c] = TRUE]
    BY <1>3 DEF Hear
  <2>2. ClientsInv'
    BY <1>1, <2>1 DEF ClientsInv
  <2>3. TriesInv'
    BY <1>1, <1>3, <2>1 DEF TriesInv, History, ClientsInv, Hear, LastTry
  <2>4. QED
    BY <1>1, <2>2, <2>3
<1>4. CASE Try(c)
  <2>1. /\ tries[c] \in 0..MaxTries /\ tries[c] < MaxTries
        /\ tries' = [tries EXCEPT ![c] = @ + 1] /\ doubts' = doubts
        /\ heard' = [heard EXCEPT ![c] = FALSE]
    BY <1>4 DEF Try, ClientsInv
  <2>2. ClientsInv'
    <3>1. tries' \in [Clients -> 0..MaxTries] /\ heard' \in [Clients -> BOOLEAN]
      BY <1>2, <2>1 DEF ClientsInv
    <3>2. ASSUME NEW d \in Clients PROVE doubts'[d] \subseteq 1..(tries'[d] - 1)
      <4>1. /\ doubts[d] \subseteq 1..(tries[d] - 1) /\ tries[d] \in 0..MaxTries
            /\ tries'[d] \in {tries[d], tries[d] + 1}
        BY <2>1 DEF ClientsInv
      <4>2. QED
        BY <1>2, <2>1, <4>1
    <3>3. QED
      BY <1>1, <3>1, <3>2 DEF ClientsInv
  <2>3. ASSUME NEW d \in Clients, heard'[d]
        PROVE  tries'[d] > 0 /\ stage'[<<d, tries'[d]>>] = "responded"
    BY <1>1, <2>1, <2>3 DEF ClientsInv, TriesInv, LastTry
  <2>4. ASSUME NEW d \in Clients, NEW n \in 1..MaxTries
        PROVE  History(d, n)'
    <3>1. History(d, n)
      BY DEF TriesInv
    <3>2. CASE d # c
      <4>1. tries'[d] = tries[d]
        BY <2>1, <3>2 DEF ClientsInv
      <4>2. QED
        BY <1>1, <2>1, <3>1, <4>1 DEF History
    <3>3. CASE d = c
      <4>1. tries'[c] = tries[c] + 1
        BY <2>1 DEF ClientsInv
      <4>2. n = tries[c] => /\ stage[<<c, n>>] = "responded"
                            /\ response[<<c, n>>].status \in {408, 500, 503}
        BY <1>4, <2>1 DEF Try, TriesInv, LastTry
      <4>3. (n > tries'[c] => n > tries[c]) /\ (n < tries'[c] => n < tries[c] \/ n = tries[c])
        BY <1>2, <2>1, <4>1
      <4>4. QED
        BY <1>1, <2>1, <3>1, <3>3, <4>2, <4>3 DEF History
    <3>4. QED
      BY <3>2, <3>3
  <2>5. TriesInv'
    BY <1>1, <2>1, <2>3, <2>4 DEF TriesInv, LastTry
  <2>6. QED
    BY <1>1, <2>2, <2>5
<1>5. CASE GiveUpWaiting(c)
  <2>1. /\ tries[c] \in 1..(MaxTries - 1) /\ ~heard[c] /\ heard' = heard
        /\ tries' = [tries EXCEPT ![c] = @ + 1]
        /\ doubts' = [doubts EXCEPT ![c] = @ \cup {tries[c]}]
    BY <1>5 DEF GiveUpWaiting
  <2>2. /\ doubts' \in [Clients -> SUBSET (1..MaxTries)]
        /\ tries' \in [Clients -> 0..MaxTries] /\ heard' \in [Clients -> BOOLEAN]
    BY <1>2, <2>1 DEF ClientsInv, TriesInv
  <2>3. ASSUME NEW d \in Clients, d # c
        PROVE  tries'[d] = tries[d] /\ doubts'[d] = doubts[d]
    BY <2>1, <2>3 DEF ClientsInv, TriesInv
  <2>4. tries'[c] = tries[c] + 1 /\ doubts'[c] = doubts[c] \cup {tries[c]}
    BY <2>1 DEF ClientsInv, TriesInv
  <2>5. ASSUME NEW d \in Clients PROVE doubts'[d] \subseteq 1..(tries'[d] - 1)
    <3>1. doubts[d] \subseteq 1..(tries[d] - 1) /\ tries[d] \in 0..MaxTries
      BY DEF ClientsInv
    <3>2. CASE d # c
      BY <2>3, <3>1, <3>2
    <3>3. CASE d = c
      BY <1>2, <2>1, <2>4, <3>1, <3>3
    <3>4. QED
      BY <3>2, <3>3
  <2>6. ClientsInv'
    BY <1>1, <2>2, <2>5 DEF ClientsInv
  <2>7. ASSUME NEW d \in Clients, heard'[d]
        PROVE  tries'[d] > 0 /\ stage'[<<d, tries'[d]>>] = "responded"
    BY <1>1, <2>1, <2>3, <2>7 DEF TriesInv, LastTry
  <2>8. ASSUME NEW d \in Clients, NEW n \in 1..MaxTries
        PROVE  History(d, n)'
    <3>1. History(d, n)
      BY DEF TriesInv
    <3>2. CASE d # c
      BY <1>1, <2>3, <3>1, <3>2 DEF History
    <3>3. CASE d = c
      <4>1. (n > tries'[c] => n > tries[c]) /\ (n < tries'[c] => n < tries[c] \/ n = tries[c])
        BY <1>2, <2>1, <2>4
      <4>2. n = tries[c] => n \in doubts'[c]
        BY <2>4
      <4>3. doubts[c] \subseteq doubts'[c]
        BY <2>4
      <4>4. QED
        BY <1>1, <3>1, <3>3, <4>1, <4>2, <4>3 DEF History
    <3>4. QED
      BY <3>2, <3>3
  <2>9. TriesInv'
    BY <1>1, <2>2, <2>7, <2>8 DEF TriesInv, LastTry
  <2>10. QED
    BY <1>1, <2>6, <2>9
<1>6. QED
  BY <1>3, <1>4, <1>5

(* What the service does to the requests that have begun: it ends them once,
   and starts none that no client has sent. *)
LEMMA TriesServed ==
  ASSUME ClientsInv, TriesInv, UNCHANGED <<tries, heard, doubts>>, sub' = sub,
         \A r \in Requests : stage[r] = "responded" =>
           stage'[r] = "responded" /\ response'[r] = response[r],
         \A r \in Requests : stage[r] = "idle" /\ r[2] > tries[r[1]] => stage'[r] = "idle"
  PROVE  TriesInv'
<1>1. \A c \in Clients, n \in 1..MaxTries :
        /\ <<c, n>> \in Requests
        /\ <<c, n>>[1] = c /\ <<c, n>>[2] = n
  BY RequestsAreTries
<1>2. ASSUME NEW c \in Clients, heard[c]
      PROVE  tries[c] > 0 /\ stage'[<<c, tries[c]>>] = "responded"
  <2>1. /\ tries[c] > 0 /\ tries[c] \in 0..MaxTries /\ MaxTries \in Nat
        /\ stage[<<c, tries[c]>>] = "responded"
    BY <1>2, ClientAssumption DEF TriesInv, ClientsInv, LastTry
  <2>2. <<c, tries[c]>> \in Requests
    BY <1>1, <2>1
  <2>3. QED
    BY <2>1, <2>2
<1>3. ASSUME NEW c \in Clients, NEW n \in 1..MaxTries
      PROVE  History(c, n)'
  <2>1. History(c, n)
    BY DEF TriesInv
  <2>2. stage[<<c, n>>] = "responded" =>
          stage'[<<c, n>>] = "responded" /\ response'[<<c, n>>] = response[<<c, n>>]
    BY <1>1
  <2>3. stage[<<c, n>>] = "idle" /\ n > tries[c] => stage'[<<c, n>>] = "idle"
    BY <1>1
  <2>4. QED
    BY <2>1, <2>2, <2>3 DEF History
<1>4. QED
  BY <1>2, <1>3 DEF TriesInv, LastTry

-----------------------------------------------------------------------------
(* The invariant.                                                          *)

(* A step of a request. *)
LEMMA RetryHandler ==
  ASSUME RInv, NEW q \in Requests, Step(q), UNCHANGED clientVars
  PROVE  RInv'
<1>1. /\ Arrival(q) \/ AwaitBody(q) \/ Running(q)
      /\ UNCHANGED <<tries, heard, doubts>> /\ lost' = lost /\ crashes' = crashes
  BY DEF Step, clientVars
<1>2. ServiceInv' /\ Spares(q) /\ stage[q] \in {"idle", "body", "running"}
  BY <1>1, ServiceHandler DEF RInv
<1>3. stage[q] = "idle" => q[2] <= tries[q[1]]
  BY DEF Step, AwaitBody, Timeout, Disconnect, BodyRejected, Refuse, HandlerPanic,
         Accept, Running, Enqueue, EnqueueQueueFull, EnqueueBackend, Finish
<1>4. q[2] \in Nat /\ tries[q[1]] \in Nat
  BY RequestsAreTries, ClientAssumption DEF RInv, ClientsInv
<1>5. \A r \in Requests : stage[r] = "responded" =>
        stage'[r] = "responded" /\ response'[r] = response[r]
  BY <1>2 DEF Spares
<1>6. \A r \in Requests : stage[r] = "idle" /\ r[2] > tries[r[1]] => stage'[r] = "idle"
  BY <1>2, <1>3, <1>4 DEF Spares
<1>7. TriesInv'
  BY <1>1, <1>2, <1>5, <1>6, TriesServed DEF RInv, Spares
<1>8. ClientsInv' /\ LostInv'
  BY <1>1 DEF RInv, ClientsInv, LostInv
<1>9. QED
  BY <1>2, <1>7, <1>8 DEF RInv

(* The death of the process: it costs at most what the queue held. *)
LEMMA RetryCrash ==
  ASSUME RInv, Crash
  PROVE  RInv'
<1>1. /\ ServiceInv' /\ lost' \subseteq lost \cup Pending
      /\ \A r \in Requests : stage[r] = "responded" => stage'[r] = "responded"
      /\ \A r \in Requests : stage[r] = "idle" => stage'[r] = "idle"
  BY ServiceCrash DEF RInv
<1>2. /\ crashes < MaxCrashes /\ crashes' = crashes + 1
      /\ UNCHANGED <<tries, heard, doubts>> /\ sub' = sub /\ response' = response
  BY DEF Crash
<1>3. TriesInv'
  BY <1>1, <1>2, TriesServed DEF RInv
<1>4. ClientsInv'
  BY <1>2, ClientAssumption DEF RInv, ClientsInv
<1>5. LostInv'
  <2>1. /\ IsFiniteSet(lost) /\ Cardinality(lost) <= crashes * QueueCapacity
        /\ IsFiniteSet(Pending) /\ Cardinality(Pending) <= QueueCapacity
    BY DEF RInv, LostInv, ServiceInv, QueueInv
  <2>2. /\ IsFiniteSet(lost \cup Pending)
        /\ Cardinality(lost \cup Pending)
             = Cardinality(lost) + Cardinality(Pending) - Cardinality(lost \cap Pending)
    BY <2>1, FS_Union
  <2>3. IsFiniteSet(lost \cap Pending)
    BY <2>1, FS_Intersection
  <2>4. Cardinality(lost) \in Nat /\ Cardinality(Pending) \in Nat
        /\ Cardinality(lost \cap Pending) \in Nat
    BY <2>1, <2>3, FS_CardinalityType
  <2>5. Cardinality(lost \cup Pending) <= crashes * QueueCapacity + QueueCapacity
    <3>1. crashes * QueueCapacity \in Nat /\ QueueCapacity \in Nat
      BY KafkaAssumption, ClientAssumption DEF RInv, ClientsInv
    <3> DEFINE k == crashes * QueueCapacity
    <3>2. k \in Nat /\ Cardinality(lost) <= k
      BY <2>1, <3>1
    <3> HIDE DEF k
    <3>3. Cardinality(lost \cup Pending) <= k + QueueCapacity
      BY <2>1, <2>2, <2>4, <3>1, <3>2
    <3>4. QED
      BY <3>3 DEF k
  <2>6. IsFiniteSet(lost') /\ Cardinality(lost') <= Cardinality(lost \cup Pending)
    BY <1>1, <2>2, FS_Subset
  <2>7. crashes' * QueueCapacity = crashes * QueueCapacity + QueueCapacity
    BY <1>2, KafkaAssumption, ClientAssumption DEF RInv, ClientsInv
  <2>8. Cardinality(lost') \in Nat /\ Cardinality(lost \cup Pending) \in Nat
        /\ crashes * QueueCapacity \in Nat /\ QueueCapacity \in Nat
    BY <2>2, <2>6, FS_CardinalityType, KafkaAssumption, ClientAssumption
    DEF RInv, ClientsInv
  <2>9. Cardinality(lost') <= crashes' * QueueCapacity
    <3> DEFINE k == crashes * QueueCapacity
    <3>1. k \in Nat /\ crashes' * QueueCapacity = k + QueueCapacity
          /\ Cardinality(lost \cup Pending) <= k + QueueCapacity
      BY <2>5, <2>7, <2>8
    <3> HIDE DEF k
    <3>2. QED
      BY <2>6, <2>8, <3>1
  <2>10. QED
    BY <2>6, <2>9 DEF LostInv
<1>6. QED
  BY <1>1, <1>3, <1>4, <1>5 DEF RInv

(* The client or the library moves, or nothing does. *)
LEMMA RetryRest ==
  ASSUME RInv, \/ \E c \in Clients : Hear(c) \/ Try(c) \/ GiveUpWaiting(c)
               \/ Kafka /\ UNCHANGED clientVars
               \/ UNCHANGED retryVars
  PROVE  RInv'
<1>1. CASE \E c \in Clients : Hear(c) \/ Try(c) \/ GiveUpWaiting(c)
  <2>1. ClientsInv' /\ TriesInv' /\ UNCHANGED <<vars, crashes, lost>>
    BY <1>1, ClientStep DEF RInv
  <2>2. UNCHANGED vars /\ lost' = lost /\ crashes' = crashes
    BY <2>1
  <2>3. ServiceInv'
    BY <2>2, ServiceUnchanged DEF RInv
  <2>4. QED
    BY <2>1, <2>2, <2>3 DEF RInv, LostInv
<1>2. CASE Kafka /\ UNCHANGED clientVars
  <2>1. /\ UNCHANGED <<tries, heard, doubts>> /\ lost' = lost /\ crashes' = crashes
        /\ sub' = sub /\ stage' = stage /\ response' = response
    BY <1>2 DEF clientVars, Kafka, requestVars
  <2>2. ServiceInv'
    BY <1>2, <2>1, ServiceKafka DEF RInv
  <2>3. TriesInv'
    BY <2>1 DEF RInv, TriesInv, LastTry, History
  <2>4. QED
    BY <2>1, <2>2, <2>3 DEF RInv, LostInv, ClientsInv
<1>3. CASE UNCHANGED retryVars
  <2>1. /\ UNCHANGED <<tries, heard, doubts>> /\ lost' = lost /\ crashes' = crashes
        /\ UNCHANGED vars /\ sub' = sub /\ stage' = stage /\ response' = response
    BY <1>3 DEF retryVars, clientVars, vars, requestVars
  <2>2. ServiceInv'
    BY <2>1, ServiceUnchanged DEF RInv
  <2>3. TriesInv'
    BY <2>1 DEF RInv, TriesInv, LastTry, History
  <2>4. QED
    BY <2>1, <2>2, <2>3 DEF RInv, LostInv, ClientsInv
<1>4. QED
  BY <1>1, <1>2, <1>3

(* Every step of clients and service preserves the invariant. *)
LEMMA RetryStep == RInv /\ [RetryNext]_retryVars => RInv'
BY RetryHandler, RetryCrash, RetryRest DEF RetryNext, Serve, Rest

(* It holds when nobody has asked for anything. *)
LEMMA RetryStart == RetryInit => RInv
<1> SUFFICES ASSUME RetryInit PROVE RInv
  OBVIOUS
<1>1. Inv /\ OrderInv
  BY InitInv, OrderInit DEF RetryInit, Init
<1>2. /\ tries = [c \in Clients |-> 0] /\ heard = [c \in Clients |-> FALSE]
      /\ doubts = [c \in Clients |-> {}] /\ crashes = 0 /\ lost = {}
      /\ \A c \in Clients, n \in 1..MaxTries : sub[<<c, n>>] = sub[<<c, 1>>]
      /\ \A r \in Requests : stage[r] = "idle" /\ next[r] = 0
  BY DEF RetryInit, Init, RequestInit
<1>3. ClientsInv
  BY <1>2, ClientAssumption DEF ClientsInv
<1>4. TriesInv
  BY <1>2, RequestsAreTries DEF TriesInv, History
<1>5. HandlersInv /\ TypeOK
  BY <1>1 DEF Inv, ProgressIsPublished, HandlersInv
<1>6. GivenInv
  <2>1. ASSUME NEW r \in Requests PROVE GivenBy(r) = Events(r)
    <3>1. EnqueuedBy(r) = Events(r)
      BY <1>1, PublishedEvents DEF Inv, ProgressIsPublished
    <3>2. QED
      BY <1>2, <3>1 DEF GivenBy, EnqueuedBy
  <2>2. QED
    BY <2>1 DEF GivenInv
<1>7. /\ unsent = [p \in Partitions |-> <<>>] /\ topic = [p \in Partitions |-> <<>>]
      /\ unacked = {}
  BY DEF RetryInit, Init, KafkaInit
<1>8. \A p \in Partitions : Range(unsent[p]) = {} /\ Range(topic[p]) = {}
  BY <1>7 DEF Range
<1>9. PlacedInv
  BY <1>8 DEF PlacedInv
<1>10. Pending = {}
  BY <1>7, <1>8 DEF Pending
<1>11. QueueInv
  BY <1>10, FS_EmptySet, KafkaAssumption DEF QueueInv
<1>12. LostInv
  BY <1>2, FS_EmptySet, KafkaAssumption DEF LostInv
<1>13. QED
  BY <1>1, <1>2, <1>3, <1>4, <1>5, <1>6, <1>9, <1>11, <1>12 DEF RInv, ServiceInv

(* The state space of clients, service and producer: tries and doubts keep
   their bounds, and only entries are ever lost. *)
THEOREM RetryTypes == RetrySpec => []RetryTypeOK
<1>1. RInv => RetryTypeOK
  BY DEF RInv, ClientsInv, ServiceInv, RetryTypeOK
<1>2. QED
  BY <1>1, RetryStart, RetryStep, PTL DEF RetrySpec

-----------------------------------------------------------------------------
(* What Kafka was given.                                                   *)

(* A request that has handed anything over was accepted and stamped. *)
LEMMA GivenMeansAccepted ==
  ASSUME ServiceInv, NEW r \in Requests, next[r] # 0
  PROVE  /\ Refusals(sub[r]) = {} /\ now[r] \in Instants
         /\ next[r] \in Nat /\ Size(r) \in Nat /\ next[r] <= Size(r)
<1>1. /\ RequestInv(r) \/ Killed(r)
      /\ stage[r] \in Stages /\ next[r] \in Nat /\ sub[r] \in Submissions
  BY DEF ServiceInv, TypeOK, RequestTypeOK, HandlersInv
<1>2. Size(r) \in Nat
  BY <1>1, ElementsType DEF Size
<1>3. QED
  BY <1>1, <1>2 DEF RequestInv, Killed, Fits, Stages

(* Everything Kafka was given is an event of a try, in the words of the client. *)
LEMMA GivenEntry ==
  ASSUME RInv, NEW e \in Enqueued \cup lost
  PROVE  /\ e.req \in Requests /\ e.req[1] \in Clients /\ e.req[2] \in 1..MaxTries
         /\ e.req = <<e.req[1], e.req[2]>>
         /\ e.index \in 1..next[e.req] /\ e = EntryOf(e.req, e.index)
         /\ Refusals(sub[e.req]) = {} /\ now[e.req] \in Instants
         /\ next[e.req] \in Nat /\ Size(e.req) \in Nat /\ next[e.req] <= Size(e.req)
         /\ sub[e.req] = sub[<<e.req[1], 1>>]
         /\ sub[e.req] \in Submissions
<1>1. ServiceInv /\ TypeOK /\ RequestTypeOK /\ KafkaTypeOK /\ TriesInv
  BY DEF RInv, ServiceInv, TypeOK
<1>2. e \in Entries
  BY <1>1, EnqueuedType DEF ServiceInv
<1>3. e.req \in Requests
  BY <1>2 DEF Entries
<1> DEFINE r == e.req
<1>4. e \in GivenBy(r)
  BY DEF GivenBy
<1> HIDE DEF r
<1>5. r \in Requests /\ r[1] \in Clients /\ r[2] \in 1..MaxTries /\ r = <<r[1], r[2]>>
  BY <1>3, RequestsAreTries DEF r
<1>6. e \in Events(r)
  BY <1>1, <1>4, <1>5 DEF ServiceInv, GivenInv
<1>7. PICK i \in 1..next[r] : e = EntryOf(r, i)
  BY <1>6 DEF Events
<1>8. e.index = i
  BY <1>7 DEF EntryOf
<1>9. next[r] \in Nat /\ next[r] # 0 /\ sub[r] \in Submissions
  BY <1>1, <1>5, <1>7 DEF RequestTypeOK
<1>10. /\ Refusals(sub[r]) = {} /\ now[r] \in Instants
       /\ Size(r) \in Nat /\ next[r] <= Size(r)
  BY <1>1, <1>5, <1>9, GivenMeansAccepted
<1>11. sub[r] = sub[<<r[1], 1>>]
  BY <1>1, <1>5 DEF TriesInv
<1>12. QED
  BY <1>5, <1>7, <1>8, <1>9, <1>10, <1>11 DEF r

(* What the copies of an event have from the event, and from their try. *)
LEMMA CopyOfAnEvent ==
  ASSUME RInv, NEW e \in Enqueued \cup lost
  PROVE  LET event == sub[<<e.req[1], 1>>].events[e.index] IN
         /\ Carries(e, event)
         /\ event["time"] # Null =>
              e.message.payload.time = UnixSeconds(UtcInstant(event["time"]))
         /\ DOMAIN e.message.payload
              = {"id", "type", "source", "subject", "data", "time"}
<1> DEFINE r == e.req
           i == e.index
           x == Elements(sub[r])[i]
<1>1. /\ r \in Requests /\ i \in 1..next[r] /\ e = EntryOf(r, i)
      /\ Refusals(sub[r]) = {} /\ now[r] \in Instants
      /\ next[r] \in Nat /\ Size(r) \in Nat /\ next[r] <= Size(r)
      /\ sub[r] = sub[<<r[1], 1>>] /\ sub[r] \in Submissions
  BY GivenEntry
<1>2. i \in 1..Size(r)
  BY <1>1
<1> HIDE DEF r, i
<1>3. Carries(e, sub[r].events[i])
  BY <1>1, <1>2, PublishedEntry DEF RInv, ServiceInv, TypeOK
<1>4. /\ Elements(sub[r]) = sub[r].events
      /\ \A k \in DOMAIN Elements(sub[r]) : Violations(Elements(sub[r])[k]) = {}
  BY <1>1, NotRefused
<1>5. Elements(sub[r]) \in Seq(JsonObjects \cup {NotObject})
  BY <1>1, ElementsType
<1>6. x \in JsonObjects \cup {NotObject} /\ Violations(x) = {} /\ now[r] \in Int
  <2> DEFINE Values == JsonObjects \cup {NotObject}
  <2>1. Elements(sub[r]) \in Seq(Values)
    BY <1>5
  <2> HIDE DEF Values
  <2>2. i \in DOMAIN Elements(sub[r])
    BY <1>2, <2>1 DEF Size
  <2>3. x \in Values
    BY <2>1, <2>2
  <2>4. QED
    BY <1>1, <1>4, <2>2, <2>3, IngestAssumption DEF Values
<1>7. e.message = SerializeFlattened(Stamp(SheepOf(x), now[r]))
  BY <1>1 DEF EntryOf
<1>8. x = sub[r].events[i]
  BY <1>4
<1> HIDE DEF x
<1>9. x["time"] # Null => e.message.payload.time = UnixSeconds(UtcInstant(x["time"]))
  BY <1>6, <1>7, TimesOfAMessage
<1>10. DOMAIN e.message.payload = {"id", "type", "source", "subject", "data", "time"}
  BY <1>7 DEF SerializeFlattened
<1>11. QED
  BY <1>1, <1>3, <1>8, <1>9, <1>10 DEF r, i

(* CopiesAreInterchangeable: the copies of an event meet in one partition and
   differ in nothing but their receipt times. *)
THEOREM CopiesAgree == RetrySpec => []CopiesAreInterchangeable
<1>1. RInv => CopiesAreInterchangeable
  <2> SUFFICES ASSUME RInv, NEW e1 \in Enqueued \cup lost, NEW e2 \in Enqueued \cup lost,
                      e1.req[1] = e2.req[1], e1.index = e2.index
               PROVE  /\ PartitionOf[e1.message.key] = PartitionOf[e2.message.key]
                      /\ \A k \in DOMAIN e1.message.payload \ {"time"} :
                           e1.message.payload[k] = e2.message.payload[k]
                      /\ \/ e1.message.payload.time = e2.message.payload.time
                         \/ sub[e1.req].events[e1.index]["time"] = Null
    BY DEF CopiesAreInterchangeable
  <2> DEFINE event == sub[<<e1.req[1], 1>>].events[e1.index]
  <2>1. /\ Carries(e1, event)
        /\ event["time"] # Null =>
             e1.message.payload.time = UnixSeconds(UtcInstant(event["time"]))
        /\ DOMAIN e1.message.payload
             = {"id", "type", "source", "subject", "data", "time"}
    BY CopyOfAnEvent
  <2>2. /\ Carries(e2, event)
        /\ event["time"] # Null =>
             e2.message.payload.time = UnixSeconds(UtcInstant(event["time"]))
    BY CopyOfAnEvent
  <2>3. event = sub[e1.req].events[e1.index]
    BY GivenEntry
  <2> HIDE DEF event
  <2>4. \A k \in {"id", "type", "source", "subject", "data"} :
          e1.message.payload[k] = e2.message.payload[k]
    BY <2>1, <2>2 DEF Carries
  <2>5. e1.message.key = e2.message.key
    BY <2>1, <2>2 DEF Carries
  <2>6. QED
    BY <2>1, <2>2, <2>3, <2>4, <2>5
<1>2. QED
  BY <1>1, RetryStart, RetryStep, PTL DEF RetrySpec

(* CrashesLoseOnlyTheQueue: each event of a 202 the client has heard is in the
   topic, in the queue, reported as failed, or was in the queue of a process
   that died; and a death costs at most one queue. *)
THEOREM CrashesAreBounded == RetrySpec => []CrashesLoseOnlyTheQueue
<1>1. RInv => CrashesLoseOnlyTheQueue
  <2> SUFFICES ASSUME RInv, NEW c \in Clients, heard[c],
                      response[LastTry(c)].status = 202,
                      NEW i \in 1..Size(LastTry(c))
               PROVE  \E e \in InTopic \cup Pending \cup failed \cup lost :
                        e.req = LastTry(c) /\ e.index = i
    BY DEF CrashesLoseOnlyTheQueue, RInv, LostInv
  <2> DEFINE r == LastTry(c)
  <2>1. tries[c] \in 0..MaxTries /\ tries[c] > 0 /\ stage[r] = "responded"
    BY DEF RInv, ClientsInv, TriesInv
  <2>2. r \in Requests
    BY <2>1, RequestsAreTries, ClientAssumption DEF LastTry
  <2> HIDE DEF r
  <2>3. Fits(r, response[r]) /\ response[r].status = 202
    <3>1. RequestInv(r)
      BY <2>1, <2>2 DEF RInv, ServiceInv, HandlersInv, Killed
    <3>2. QED
      BY <2>1, <3>1 DEF RequestInv, r
  <2>4. next[r] = Size(r)
    BY <2>3 DEF Fits
  <2>5. EntryOf(r, i) \in GivenBy(r)
    BY <2>2, <2>4 DEF RInv, ServiceInv, GivenInv, Events, r
  <2>6. EntryOf(r, i).req = r /\ EntryOf(r, i).index = i
    BY DEF EntryOf
  <2>7. Enqueued \subseteq InTopic \cup Pending \cup failed
    BY DEF Enqueued, InTopic, Pending
  <2>8. QED
    BY <2>5, <2>6, <2>7 DEF GivenBy, r
<1>2. QED
  BY <1>1, RetryStart, RetryStep, PTL DEF RetrySpec

(* Nothing is published out of the order of its batch: an earlier event that
   is in the same partition is nearer to its consumers. *)
LEMMA EarlierIsNearer ==
  ASSUME RInv, NEW p \in Partitions, NEW j \in DOMAIN topic[p],
         NEW x \in Range(topic[p]) \cup Range(unsent[p]),
         x.req = topic[p][j].req, x.index < topic[p][j].index,
         x.index \in Nat, topic[p][j].index \in Nat
  PROVE  \E k \in 1..(j - 1) : topic[p][k] = x
<1> DEFINE s == topic[p]
           u == unsent[p]
<1>1. s \in Seq(Entries) /\ u \in Seq(Entries)
  BY DEF RInv, ServiceInv, TypeOK, KafkaTypeOK
<1>2. Ordered(s \o u)
  BY DEF RInv, ServiceInv, OrderInv
<1>3. j \in DOMAIN s /\ x \in Range(s) \cup Range(u)
  OBVIOUS
<1>4. /\ x.req = s[j].req /\ x.index < s[j].index
       /\ x.index \in Nat /\ s[j].index \in Nat
  OBVIOUS
<1> HIDE DEF s, u
<1>5. /\ DOMAIN (s \o u) = 1..(Len(s) + Len(u))
      /\ \A k \in 1..(Len(s) + Len(u)) :
           (s \o u)[k] = IF k <= Len(s) THEN s[k] ELSE u[k - Len(s)]
  BY <1>1, ConcatElements
<1>6. /\ DOMAIN s = 1..Len(s) /\ Len(s) \in Nat
      /\ DOMAIN u = 1..Len(u) /\ Len(u) \in Nat
  BY <1>1
<1>7. PICK k \in 1..(Len(s) + Len(u)) : (s \o u)[k] = x
  <2>1. CASE x \in Range(s)
    <3>1. PICK k \in 1..Len(s) : s[k] = x
      BY <2>1, <1>6 DEF Range
    <3>2. k \in 1..(Len(s) + Len(u)) /\ k <= Len(s)
      BY <1>6
    <3>3. QED
      BY <1>5, <3>1, <3>2
  <2>2. CASE x \in Range(u)
    <3>1. PICK k \in 1..Len(u) : u[k] = x
      BY <2>2, <1>6 DEF Range
    <3>2. /\ Len(s) + k \in 1..(Len(s) + Len(u))
          /\ ~(Len(s) + k <= Len(s)) /\ (Len(s) + k) - Len(s) = k
      BY <1>6
    <3>3. QED
      BY <1>5, <3>1, <3>2
  <2>3. QED
    BY <1>3, <2>1, <2>2
<1>8. j \in 1..(Len(s) + Len(u)) /\ j <= Len(s) /\ (s \o u)[j] = s[j]
  BY <1>5, <1>6, <1>3
<1> DEFINE log == s \o u
           e == s[j]
<1>9. /\ x.req = e.req /\ x.index < e.index /\ x.index \in Nat /\ e.index \in Nat
      /\ log[k] = x /\ log[j] = e /\ k \in DOMAIN log /\ j \in DOMAIN log
  BY <1>5, <1>7, <1>8, <1>4
<1>10. k # j
  BY <1>9
<1>11. ~(j < k)
  <2> SUFFICES ASSUME j < k PROVE FALSE
    OBVIOUS
  <2>1. log[j].index < log[k].index
    BY <1>2, <1>9 DEF Ordered
  <2> HIDE DEF log, e
  <2>2. QED
    BY <1>9, <2>1
<1>12. k \in 1..(j - 1) /\ k <= Len(s)
  BY <1>6, <1>7, <1>8, <1>10, <1>11
<1>13. s[k] = x
  BY <1>5, <1>7, <1>12
<1>14. QED
  BY <1>12, <1>13 DEF s

(* FirstCopiesKeepOrder: unless a message of the client failed or was lost, no
   consumer of a partition sees an event of it before the earlier ones. *)
THEOREM OrderSurvivesRetries == RetrySpec => []FirstCopiesKeepOrder
<1>1. RInv => FirstCopiesKeepOrder
  <2> SUFFICES ASSUME RInv, NEW c \in Clients, \A e \in failed \cup lost : e.req[1] # c,
                      NEW p \in Partitions, NEW j \in DOMAIN topic[p],
                      topic[p][j].req[1] = c,
                      NEW i \in 1..(topic[p][j].index - 1),
                      PartitionOf[sub[<<c, 1>>].events[i]["subject"]] = p
               PROVE  \E k \in 1..(j - 1) :
                        topic[p][k].req[1] = c /\ topic[p][k].index = i
    BY DEF FirstCopiesKeepOrder
  <2> DEFINE e == topic[p][j]
             r == e.req
             x == EntryOf(r, i)
  <2>1. topic[p] \in Seq(Entries)
    BY DEF RInv, ServiceInv, TypeOK, KafkaTypeOK
  <2>2. e \in Enqueued
    BY <2>1 DEF Enqueued, Range
  <2>3. /\ r \in Requests /\ r[1] = c /\ e.index \in 1..next[r]
        /\ next[r] \in Nat /\ Size(r) \in Nat /\ next[r] <= Size(r)
        /\ Refusals(sub[r]) = {} /\ now[r] \in Instants /\ sub[r] = sub[<<c, 1>>]
    BY <2>2, GivenEntry
  <2>4. i \in 1..Size(r) /\ i \in 1..next[r] /\ i < e.index /\ i \in Nat /\ e.index \in Nat
    BY <2>3
  <2> HIDE DEF e, r
  <2>5. /\ x.req = r /\ x.index = i
        /\ Carries(x, sub[r].events[i])
    BY <2>3, <2>4, PublishedEntry DEF RInv, ServiceInv, TypeOK
  <2>6. x \in GivenBy(r)
    BY <2>3, <2>4 DEF RInv, ServiceInv, GivenInv, Events
  <2> HIDE DEF x
  <2>7. x \in Enqueued /\ x \notin failed
    BY <2>3, <2>5, <2>6 DEF GivenBy
  <2>8. PICK q \in Partitions : x \in Range(topic[q]) \cup Range(unsent[q])
    BY <2>7 DEF Enqueued
  <2>9. PartitionOf[x.message.key] = q
    BY <2>8 DEF RInv, ServiceInv, PlacedInv
  <2>10. x.message.key = sub[<<c, 1>>].events[i]["subject"]
    BY <2>3, <2>5 DEF Carries
  <2>11. q = p
    BY <2>9, <2>10
  <2>12. \E k \in 1..(j - 1) : topic[p][k] = x
    <3>1. x \in Range(topic[p]) \cup Range(unsent[p])
      BY <2>8, <2>11
    <3>2. /\ x.req = topic[p][j].req /\ x.index < topic[p][j].index
          /\ x.index \in Nat /\ topic[p][j].index \in Nat
      BY <2>4, <2>5 DEF e, r
    <3>3. QED
      BY <3>1, <3>2, EarlierIsNearer
  <2>13. QED
    BY <2>3, <2>5, <2>12
<1>2. QED
  BY <1>1, RetryStart, RetryStep, PTL DEF RetrySpec

(* TopicKeepsBatchOrder: the events of one request are consumed in the order
   of the batch and none of them twice, whatever process published them. *)
THEOREM OrderSurvivesDeaths == RetrySpec => []TopicKeepsBatchOrder
<1>1. RInv => TopicKeepsBatchOrder
  BY DEF RInv, ServiceInv, OrderInv, Ordered, TopicKeepsBatchOrder
<1>2. QED
  BY <1>1, RetryStart, RetryStep, PTL DEF RetrySpec

-----------------------------------------------------------------------------
(* How many copies there can be.                                           *)

(* A try that left a copy is the last one, or it was given up, or it was cut
   after that event. *)
LEMMA CopyNeedsDoubt ==
  ASSUME RInv, NEW c \in Clients, NEW e \in Enqueued \cup lost, e.req[1] = c
  PROVE  \/ e.req[2] = tries[c]
         \/ e.req[2] \in doubts[c]
         \/ e.req[2] \in CutTries(c) /\ e.index # Size(<<c, 1>>)
<1> DEFINE r == e.req
           n == r[2]
<1>1. /\ r \in Requests /\ n \in 1..MaxTries /\ r = <<c, n>>
      /\ e.index \in 1..next[r] /\ next[r] \in Nat /\ Size(r) \in Nat
      /\ sub[r] = sub[<<c, 1>>]
  BY GivenEntry
<1> HIDE DEF r, n
<1>2. History(c, n) /\ n \in Int /\ tries[c] \in Int
  BY <1>1, ClientAssumption DEF RInv, TriesInv, ClientsInv
<1>3. RequestInv(r) \/ Killed(r)
  BY <1>1 DEF RInv, ServiceInv, HandlersInv
<1>4. next[r] # 0
  BY <1>1
<1>5. stage[r] # "idle"
  BY <1>3, <1>4 DEF RequestInv, Killed
<1>6. ~(n > tries[c])
  BY <1>1, <1>2, <1>5 DEF History
<1>7. CASE n < tries[c] /\ n \notin doubts[c]
  <2>1. stage[r] = "responded" /\ response[r].status \in {408, 500, 503}
    BY <1>1, <1>2, <1>7 DEF History
  <2>2. Fits(r, response[r])
    BY <1>3, <2>1 DEF RequestInv, Killed
  <2>3. response[r].status \in {500, 503} /\ response[r].envelope /\ next[r] < Size(r)
    BY <1>4, <2>1, <2>2 DEF Fits
  <2>4. n \in CutTries(c)
    BY <1>1, <2>3 DEF CutTries
  <2>5. Size(<<c, 1>>) = Size(r)
    BY <1>1 DEF Size
  <2>6. e.index # Size(<<c, 1>>)
    BY <1>1, <2>3, <2>5
  <2>7. QED
    BY <2>4, <2>6 DEF r, n
<1>8. QED
  BY <1>2, <1>6, <1>7 DEF r, n

(* CopiesNeedDoubt: beyond its first copy, an event has at most one for each
   try the client gave up on and each try that was cut after it. *)
THEOREM CopiesAreBounded == RetrySpec => []CopiesNeedDoubt
<1>1. RInv => CopiesNeedDoubt
  <2> SUFFICES ASSUME RInv, NEW c \in Clients, NEW i \in 1..Size(<<c, 1>>)
               PROVE  Cardinality(Copies(c, i)) <=
                        1 + Cardinality(doubts[c] \cup
                              (IF i = Size(<<c, 1>>) THEN {} ELSE CutTries(c)))
    BY DEF CopiesNeedDoubt
  <2> DEFINE T == doubts[c] \cup (IF i = Size(<<c, 1>>) THEN {} ELSE CutTries(c))
             U == T \cup {tries[c]}
             f == [e \in Copies(c, i) |-> e.req[2]]
  <2>1. IsFiniteSet(T)
    <3>1. T \in SUBSET (1..MaxTries)
      BY DEF RInv, TriesInv, CutTries
    <3>2. MaxTries \in Int /\ 1 \in Int
      BY ClientAssumption
    <3> HIDE DEF T
    <3>3. IsFiniteSet(1..MaxTries)
      BY <3>2, FS_Interval
    <3>4. QED
      BY <3>1, <3>3, FS_Subset
  <2>2. \A e \in Copies(c, i) : e.req[2] \in U
    BY CopyNeedsDoubt DEF Copies
  <2>3. ASSUME NEW e1 \in Copies(c, i), NEW e2 \in Copies(c, i), e1.req[2] = e2.req[2]
        PROVE  e1 = e2
    <3>1. /\ e1.req = <<e1.req[1], e1.req[2]>> /\ e1 = EntryOf(e1.req, e1.index)
          /\ e2.req = <<e2.req[1], e2.req[2]>> /\ e2 = EntryOf(e2.req, e2.index)
      BY GivenEntry DEF Copies
    <3>2. e1.req[1] = c /\ e2.req[1] = c /\ e1.index = i /\ e2.index = i
      BY DEF Copies
    <3>3. e1.req = e2.req /\ e1.index = e2.index
      BY <2>3, <3>1, <3>2
    <3>4. QED
      BY <3>1, <3>3
  <2> HIDE DEF T
  <2>4. f \in Injection(Copies(c, i), U)
    BY <2>2, <2>3 DEF Injection, IsInjective
  <2> HIDE DEF f
  <2>5. /\ IsFiniteSet(U)
        /\ Cardinality(U) = IF tries[c] \in T THEN Cardinality(T) ELSE Cardinality(T) + 1
    BY <2>1, FS_AddElement
  <2> HIDE DEF U
  <2>6. IsFiniteSet(Copies(c, i)) /\ Cardinality(Copies(c, i)) <= Cardinality(U)
    BY <2>4, <2>5, FS_Injection
  <2>7. /\ Cardinality(Copies(c, i)) \in Nat /\ Cardinality(U) \in Nat
        /\ Cardinality(T) \in Nat
    BY <2>1, <2>5, <2>6, FS_CardinalityType
  <2>8. Cardinality(Copies(c, i)) <= 1 + Cardinality(T)
    BY <2>5, <2>6, <2>7
  <2>9. QED
    BY <2>8 DEF T
<1>2. QED
  BY <1>1, RetryStart, RetryStep, PTL DEF RetrySpec

=============================================================================
