---------------------------- MODULE IngestProofs ----------------------------
(***************************************************************************)
(* Proofs about Ingest, for any number of requests, submissions, events    *)
(* per batch, worker threads, partitions and any queue capacity.           *)
(*                                                                         *)
(* First what one step of one request does, whatever producer is behind    *)
(* it; from it the inductive invariant, that what Kafka was given for a    *)
(* request is its events up to the handler's counter; then what becomes of *)
(* what was published (no loss unnoticed, the order within a partition),   *)
(* and what events, errors and reports say.                                *)
(***************************************************************************)
EXTENDS Ingest, SheepProofs

-----------------------------------------------------------------------------
(* Sequences as queues.                                                    *)

(* What appending to a queue does to the set of its elements. *)
LEMMA RangeAppend ==
  ASSUME NEW S, NEW s \in Seq(S), NEW x \in S
  PROVE  /\ Append(s, x) \in Seq(S)
         /\ Range(Append(s, x)) = Range(s) \cup {x}
<1>1. Append(s, x) \in Seq(S)
  OBVIOUS
<1>2. DOMAIN Append(s, x) = 1..(Len(s) + 1) /\ DOMAIN s = 1..Len(s)
  OBVIOUS
<1>3. /\ \A i \in 1..Len(s) : Append(s, x)[i] = s[i]
      /\ Append(s, x)[Len(s) + 1] = x
  OBVIOUS
<1>4. Len(s) \in Nat
  OBVIOUS
<1>5. 1..(Len(s) + 1) = 1..Len(s) \cup {Len(s) + 1}
  BY <1>4
<1>6. ASSUME NEW y
      PROVE  y \in Range(Append(s, x)) <=> y \in Range(s) \cup {x}
  BY <1>2, <1>3, <1>5 DEF Range
<1>7. QED
  BY <1>1, <1>6

(* A queue is its head and its tail. *)
LEMMA RangeTail ==
  ASSUME NEW S, NEW s \in Seq(S), s # <<>>
  PROVE  /\ Head(s) \in S
         /\ Tail(s) \in Seq(S)
         /\ Range(s) = {Head(s)} \cup Range(Tail(s))
<1>1. Head(s) \in S /\ Tail(s) \in Seq(S) /\ Len(s) \in Nat /\ Len(s) > 0
  OBVIOUS
<1>2. DOMAIN s = 1..Len(s) /\ DOMAIN Tail(s) = 1..(Len(s) - 1)
  OBVIOUS
<1>3. Head(s) = s[1] /\ \A i \in 1..(Len(s) - 1) : Tail(s)[i] = s[i + 1]
  OBVIOUS
<1>4. ASSUME NEW i \in 1..Len(s), i # 1
      PROVE  s[i] \in Range(Tail(s))
  <2>1. i - 1 \in 1..(Len(s) - 1)
    BY <1>1, <1>4
  <2>2. s[i] = Tail(s)[i - 1]
    BY <1>3, <2>1
  <2>3. QED
    BY <2>1, <2>2, <1>2 DEF Range
<1>5. Range(s) \subseteq {Head(s)} \cup Range(Tail(s))
  BY <1>2, <1>3, <1>4 DEF Range
<1>6. {Head(s)} \cup Range(Tail(s)) \subseteq Range(s)
  BY <1>1, <1>2, <1>3 DEF Range
<1>7. QED
  BY <1>1, <1>5, <1>6

-----------------------------------------------------------------------------
(* Submissions that are accepted.                                          *)

(* What is validated is a sequence of JSON values. *)
LEMMA ElementsType ==
  ASSUME NEW s \in Submissions
  PROVE  Elements(s) \in Seq(JsonObjects \cup {NotObject})
<1>1. s.events \in Seq(JsonObjects \cup {NotObject})
  BY IngestAssumption
<1>2. <<NotObject>> \in Seq(JsonObjects \cup {NotObject})
  OBVIOUS
<1>3. QED
  BY <1>1, <1>2 DEF Elements

(* A submission that is not refused has at least one event and no more than
   the cap, all valid, and they are the ones it carries. *)
LEMMA NotRefused ==
  ASSUME NEW s \in Submissions, Refusals(s) = {}
  PROVE  /\ \A i \in DOMAIN Elements(s) : Violations(Elements(s)[i]) = {}
         /\ Elements(s) = s.events
         /\ Len(Elements(s)) \in Nat \ {0}
         /\ Len(Elements(s)) <= MaxBatchEvents
<1>1. /\ ~UnsupportedMediaType(s)
      /\ ~BadRequest(s)
      /\ ValidationItems(s) = {}
  BY DEF Refusals
<1>2. ASSUME NEW i \in DOMAIN Elements(s)
      PROVE  Violations(Elements(s)[i]) = {}
  <2>1. {IF s.media = "batch" THEN At(i - 1, fault) ELSE fault :
           fault \in Violations(Elements(s)[i])} = {}
    BY <1>1 DEF ValidationItems
  <2>2. QED
    BY <2>1
<1>3. /\ s.events \in Seq(JsonObjects \cup {NotObject})
      /\ s.parsed \in {"malformed", "array", "value"}
      /\ s.parsed = "value" => Len(s.events) = 1
  BY IngestAssumption
<1>4. ~(s.media = "single" /\ s.parsed = "array")
  <2>1. SUFFICES ASSUME s.media = "single" /\ s.parsed = "array" PROVE FALSE
    OBVIOUS
  <2>2. Elements(s) = <<NotObject>>
    BY <2>1 DEF Elements
  <2>3. Violations(NotObject) = {}
    BY <2>2, <1>2
  <2>4. QED
    BY <2>3 DEF Violations
<1>5. Elements(s) = s.events
  BY <1>4 DEF Elements
<1>6. Len(s.events) \in Nat /\ (s.events # <<>> => Len(s.events) # 0)
  BY <1>3
<1>7. Len(s.events) # 0 /\ Len(s.events) <= MaxBatchEvents
  <2> MaxBatchEvents \in Nat \ {0}
    BY IngestAssumption
  <2>1. CASE s.media = "batch"
    BY <2>1, <1>1, <1>6 DEF BadRequest
  <2>2. CASE s.media = "single"
    <3>1. s.parsed = "value"
      BY <2>2, <1>1, <1>3, <1>4 DEF BadRequest
    <3>2. Len(s.events) = 1
      BY <3>1, <1>3
    <3>3. QED
      BY <3>2
  <2>3. QED
    BY <2>1, <2>2, <1>1 DEF UnsupportedMediaType
<1>8. QED
  BY <1>2, <1>5, <1>6, <1>7

(* What a request that was not refused publishes, event by event. *)
LEMMA PublishedEntry ==
  ASSUME RequestTypeOK, NEW r \in Requests, NEW i \in 1..Size(r),
         Refusals(sub[r]) = {}, now[r] \in Instants
  PROVE  /\ EntryOf(r, i) \in Entries
         /\ EntryOf(r, i).req = r /\ EntryOf(r, i).index = i
         /\ Carries(EntryOf(r, i), sub[r].events[i])
         /\ PartitionOf[EntryOf(r, i).message.key] \in Partitions
<1> DEFINE e == Elements(sub[r])[i]
           m == SerializeFlattened(Stamp(SheepOf(e), now[r]))
<1>1. sub[r] \in Submissions /\ now[r] \in Int
  BY IngestAssumption DEF RequestTypeOK
<1>2. Elements(sub[r]) \in Seq(JsonObjects \cup {NotObject})
  BY <1>1, ElementsType
<1>3. i \in DOMAIN Elements(sub[r]) /\ i \in Nat \ {0}
  BY <1>2 DEF Size
<1>4. e \in JsonObjects \cup {NotObject} /\ Violations(e) = {}
  BY <1>1, <1>2, <1>3, NotRefused
<1>5. /\ m \in Messages
      /\ m.key = e["subject"]
      /\ m.specversion = e["specversion"]
      /\ \A k \in {"id", "type", "source", "subject", "data"} : m.payload[k] = e[k]
  BY <1>1, <1>4, ValidMessage
<1> HIDE DEF m
<1>6. EntryOf(r, i) = [req |-> r, index |-> i, message |-> m]
  BY DEF EntryOf, m
<1>7. EntryOf(r, i) \in Entries
  BY <1>3, <1>5, <1>6 DEF Entries
<1>8. Carries(EntryOf(r, i), sub[r].events[i])
  BY <1>1, <1>5, <1>6, NotRefused DEF Carries
<1>9. PartitionOf[m.key] \in Partitions
  BY <1>5, IngestAssumption DEF Messages
<1>10. QED
  BY <1>6, <1>7, <1>8, <1>9

-----------------------------------------------------------------------------
(* Replies.                                                                *)

(* The responses that no submission decides. *)
LEMMA FixedReplies ==
  /\ \A n \in Nat : Plain(n) \in Responses
  /\ \A v \in Variants \ {"Validation"} :
       /\ IntoResponse(Error(v)) \in Responses
       /\ IntoResponse(Error(v)).status = StatusOf(v)
       /\ IntoResponse(Error(v)).envelope
       /\ IntoResponse(Error(v)).retryAfter <=> v = "ServiceUnavailable"
<1>1. \A n \in Nat : Plain(n) \in Responses
  BY DEF Plain, Responses
<1>2. ASSUME NEW v \in Variants \ {"Validation"}
      PROVE  IntoResponse(Error(v)) =
               [status |-> StatusOf(v), envelope |-> TRUE,
                errors |-> {[detail |-> v]}, retryAfter |-> v = "ServiceUnavailable"]
  BY DEF IntoResponse, Error
<1>3. ASSUME NEW v \in Variants PROVE StatusOf(v) \in Nat
  BY DEF Variants, StatusOf
<1>4. \A v \in Variants : {[detail |-> v]} \subseteq ErrorItems
  BY DEF ErrorItems
<1>5. ASSUME NEW v \in Variants \ {"Validation"}
      PROVE  /\ IntoResponse(Error(v)) \in Responses
             /\ IntoResponse(Error(v)).status = StatusOf(v)
             /\ IntoResponse(Error(v)).envelope
             /\ IntoResponse(Error(v)).retryAfter <=> v = "ServiceUnavailable"
  <2> DEFINE retry == v = "ServiceUnavailable"
  <2>1. retry \in BOOLEAN /\ StatusOf(v) \in Nat /\ {[detail |-> v]} \in SUBSET ErrorItems
    BY <1>3, <1>4
  <2>2. IntoResponse(Error(v)) =
          [status |-> StatusOf(v), envelope |-> TRUE,
           errors |-> {[detail |-> v]}, retryAfter |-> retry]
    BY <1>2
  <2> HIDE DEF retry
  <2>3. IntoResponse(Error(v)) \in Responses
    BY <2>1, <2>2 DEF Responses
  <2>4. /\ IntoResponse(Error(v)).status = StatusOf(v)
        /\ IntoResponse(Error(v)).envelope = TRUE
        /\ IntoResponse(Error(v)).retryAfter = retry
    BY <2>2
  <2>5. QED
    BY <2>3, <2>4 DEF retry
<1>6. QED
  BY <1>1, <1>5

(* A refusal is a client error with an envelope. *)
LEMMA RefusalReplies ==
  ASSUME NEW s \in Submissions, NEW error \in Refusals(s)
  PROVE  /\ IntoResponse(error) \in Responses
         /\ IntoResponse(error).status \in {400, 415}
         /\ ~IntoResponse(error).retryAfter
         /\ ~ExceptionReport(error)
<1>1. \/ error = Error("UnsupportedMediaType")
      \/ error = Error("BadRequest")
      \/ error = ValidationError(ValidationItems(s))
  BY DEF Refusals
<1>2. CASE error = Error("UnsupportedMediaType")
  BY <1>2, FixedReplies DEF Variants, StatusOf, IntoResponse, Error, ExceptionReport
<1>3. CASE error = Error("BadRequest")
  BY <1>3, FixedReplies DEF Variants, StatusOf, IntoResponse, Error, ExceptionReport
<1>4. CASE error = ValidationError(ValidationItems(s))
  <2>1. IntoResponse(error) =
          [status |-> 400, envelope |-> TRUE,
           errors |-> ValidationItems(s), retryAfter |-> FALSE]
    <3>1. error.variant = "Validation" /\ error.items = ValidationItems(s)
      BY <1>4 DEF ValidationError
    <3>2. StatusOf("Validation") = 400
      BY DEF StatusOf
    <3>3. QED
      BY <3>1, <3>2 DEF IntoResponse
  <2>2. ValidationItems(s) \subseteq ErrorItems
    BY DEF ErrorItems
  <2>3. ~ExceptionReport(error)
    BY <1>4 DEF ExceptionReport, ValidationError
  <2>4. IntoResponse(error) \in Responses
    BY <2>1, <2>2 DEF Responses
  <2>5. IntoResponse(error).status = 400 /\ IntoResponse(error).retryAfter = FALSE
    BY <2>1
  <2>6. QED
    BY <2>3, <2>4, <2>5
<1>5. QED
  BY <1>1, <1>2, <1>3, <1>4

-----------------------------------------------------------------------------
(* What each part of a step does to the parts it does not own.             *)

(* Reports keep the types of error tracking. *)
LEMMA ReportType ==
  ASSUME TrackingTypeOK, NEW report \in Reports, ReportException(report)
  PROVE  TrackingTypeOK'
<1>1. UNCHANGED <<sink, client>>
  BY DEF ReportException
<1>2. \/ captured' = Append(captured, report) /\ dropped' = dropped
      \/ dropped' = Append(dropped, report) /\ captured' = captured
      \/ UNCHANGED <<captured, dropped>>
  BY DEF ReportException
<1>3. captured' \in Seq(Reports) /\ dropped' \in Seq(Reports)
  <2>1. captured \in Seq(Reports) /\ dropped \in Seq(Reports)
    BY DEF TrackingTypeOK
  <2>2. Append(captured, report) \in Seq(Reports) /\ Append(dropped, report) \in Seq(Reports)
    BY <2>1, RangeAppend
  <2>3. QED
    BY <1>2, <2>1, <2>2
<1>4. QED
  BY <1>1, <1>3 DEF TrackingTypeOK

(* produce adds exactly the entry to what Kafka was given. *)
LEMMA ProduceStep ==
  ASSUME KafkaTypeOK, NEW entry \in Entries, ProduceOk(entry),
         PartitionOf[entry.message.key] \in Partitions
  PROVE  KafkaTypeOK' /\ Enqueued' = Enqueued \cup {entry}
<1> DEFINE p == PartitionOf[entry.message.key]
<1>1. /\ unsent' = [unsent EXCEPT ![p] = Append(@, entry)]
      /\ observers' = observers \cup {entry}
      /\ UNCHANGED <<topic, unacked, failed, warned>>
  BY DEF ProduceOk
<1>2. unsent[p] \in Seq(Entries)
  BY DEF KafkaTypeOK
<1>3. /\ Append(unsent[p], entry) \in Seq(Entries)
      /\ Range(Append(unsent[p], entry)) = Range(unsent[p]) \cup {entry}
  BY <1>2, RangeAppend
<1>4. KafkaTypeOK'
  BY <1>1, <1>3 DEF KafkaTypeOK
<1>5. \A q \in Partitions :
        Range(unsent'[q]) = IF q = p THEN Range(unsent[q]) \cup {entry}
                            ELSE Range(unsent[q])
  BY <1>1, <1>3 DEF KafkaTypeOK
<1>6. ASSUME NEW x PROVE x \in Enqueued' <=> x \in Enqueued \cup {entry}
  <2>1. x \in Enqueued <=>
          \/ x \in failed
          \/ \E q \in Partitions : x \in Range(unsent[q]) \/ x \in Range(topic[q])
    BY DEF Enqueued
  <2>2. x \in Enqueued' <=>
          \/ x \in failed'
          \/ \E q \in Partitions : x \in Range(unsent'[q]) \/ x \in Range(topic'[q])
    BY DEF Enqueued
  <2>3. failed' = failed /\ topic' = topic /\ p \in Partitions
    BY <1>1
  <2> HIDE DEF p
  <2>4. ASSUME NEW q \in Partitions
        PROVE  x \in Range(unsent'[q]) <=> x \in Range(unsent[q]) \/ (q = p /\ x = entry)
    BY <1>5
  <2>5. QED
    BY <2>1, <2>2, <2>3, <2>4
<1>7. QED
  BY <1>4, <1>6

(* Whatever the library, the broker and the observers do, a message that was
   enqueued stays accounted for: queued, written, or failed. *)
LEMMA KafkaStep ==
  ASSUME KafkaTypeOK, KafkaNext
  PROVE  KafkaTypeOK' /\ Enqueued' = Enqueued
<1>1. ASSUME NEW p \in Partitions, BrokerAppend(p)
      PROVE  KafkaTypeOK' /\ Enqueued' = Enqueued
  <2>1. unsent[p] \in Seq(Entries) /\ unsent[p] # <<>> /\ topic[p] \in Seq(Entries)
    BY <1>1 DEF KafkaTypeOK, BrokerAppend
  <2>2. /\ Head(unsent[p]) \in Entries /\ Tail(unsent[p]) \in Seq(Entries)
        /\ Range(unsent[p]) = {Head(unsent[p])} \cup Range(Tail(unsent[p]))
    BY <2>1, RangeTail
  <2>3. /\ Append(topic[p], Head(unsent[p])) \in Seq(Entries)
        /\ Range(Append(topic[p], Head(unsent[p])))
             = Range(topic[p]) \cup {Head(unsent[p])}
    BY <2>1, <2>2, RangeAppend
  <2>4. \A q \in Partitions :
          Range(topic'[q]) = IF q = p THEN Range(topic[q]) \cup {Head(unsent[p])}
                             ELSE Range(topic[q])
    BY <1>1, <2>3 DEF KafkaTypeOK, BrokerAppend
  <2>5. unacked' \subseteq UNION {Range(topic'[q]) : q \in Partitions}
    <3>1. unacked' = unacked \cup {Head(unsent[p])}
      BY <1>1 DEF BrokerAppend
    <3>2. ASSUME NEW x \in unacked PROVE \E q \in Partitions : x \in Range(topic'[q])
      BY <2>4 DEF KafkaTypeOK
    <3>3. Head(unsent[p]) \in Range(topic'[p])
      BY <2>4
    <3>4. QED
      BY <3>1, <3>2, <3>3
  <2>6. KafkaTypeOK'
    BY <1>1, <2>2, <2>3, <2>5 DEF KafkaTypeOK, BrokerAppend
  <2>7. ASSUME NEW q \in Partitions
        PROVE  Range(unsent'[q]) \cup Range(topic'[q]) = Range(unsent[q]) \cup Range(topic[q])
    BY <1>1, <2>2, <2>3 DEF KafkaTypeOK, BrokerAppend
  <2>8. Enqueued' = Enqueued
    BY <1>1, <2>7 DEF Enqueued, BrokerAppend
  <2>9. QED
    BY <2>6, <2>8
<1>2. ASSUME NEW p \in Partitions, ExpireUnsent(p)
      PROVE  KafkaTypeOK' /\ Enqueued' = Enqueued
  <2>1. unsent[p] \in Seq(Entries) /\ unsent[p] # <<>>
    BY <1>2 DEF KafkaTypeOK, ExpireUnsent
  <2>2. /\ Head(unsent[p]) \in Entries /\ Tail(unsent[p]) \in Seq(Entries)
        /\ Range(unsent[p]) = {Head(unsent[p])} \cup Range(Tail(unsent[p]))
    BY <2>1, RangeTail
  <2>3. KafkaTypeOK'
    BY <1>2, <2>2 DEF KafkaTypeOK, ExpireUnsent
  <2>4. \A q \in Partitions :
          Range(unsent[q]) = IF q = p THEN {Head(unsent[p])} \cup Range(unsent'[q])
                             ELSE Range(unsent'[q])
    BY <1>2, <2>2 DEF KafkaTypeOK, ExpireUnsent
  <2>5. failed' = failed \cup {Head(unsent[p])} /\ topic' = topic
    BY <1>2 DEF ExpireUnsent
  <2>6. ASSUME NEW x PROVE x \in Enqueued' <=> x \in Enqueued
    <3>1. x \in Enqueued <=>
            \/ x \in failed
            \/ \E q \in Partitions : x \in Range(unsent[q]) \/ x \in Range(topic[q])
      BY DEF Enqueued
    <3>2. x \in Enqueued' <=>
            \/ x \in failed'
            \/ \E q \in Partitions : x \in Range(unsent'[q]) \/ x \in Range(topic'[q])
      BY DEF Enqueued
    <3>3. QED
      BY <3>1, <3>2, <2>4, <2>5
  <2>7. QED
    BY <2>3, <2>6
<1>3. ASSUME NEW entry \in unacked, DeliveryReport(entry)
      PROVE  KafkaTypeOK' /\ Enqueued' = Enqueued
  BY <1>3 DEF KafkaTypeOK, Enqueued, DeliveryReport
<1>4. ASSUME NEW entry \in unacked, ExpireUnacked(entry)
      PROVE  KafkaTypeOK' /\ Enqueued' = Enqueued
  <2>1. \E p \in Partitions : entry \in Range(topic[p])
    BY DEF KafkaTypeOK
  <2>2. entry \in Entries /\ entry \in Enqueued
    <3>1. PICK p \in Partitions : entry \in Range(topic[p])
      BY <2>1
    <3>2. topic[p] \in Seq(Entries)
      BY DEF KafkaTypeOK
    <3>3. Range(topic[p]) \subseteq Entries
      BY <3>2 DEF Range
    <3>4. QED
      BY <3>1, <3>3 DEF Enqueued
  <2>3. failed' = failed \cup {entry} /\ unacked' = unacked \ {entry}
        /\ UNCHANGED <<unsent, topic, observers, warned>>
    BY <1>4 DEF ExpireUnacked
  <2>4. KafkaTypeOK'
    BY <2>2, <2>3 DEF KafkaTypeOK
  <2>5. Enqueued' = Enqueued \cup {entry}
    BY <2>3 DEF Enqueued
  <2>6. QED
    BY <2>2, <2>4, <2>5
<1>5. ASSUME NEW entry \in observers, ObserveDelivery(entry)
      PROVE  KafkaTypeOK' /\ Enqueued' = Enqueued
  BY <1>5 DEF KafkaTypeOK, Enqueued, ObserveDelivery
<1>6. QED
  BY <1>1, <1>2, <1>3, <1>4, <1>5 DEF KafkaNext

-----------------------------------------------------------------------------
(* What a step of one request does.  Nothing here is about Kafka's state,  *)
(* so the lemmas serve every specification built from the handler.         *)

(* The requests other than q are left alone. *)
Spares(q) ==
  /\ sub' = sub
  /\ \A r \in Requests \ {q} :
       /\ stage'[r] = stage[r] /\ now'[r] = now[r]
       /\ next'[r] = next[r] /\ response'[r] = response[r]

(* A step of request q keeps the types and what holds of q. *)
Keeps(q) == RequestTypeOK' /\ TrackingTypeOK' /\ RequestInv(q)' /\ Spares(q)

(* The entries a request has handed over, by its counter. *)
Events(r) == {EntryOf(r, i) : i \in 1..next[r]}

(* The counter of q, and the clock of what it has handed over, stay. *)
Holds(q) == next' = next /\ (next[q] = 0 \/ now' = now)

(* The counter of q moves past its next event, which can be published. *)
NextEntry(q) == EntryOf(q, next[q] + 1)

Advances(q) ==
  /\ next' = [next EXCEPT ![q] = @ + 1] /\ now' = now
  /\ NextEntry(q) \in Entries
  /\ NextEntry(q).req = q /\ NextEntry(q).index = next[q] + 1
  /\ PartitionOf[NextEntry(q).message.key] \in Partitions

(* A request whose data a step leaves alone keeps its invariant. *)
LEMMA Untouched ==
  ASSUME NEW q \in Requests, RequestInv(q),
         sub'[q] = sub[q], stage'[q] = stage[q], now'[q] = now[q],
         next'[q] = next[q], response'[q] = response[q]
  PROVE  RequestInv(q)' /\ Events(q)' = Events(q)
<1>1. Size(q)' = Size(q)
  BY DEF Size
<1>2. \A i : EntryOf(q, i)' = EntryOf(q, i)
  BY DEF EntryOf
<1>3. RequestInv(q)'
  BY <1>1 DEF RequestInv, Fits
<1>4. Events(q)' = Events(q)
  BY <1>2 DEF Events
<1>5. QED
  BY <1>3, <1>4

(* What is handed over does not change while the counter holds ... *)
LEMMA EventsHold ==
  ASSUME NEW q \in Requests, Spares(q), Holds(q), NEW r \in Requests
  PROVE  Events(r)' = Events(r)
<1>1. next'[r] = next[r] /\ (next[r] = 0 \/ now'[r] = now[r])
  BY DEF Spares, Holds
<1>2. now'[r] = now[r] => \A i : EntryOf(r, i)' = EntryOf(r, i)
  BY DEF EntryOf, Spares
<1>3. CASE next[r] = 0
  BY <1>1, <1>3 DEF Events
<1>4. CASE now'[r] = now[r]
  BY <1>1, <1>2, <1>4 DEF Events
<1>5. QED
  BY <1>1, <1>3, <1>4

(* ... and grows by the next entry when it advances. *)
LEMMA EventsAdvance ==
  ASSUME next \in [Requests -> Nat], NEW q \in Requests, Spares(q), Advances(q)
  PROVE  /\ Events(q)' = Events(q) \cup {NextEntry(q)}
         /\ \A r \in Requests \ {q} : Events(r)' = Events(r)
<1>1. \A r, i : EntryOf(r, i)' = EntryOf(r, i)
  BY DEF EntryOf, Spares, Advances
<1>2. next'[q] = next[q] + 1 /\ \A r \in Requests \ {q} : next'[r] = next[r]
  BY DEF Advances
<1>3. 1..(next[q] + 1) = 1..next[q] \cup {next[q] + 1}
  OBVIOUS
<1>4. Events(q)' = {EntryOf(q, i) : i \in 1..(next[q] + 1)}
  BY <1>1, <1>2 DEF Events
<1>5. Events(q)' = Events(q) \cup {NextEntry(q)}
  BY <1>3, <1>4 DEF Events, NextEntry
<1>6. \A r \in Requests \ {q} : Events(r)' = Events(r)
  BY <1>1, <1>2 DEF Events
<1>7. QED
  BY <1>5, <1>6

(* A request may be answered with any reply that fits its progress. *)
LEMMA RespondStep ==
  ASSUME RequestTypeOK, NEW q \in Requests, NEW reply \in Responses,
         Fits(q, reply), Respond(q, reply)
  PROVE  /\ RequestTypeOK' /\ RequestInv(q)' /\ Spares(q)
         /\ next' = next /\ now' = now
<1>1. /\ stage' = [stage EXCEPT ![q] = "responded"]
      /\ response' = [response EXCEPT ![q] = reply]
      /\ sub' = sub /\ now' = now /\ next' = next
  BY DEF Respond
<1>2. RequestTypeOK'
  BY <1>1 DEF RequestTypeOK, Stages
<1>3. Spares(q)
  BY <1>1 DEF Spares, RequestTypeOK
<1>4. stage'[q] = "responded" /\ response'[q] = reply
  BY <1>1 DEF RequestTypeOK
<1>5. Size(q)' = Size(q)
  BY <1>1 DEF Size
<1>6. Fits(q, response[q])'
  BY <1>1, <1>4, <1>5 DEF Fits
<1>7. RequestInv(q)'
  BY <1>4, <1>6 DEF RequestInv
<1>8. QED
  BY <1>1, <1>2, <1>3, <1>7

(* A step that moves a request between stages without answering it. *)
LEMMA MoveStep ==
  ASSUME RequestTypeOK, NEW q \in Requests, RequestInv(q),
         NEW s \in Stages \ {"responded"}, stage[q] \in {"idle", "body"},
         stage' = [stage EXCEPT ![q] = s],
         sub' = sub, next' = next, response' = response,
         NEW t \in Instants \cup {Null}, now' = [now EXCEPT ![q] = t],
         s = "running" => Refusals(sub[q]) = {} /\ t \in Instants
  PROVE  RequestTypeOK' /\ RequestInv(q)' /\ Spares(q) /\ Holds(q)
<1>1. RequestTypeOK'
  BY DEF RequestTypeOK
<1>2. Spares(q)
  BY DEF Spares, RequestTypeOK
<1>3. stage'[q] = s /\ now'[q] = t
  BY DEF RequestTypeOK
<1>4. next[q] = 0 /\ response[q] = NoResponse
  BY DEF RequestInv
<1>5. Size(q)' = Size(q) /\ Size(q) \in Nat
  BY ElementsType DEF Size, RequestTypeOK
<1>6. RequestInv(q)'
  BY <1>3, <1>4, <1>5 DEF RequestInv, Stages
<1>7. QED
  BY <1>1, <1>2, <1>4, <1>6 DEF Holds

(* Answering before anything is published. *)
LEMMA EarlyReply ==
  ASSUME RequestTypeOK, NEW q \in Requests, RequestInv(q), TrackingTypeOK',
         NEW reply \in Responses, stage[q] \in {"idle", "body"}, Respond(q, reply),
         reply.status \notin {202, 503}, reply.status = 500 => ~reply.envelope,
         ~reply.retryAfter
  PROVE  Keeps(q) /\ Holds(q)
<1>1. next[q] = 0
  BY DEF RequestInv
<1>2. Fits(q, reply)
  BY <1>1 DEF Fits
<1>3. QED
  BY <1>2, RespondStep DEF Keeps, Holds

(* Error tracking is left alone. *)
LEMMA TrackingUnchanged ==
  ASSUME TrackingTypeOK, UNCHANGED trackingVars
  PROVE  TrackingTypeOK'
BY DEF TrackingTypeOK, trackingVars

(* The request line arrives: no route publishes anything. *)
LEMMA ArrivalStep ==
  ASSUME RequestTypeOK, TrackingTypeOK, NEW q \in Requests, RequestInv(q),
         Health(q) \/ NotFound(q) \/ MethodNotAllowed(q) \/ ReceiveHead(q)
  PROVE  Keeps(q) /\ Holds(q) /\ UNCHANGED kafkaVars
<1>1. UNCHANGED kafkaVars
  BY DEF Health, NotFound, MethodNotAllowed, ReceiveHead
<1>2. CASE Health(q)
  <2>1. Healthy \in Responses /\ Healthy.status = 200 /\ ~Healthy.retryAfter
    BY FixedReplies DEF Healthy, Plain
  <2>2. QED
    BY <1>1, <1>2, <2>1, EarlyReply, TrackingUnchanged DEF Health
<1>3. CASE NotFound(q)
  <2> DEFINE reply == IntoResponse(Error("NotFound"))
  <2>1. reply \in Responses /\ reply.status = 404 /\ ~reply.retryAfter
    BY FixedReplies DEF Variants, StatusOf
  <2>2. Respond(q, reply) /\ UNCHANGED trackingVars
    BY <1>3 DEF NotFound, RespondError, ExceptionReport, Error
  <2>3. stage[q] = "idle"
    BY <1>3 DEF NotFound
  <2> HIDE DEF reply
  <2>4. QED
    BY <1>1, <2>1, <2>2, <2>3, EarlyReply, TrackingUnchanged
<1>4. CASE MethodNotAllowed(q)
  <2> DEFINE reply == IntoResponse(Error("MethodNotAllowed"))
  <2>1. reply \in Responses /\ reply.status = 405 /\ ~reply.retryAfter
    BY FixedReplies DEF Variants, StatusOf
  <2>2. Respond(q, reply) /\ UNCHANGED trackingVars
    BY <1>4 DEF MethodNotAllowed, RespondError, ExceptionReport, Error
  <2>3. stage[q] = "idle"
    BY <1>4 DEF MethodNotAllowed
  <2> HIDE DEF reply
  <2>4. QED
    BY <1>1, <2>1, <2>2, <2>3, EarlyReply, TrackingUnchanged
<1>5. CASE ReceiveHead(q)
  <2>1. TrackingTypeOK'
    BY <1>5, TrackingUnchanged DEF ReceiveHead
  <2>2. now' = [now EXCEPT ![q] = now[q]] /\ now[q] \in Instants \cup {Null}
    BY <1>5 DEF ReceiveHead, RequestTypeOK
  <2>3. /\ stage[q] = "idle" /\ stage' = [stage EXCEPT ![q] = "body"]
        /\ sub' = sub /\ next' = next /\ response' = response
    BY <1>5 DEF ReceiveHead
  <2>4. "body" \in Stages \ {"responded"}
    BY DEF Stages
  <2>5. RequestTypeOK' /\ RequestInv(q)' /\ Spares(q) /\ Holds(q)
    BY <2>2, <2>3, <2>4, MoveStep
  <2>6. QED
    BY <1>1, <2>1, <2>5 DEF Keeps
<1>6. QED
  BY <1>2, <1>3, <1>4, <1>5

(* The body arrives or does not: what is refused has published nothing. *)
LEMMA AwaitBodyStep ==
  ASSUME RequestTypeOK, TrackingTypeOK, NEW q \in Requests, RequestInv(q),
         \/ Timeout(q) \/ Disconnect(q) \/ BodyRejected(q)
         \/ Refuse(q) \/ HandlerPanic(q) \/ Accept(q)
  PROVE  Keeps(q) /\ Holds(q) /\ UNCHANGED kafkaVars
<1>1. UNCHANGED kafkaVars /\ stage[q] = "body"
  BY DEF Timeout, Disconnect, BodyRejected, Refuse, HandlerPanic, Accept
<1>2. sub[q] \in Submissions
  BY DEF RequestTypeOK
<1>3. CASE Timeout(q)
  <2>1. TimedOut \in Responses /\ TimedOut.status = 408 /\ ~TimedOut.retryAfter
    BY FixedReplies DEF TimedOut, Plain
  <2>2. QED
    BY <1>1, <1>3, <2>1, EarlyReply, TrackingUnchanged DEF Timeout
<1>4. CASE BodyRejected(q)
  <2>1. PICK reply \in BodyRejections : Respond(q, reply)
    BY <1>4 DEF BodyRejected
  <2>2. reply \in Responses /\ reply.status \in {400, 413} /\ ~reply.retryAfter
    BY <2>1, FixedReplies DEF BodyRejections, Plain
  <2>3. QED
    BY <1>1, <1>4, <2>1, <2>2, EarlyReply, TrackingUnchanged DEF BodyRejected
<1>5. CASE Refuse(q)
  <2>1. PICK error \in Refusals(sub[q]) : RespondError(q, error)
    BY <1>5 DEF Refuse
  <2> DEFINE reply == IntoResponse(error)
  <2>2. /\ reply \in Responses /\ reply.status \in {400, 415}
        /\ ~reply.retryAfter /\ ~ExceptionReport(error)
    BY <1>2, RefusalReplies
  <2>3. Respond(q, reply) /\ UNCHANGED trackingVars
    BY <2>1, <2>2 DEF RespondError
  <2> HIDE DEF reply
  <2>4. QED
    BY <1>1, <2>2, <2>3, EarlyReply, TrackingUnchanged
<1>6. CASE HandlerPanic(q)
  <2>1. /\ Panicked \in Responses /\ Panicked.status = 500
        /\ ~Panicked.retryAfter /\ ~Panicked.envelope
    BY FixedReplies DEF Panicked, Plain
  <2>2. [req |-> q, handled |-> FALSE] \in Reports
    BY DEF Reports
  <2>3. TrackingTypeOK'
    BY <1>6, <2>2, ReportType DEF HandlerPanic
  <2>4. QED
    BY <1>1, <1>6, <2>1, <2>3, EarlyReply DEF HandlerPanic
<1>7. ASSUME NEW s \in Stages \ {"responded"}, stage' = [stage EXCEPT ![q] = s],
             NEW t \in Instants \cup {Null}, now' = [now EXCEPT ![q] = t],
             s = "running" => Refusals(sub[q]) = {} /\ t \in Instants,
             sub' = sub, next' = next, response' = response, UNCHANGED trackingVars
      PROVE  Keeps(q) /\ Holds(q) /\ UNCHANGED kafkaVars
  <2>1. RequestTypeOK' /\ RequestInv(q)' /\ Spares(q) /\ Holds(q)
    BY <1>1, <1>7, MoveStep
  <2>2. QED
    BY <1>1, <1>7, <2>1, TrackingUnchanged DEF Keeps
<1>8. CASE Disconnect(q)
  <2>1. now' = [now EXCEPT ![q] = now[q]] /\ now[q] \in Instants \cup {Null}
    BY <1>8 DEF Disconnect, RequestTypeOK
  <2>2. /\ "dropped" \in Stages \ {"responded"} /\ stage' = [stage EXCEPT ![q] = "dropped"]
        /\ sub' = sub /\ next' = next /\ response' = response /\ UNCHANGED trackingVars
    BY <1>8 DEF Disconnect, Stages
  <2>3. QED
    BY <1>7, <2>1, <2>2
<1>9. CASE Accept(q)
  <2>1. PICK t \in Instants : now' = [now EXCEPT ![q] = t]
    BY <1>9 DEF Accept
  <2>2. /\ "running" \in Stages \ {"responded"} /\ stage' = [stage EXCEPT ![q] = "running"]
        /\ sub' = sub /\ next' = next /\ response' = response /\ UNCHANGED trackingVars
        /\ Refusals(sub[q]) = {}
    BY <1>9 DEF Accept, Stages
  <2>3. QED
    BY <1>7, <2>1, <2>2
<1>10. QED
  BY <1>3, <1>4, <1>5, <1>6, <1>8, <1>9

(* What holds of a handler that publishes. *)
LEMMA PublishingHandler ==
  ASSUME RequestTypeOK, NEW q \in Requests, RequestInv(q), stage[q] = "running"
  PROVE  /\ Refusals(sub[q]) = {} /\ now[q] \in Instants
         /\ next[q] \in Nat /\ Size(q) \in Nat /\ next[q] <= Size(q)
<1>1. sub[q] \in Submissions /\ next[q] \in Nat
  BY DEF RequestTypeOK
<1>2. QED
  BY <1>1, ElementsType DEF RequestInv, Size

(* The publish loop moves its counter past an event. *)
LEMMA AdvanceStep ==
  ASSUME RequestTypeOK, NEW q \in Requests, RequestInv(q),
         stage[q] = "running", next[q] < Size(q),
         next' = [next EXCEPT ![q] = @ + 1],
         UNCHANGED <<sub, stage, now, response>>
  PROVE  RequestTypeOK' /\ RequestInv(q)' /\ Spares(q) /\ Advances(q)
<1>1. /\ Refusals(sub[q]) = {} /\ now[q] \in Instants
      /\ next[q] \in Nat /\ Size(q) \in Nat
  BY PublishingHandler
<1>2. next[q] + 1 \in 1..Size(q)
  BY <1>1
<1>3. RequestTypeOK'
  BY <1>1 DEF RequestTypeOK
<1>4. Spares(q)
  BY DEF Spares, RequestTypeOK
<1>5. next'[q] = next[q] + 1 /\ Size(q)' = Size(q)
  BY DEF RequestTypeOK, Size
<1>6. RequestInv(q)'
  BY <1>1, <1>2, <1>5 DEF RequestInv
<1>7. /\ NextEntry(q) \in Entries
      /\ NextEntry(q).req = q /\ NextEntry(q).index = next[q] + 1
      /\ PartitionOf[NextEntry(q).message.key] \in Partitions
  BY <1>1, <1>2, PublishedEntry DEF NextEntry
<1>8. QED
  BY <1>3, <1>4, <1>6, <1>7 DEF Advances

(* The loop ends with the first error of the producer ... *)
LEMMA FailStep ==
  ASSUME RequestTypeOK, TrackingTypeOK, NEW q \in Requests, RequestInv(q),
         stage[q] = "running", next[q] < Size(q),
         NEW v \in {"ServiceUnavailable", "Internal"}, RespondError(q, Error(v))
  PROVE  Keeps(q) /\ Holds(q)
<1> DEFINE reply == IntoResponse(Error(v))
           report == [req |-> q, handled |-> TRUE]
<1>1. /\ reply \in Responses /\ reply.status \in {500, 503} /\ reply.envelope
      /\ reply.retryAfter <=> reply.status = 503
  BY FixedReplies DEF Variants, StatusOf
<1>2. Respond(q, reply) /\ (ReportException(report) \/ UNCHANGED trackingVars)
  BY DEF RespondError
<1>3. report \in Reports
  BY DEF Reports
<1> HIDE DEF reply, report
<1>4. TrackingTypeOK'
  BY <1>2, <1>3, ReportType, TrackingUnchanged
<1>5. Fits(q, reply)
  BY <1>1, PublishingHandler DEF Fits
<1>6. QED
  BY <1>1, <1>2, <1>4, <1>5, RespondStep DEF Keeps, Holds

(* ... or with the last event. *)
LEMMA FinishStep ==
  ASSUME RequestTypeOK, TrackingTypeOK, NEW q \in Requests, RequestInv(q), Finish(q)
  PROVE  Keeps(q) /\ Holds(q) /\ UNCHANGED kafkaVars
<1>1. Accepted \in Responses /\ Accepted.status = 202 /\ ~Accepted.retryAfter
  BY FixedReplies DEF Accepted, Plain
<1>2. /\ Respond(q, Accepted) /\ stage[q] = "running" /\ next[q] = Size(q)
      /\ UNCHANGED trackingVars /\ UNCHANGED kafkaVars
  BY DEF Finish
<1>3. Fits(q, Accepted)
  BY <1>1, <1>2, PublishingHandler DEF Fits
<1>4. QED
  BY <1>1, <1>2, <1>3, RespondStep, TrackingUnchanged DEF Keeps, Holds

(* The step of a request gives Kafka its next event, or leaves Kafka alone;
   it keeps what holds of the request, and of the others everything. *)
LEMMA HandlerStep ==
  ASSUME RequestTypeOK, TrackingTypeOK, NEW q \in Requests, RequestInv(q),
         Arrival(q) \/ AwaitBody(q) \/ Running(q)
  PROVE  /\ Keeps(q)
         /\ \/ Holds(q) /\ UNCHANGED kafkaVars
            \/ Advances(q) /\ ProduceOk(NextEntry(q))
<1>1. CASE Arrival(q)
  BY <1>1, ArrivalStep DEF Arrival
<1>2. CASE AwaitBody(q)
  BY <1>2, AwaitBodyStep DEF AwaitBody
<1>3. CASE Enqueue(q)
  <2>1. /\ stage[q] = "running" /\ next[q] < Size(q) /\ ProduceOk(NextEntry(q))
        /\ next' = [next EXCEPT ![q] = @ + 1]
        /\ UNCHANGED <<sub, stage, now, response>> /\ UNCHANGED trackingVars
    BY <1>3 DEF Enqueue, NextEntry
  <2>2. RequestTypeOK' /\ RequestInv(q)' /\ Spares(q) /\ Advances(q)
    BY <2>1, AdvanceStep
  <2>3. QED
    BY <2>1, <2>2, TrackingUnchanged DEF Keeps
<1>4. CASE EnqueueQueueFull(q)
  BY <1>4, FailStep DEF EnqueueQueueFull, ProduceQueueFull
<1>5. CASE EnqueueBackend(q)
  BY <1>5, FailStep DEF EnqueueBackend, ProduceBackend
<1>6. CASE Finish(q)
  BY <1>6, FinishStep
<1>7. QED
  BY <1>1, <1>2, <1>3, <1>4, <1>5, <1>6 DEF Running

-----------------------------------------------------------------------------
(* The inductive invariant.                                                *)

Inv == TypeOK /\ ProgressIsPublished

(* What is published for a request, in the words of the lemmas. *)
LEMMA PublishedEvents ==
  ASSUME NEW r
  PROVE  /\ PublishedInv(r) <=> EnqueuedBy(r) = Events(r)
         /\ PublishedInv(r)' <=> EnqueuedBy(r)' = Events(r)'
BY DEF PublishedInv, Events

(* Kafka is left alone, and with it what was enqueued. *)
LEMMA KafkaUnchanged ==
  ASSUME KafkaTypeOK, UNCHANGED kafkaVars
  PROVE  KafkaTypeOK' /\ Enqueued' = Enqueued
BY DEF KafkaTypeOK, Enqueued, kafkaVars

(* The step of a request gives Kafka its next event, or leaves Kafka alone. *)
LEMMA ProducesOrNot ==
  ASSUME Inv, NEW q \in Requests, Arrival(q) \/ AwaitBody(q) \/ Running(q)
  PROVE  \/ UNCHANGED kafkaVars
         \/ \E e \in Entries :
              /\ ProduceOk(e) /\ PartitionOf[e.message.key] \in Partitions
              /\ e.req = q /\ e.index = next[q] + 1
BY HandlerStep DEF Inv, TypeOK, ProgressIsPublished, Advances

(* Each action of a request preserves the invariant. *)
LEMMA RequestStep ==
  ASSUME Inv, NEW q \in Requests, Arrival(q) \/ AwaitBody(q) \/ Running(q)
  PROVE  Inv'
<1>1. RequestTypeOK /\ TrackingTypeOK /\ KafkaTypeOK
  BY DEF Inv, TypeOK
<1>2. \A r \in Requests : RequestInv(r) /\ EnqueuedBy(r) = Events(r)
  BY PublishedEvents DEF Inv, ProgressIsPublished
<1>3. /\ Keeps(q)
      /\ \/ Holds(q) /\ UNCHANGED kafkaVars
         \/ Advances(q) /\ ProduceOk(NextEntry(q))
  BY <1>1, <1>2, HandlerStep
<1>4. ASSUME NEW r \in Requests PROVE RequestInv(r)'
  BY <1>2, <1>3, <1>4, Untouched DEF Keeps, Spares
<1>5. CASE Holds(q) /\ UNCHANGED kafkaVars
  <2>1. KafkaTypeOK' /\ Enqueued' = Enqueued
    BY <1>1, <1>5, KafkaUnchanged
  <2>2. ASSUME NEW r \in Requests PROVE PublishedInv(r)'
    <3>1. Events(r)' = Events(r)
      BY <1>3, <1>5, EventsHold DEF Keeps
    <3>2. EnqueuedBy(r)' = EnqueuedBy(r)
      BY <2>1 DEF EnqueuedBy
    <3>3. QED
      BY <1>2, <3>1, <3>2, PublishedEvents
  <2>3. QED
    BY <1>3, <1>4, <2>1, <2>2 DEF Keeps, Inv, TypeOK, ProgressIsPublished
<1>6. CASE Advances(q) /\ ProduceOk(NextEntry(q))
  <2>1. KafkaTypeOK' /\ Enqueued' = Enqueued \cup {NextEntry(q)}
    BY <1>1, <1>6, ProduceStep DEF Advances
  <2>2. /\ Events(q)' = Events(q) \cup {NextEntry(q)}
        /\ \A r \in Requests \ {q} : Events(r)' = Events(r)
    BY <1>1, <1>3, <1>6, EventsAdvance DEF Keeps, RequestTypeOK
  <2>3. NextEntry(q).req = q
    BY <1>6 DEF Advances
  <2>4. /\ EnqueuedBy(q)' = EnqueuedBy(q) \cup {NextEntry(q)}
        /\ \A r \in Requests \ {q} : EnqueuedBy(r)' = EnqueuedBy(r)
    BY <2>1, <2>3 DEF EnqueuedBy
  <2>5. ASSUME NEW r \in Requests PROVE PublishedInv(r)'
    BY <1>2, <2>2, <2>4, PublishedEvents
  <2>6. QED
    BY <1>3, <1>4, <2>1, <2>5 DEF Keeps, Inv, TypeOK, ProgressIsPublished
<1>7. QED
  BY <1>3, <1>5, <1>6

(* A step that leaves the requests alone, and what was enqueued. *)
LEMMA RequestsUnchanged ==
  ASSUME RequestTypeOK, ProgressIsPublished, UNCHANGED requestVars, Enqueued' = Enqueued
  PROVE  RequestTypeOK' /\ ProgressIsPublished'
<1>1. RequestTypeOK'
  BY DEF requestVars, RequestTypeOK
<1>2. ASSUME NEW r \in Requests PROVE RequestInv(r)' /\ PublishedInv(r)'
  <2>1. RequestInv(r) /\ PublishedInv(r)
    BY DEF ProgressIsPublished
  <2>2. RequestInv(r)' /\ Events(r)' = Events(r)
    BY <2>1, Untouched DEF requestVars
  <2>3. EnqueuedBy(r)' = EnqueuedBy(r)
    BY DEF EnqueuedBy
  <2>4. QED
    BY <2>1, <2>2, <2>3, PublishedEvents
<1>3. QED
  BY <1>1, <1>2 DEF ProgressIsPublished

(* The producer's own threads, the broker and the observers. *)
LEMMA KafkaActionStep ==
  ASSUME Inv, Kafka
  PROVE  Inv'
<1>1. KafkaTypeOK' /\ Enqueued' = Enqueued
  BY KafkaStep DEF Kafka, Inv, TypeOK
<1>2. UNCHANGED requestVars /\ TrackingTypeOK'
  BY TrackingUnchanged DEF Kafka, Inv, TypeOK
<1>3. QED
  BY <1>1, <1>2, RequestsUnchanged DEF Inv, TypeOK

-----------------------------------------------------------------------------
(* Theorems.                                                               *)

(* A server that has served nothing, whatever its error tracking. *)
LEMMA FreshInv == RequestInit /\ TrackingTypeOK /\ KafkaInit => Inv
<1> SUFFICES ASSUME RequestInit, TrackingTypeOK, KafkaInit PROVE Inv
  OBVIOUS
<1>1. NoResponse \in Responses
  BY FixedReplies DEF NoResponse
<1>2. RequestTypeOK
  BY <1>1 DEF RequestInit, RequestTypeOK, Stages
<1>4. /\ unsent = [p \in Partitions |-> <<>>] /\ topic = [p \in Partitions |-> <<>>]
      /\ unacked = {} /\ failed = {} /\ observers = {} /\ warned = {}
  BY DEF KafkaInit
<1>5. KafkaTypeOK
  BY <1>4 DEF KafkaTypeOK
<1>6. Enqueued = {}
  <2>1. \A p \in Partitions : Range(unsent[p]) = {} /\ Range(topic[p]) = {}
    BY <1>4 DEF Range
  <2>2. QED
    BY <1>4, <2>1 DEF Enqueued
<1>7. ASSUME NEW r \in Requests PROVE RequestInv(r) /\ PublishedInv(r)
  <2>1. stage[r] = "idle" /\ next[r] = 0 /\ response[r] = NoResponse
    BY DEF RequestInit
  <2>2. EnqueuedBy(r) = {}
    BY <1>6 DEF EnqueuedBy
  <2>3. QED
    BY <2>1, <2>2 DEF RequestInv, PublishedInv
<1>8. QED
  BY <1>2, <1>5, <1>7 DEF Inv, TypeOK, ProgressIsPublished

(* ... in particular one whose error tracking is up. *)
LEMMA InitInv == Init => Inv
<1>1. TrackingReady => TrackingTypeOK
  BY DEF TrackingReady, TrackingTypeOK
<1>2. QED
  BY <1>1, FreshInv DEF Init

(* Every step of the service preserves the invariant. *)
LEMMA NextInv == Inv /\ [Next]_vars => Inv'
<1> SUFFICES ASSUME Inv, [Next]_vars PROVE Inv'
  OBVIOUS
<1>1. CASE RequestNext
  BY <1>1, RequestStep DEF RequestNext
<1>2. CASE Kafka
  BY <1>2, KafkaActionStep
<1>3. CASE UNCHANGED vars
  <2>1. UNCHANGED requestVars /\ UNCHANGED trackingVars /\ UNCHANGED kafkaVars
    BY <1>3 DEF vars
  <2>2. QED
    BY <2>1, KafkaUnchanged, TrackingUnchanged, RequestsUnchanged DEF Inv, TypeOK
<1>4. CASE Quiescent
  BY <1>3, <1>4 DEF Quiescent
<1>5. QED
  BY <1>1, <1>2, <1>3, <1>4 DEF Next

(* The state space of the service, and what Kafka was given for a request in
   terms of the handler's progress and its response, in every state. *)
THEOREM Invariance == Spec => [](TypeOK /\ ProgressIsPublished)
<1>1. Inv <=> TypeOK /\ ProgressIsPublished
  BY DEF Inv
<1>2. QED
  BY <1>1, InitInv, NextInv, PTL DEF Spec

(* TypeOK holds in every state (the messages and entries that are published
   included, which is where validation is needed). *)
THEOREM TypeCorrect == Spec => []TypeOK
BY Invariance, PTL

(* A request that was refused, timed out, dropped, or that panicked, has
   published nothing. *)
THEOREM Refused == Spec => []RefusedPublishesNothing
<1>1. TypeOK /\ ProgressIsPublished => RefusedPublishesNothing
  <2> SUFFICES ASSUME TypeOK, ProgressIsPublished, NEW r \in Requests,
                      \/ stage[r] = "dropped"
                      \/ response[r].status \in 400..499
                      \/ response[r] = Panicked
               PROVE  EnqueuedBy(r) = {}
    BY DEF RefusedPublishesNothing
  <2>1. RequestInv(r) /\ PublishedInv(r)
    BY DEF ProgressIsPublished
  <2>2. CASE stage[r] = "dropped"
    BY <2>1, <2>2 DEF RequestInv, PublishedInv
  <2>3. CASE response[r].status \in 400..499 \/ response[r] = Panicked
    <3>1. response[r].status # 0
      BY <2>3 DEF Panicked, Plain
    <3>2. response[r] # NoResponse
      BY <3>1 DEF NoResponse, Plain
    <3>3. Fits(r, response[r])
      BY <2>1, <3>2 DEF RequestInv
    <3>4. response[r].status \notin {202, 503}
          /\ (response[r].status = 500 => ~response[r].envelope)
      BY <2>3 DEF Panicked, Plain
    <3>5. next[r] = 0
      BY <3>3, <3>4 DEF Fits
    <3>6. QED
      BY <2>1, <3>5 DEF PublishedInv
  <2>4. QED
    BY <2>2, <2>3
<1>2. QED
  BY <1>1, Invariance, PTL

(* A handler that answers 202 has reached the end of its batch. *)
LEMMA Completeness == TypeOK /\ ProgressIsPublished => AcceptedIsComplete
<1> SUFFICES ASSUME TypeOK, ProgressIsPublished, NEW r \in Requests,
                    response[r].status = 202
             PROVE  /\ Positions(r) = DOMAIN sub[r].events
                    /\ \A entry \in EnqueuedBy(r) :
                         Carries(entry, sub[r].events[entry.index])
                    /\ \A e1, e2 \in EnqueuedBy(r) : e1.index = e2.index => e1 = e2
  BY DEF AcceptedIsComplete
<1>1. RequestInv(r) /\ PublishedInv(r) /\ sub[r] \in Submissions
  BY DEF ProgressIsPublished, TypeOK, RequestTypeOK
<1>2. response[r] # NoResponse
  BY DEF NoResponse, Plain
<1>3. Fits(r, response[r])
  BY <1>1, <1>2 DEF RequestInv
<1>4. Refusals(sub[r]) = {} /\ now[r] \in Instants /\ next[r] = Size(r)
  BY <1>3 DEF Fits
<1>5. /\ Elements(sub[r]) = sub[r].events
      /\ DOMAIN sub[r].events = 1..Size(r)
  BY <1>1, <1>4, NotRefused, ElementsType DEF Size
<1>6. EnqueuedBy(r) = {EntryOf(r, i) : i \in 1..Size(r)}
  BY <1>1, <1>4 DEF PublishedInv
<1>7. \A i \in 1..Size(r) : /\ EntryOf(r, i).index = i
                            /\ Carries(EntryOf(r, i), sub[r].events[i])
  BY <1>4, PublishedEntry DEF TypeOK
<1>8. QED
  BY <1>5, <1>6, <1>7 DEF Positions

(* A 202 means that all the events of the request were handed to Kafka. *)
THEOREM Complete == Spec => []AcceptedIsComplete
BY Completeness, Invariance, PTL

(* After a producer failure what was published is a strict prefix of the
   batch, and a retry is asked for exactly when the queue was full. *)
THEOREM StrictPrefix == Spec => []FailurePublishesStrictPrefix
<1>1. TypeOK /\ ProgressIsPublished => FailurePublishesStrictPrefix
  <2> SUFFICES ASSUME TypeOK, ProgressIsPublished, NEW r \in Requests
               PROVE  /\ response[r].status \in {500, 503} /\ response[r].envelope
                           => \E k \in 0..(Len(sub[r].events) - 1) : Positions(r) = 1..k
                      /\ response[r].retryAfter <=> response[r].status = 503
    BY DEF FailurePublishesStrictPrefix
  <2>1. RequestInv(r) /\ PublishedInv(r) /\ sub[r] \in Submissions /\ next[r] \in Nat
    BY DEF ProgressIsPublished, TypeOK, RequestTypeOK
  <2>2. response[r].retryAfter <=> response[r].status = 503
    BY <2>1 DEF RequestInv, Fits, NoResponse, Plain
  <2>3. ASSUME response[r].status \in {500, 503}, response[r].envelope
        PROVE  \E k \in 0..(Len(sub[r].events) - 1) : Positions(r) = 1..k
    <3>1. Fits(r, response[r])
      BY <2>1, <2>3 DEF RequestInv, NoResponse, Plain
    <3>2. Refusals(sub[r]) = {} /\ now[r] \in Instants /\ next[r] < Size(r)
      BY <2>3, <3>1 DEF Fits
    <3>3. Size(r) = Len(sub[r].events) /\ Size(r) \in Nat
      BY <2>1, <3>2, NotRefused DEF Size
    <3>4. EnqueuedBy(r) = {EntryOf(r, i) : i \in 1..next[r]}
      BY <2>1 DEF PublishedInv
    <3>5. \A i \in 1..next[r] : EntryOf(r, i).index = i
      BY DEF EntryOf
    <3>6. Positions(r) = 1..next[r]
      BY <3>4, <3>5 DEF Positions
    <3>7. next[r] \in 0..(Len(sub[r].events) - 1)
      BY <2>1, <3>2, <3>3
    <3>8. QED
      BY <3>6, <3>7
  <2>4. QED
    BY <2>2, <2>3
<1>2. QED
  BY <1>1, Invariance, PTL

-----------------------------------------------------------------------------
(* Answers are final.                                                      *)

(* What a step of request q does to another request that has ended. *)
LEMMA RequestStepSpares ==
  ASSUME Inv, NEW q \in Requests, Arrival(q) \/ AwaitBody(q) \/ Running(q),
         NEW r \in Requests, Ended(r)
  PROVE  /\ stage'[r] = stage[r]
         /\ response'[r] = response[r]
         /\ EnqueuedBy(r)' = EnqueuedBy(r)
<1>1. /\ stage \in [Requests -> Stages] /\ response \in [Requests -> Responses]
      /\ KafkaTypeOK /\ RequestInv(q) /\ TypeOK
  BY DEF Inv, TypeOK, RequestTypeOK, ProgressIsPublished
<1>2. stage[q] \in {"idle", "body", "running"}
  BY DEF Arrival, Health, NotFound, MethodNotAllowed, ReceiveHead, AwaitBody, Timeout,
         Disconnect, BodyRejected, Refuse, HandlerPanic, Accept, Running, Enqueue,
         EnqueueQueueFull, EnqueueBackend, Finish
<1>3. q # r
  BY <1>2 DEF Ended
<1>4. /\ \E s \in Stages : stage' = [stage EXCEPT ![q] = s] \/ stage' = stage
      /\ \E x : response' = [response EXCEPT ![q] = x] \/ response' = response
  BY DEF Arrival, Health, NotFound, MethodNotAllowed, ReceiveHead, AwaitBody, Timeout,
         Disconnect, BodyRejected, Refuse, HandlerPanic, Accept, Running, Enqueue,
         EnqueueQueueFull, EnqueueBackend, Finish, Respond, RespondError, Stages
<1>5. stage'[r] = stage[r] /\ response'[r] = response[r]
  BY <1>1, <1>3, <1>4
<1>6. EnqueuedBy(r)' = EnqueuedBy(r)
  <2>1. CASE UNCHANGED kafkaVars
    BY <1>1, <2>1, KafkaUnchanged DEF EnqueuedBy
  <2>2. CASE \E e \in Entries : /\ ProduceOk(e) /\ e.req = q
                               /\ PartitionOf[e.message.key] \in Partitions
    BY <1>1, <1>3, <2>2, ProduceStep DEF EnqueuedBy
  <2>3. QED
    BY <2>1, <2>2, ProducesOrNot
<1>7. QED
  BY <1>5, <1>6

(* A step of the service, or one that touches neither requests nor Kafka, does
   nothing to a request that has ended. *)
LEMMA EndedStays ==
  ASSUME Inv, [Next]_vars \/ UNCHANGED <<requestVars, kafkaVars>>,
         NEW r \in Requests, Ended(r)
  PROVE  /\ stage'[r] = stage[r]
         /\ response'[r] = response[r]
         /\ EnqueuedBy(r)' = EnqueuedBy(r)
<1>1. CASE RequestNext
  BY <1>1, RequestStepSpares DEF RequestNext
<1>2. CASE Kafka
  <2>1. Enqueued' = Enqueued /\ stage' = stage /\ response' = response
    BY <1>2, KafkaStep DEF Kafka, Inv, TypeOK, requestVars
  <2>2. QED
    BY <2>1 DEF EnqueuedBy
<1>3. CASE UNCHANGED <<requestVars, kafkaVars>>
  <2>1. UNCHANGED kafkaVars /\ stage' = stage /\ response' = response
    BY <1>3 DEF requestVars
  <2>2. Enqueued' = Enqueued
    BY <2>1, KafkaUnchanged DEF Inv, TypeOK
  <2>3. QED
    BY <2>1, <2>2 DEF EnqueuedBy
<1>4. QED
  BY <1>1, <1>2, <1>3 DEF Next, Quiescent, vars

(* ResponseIsFinal: no step answers or publishes for a request that has
   ended, whichever requests and threads run beside it. *)
THEOREM Final == Spec => ResponseIsFinal
<1>1. Inv /\ [Next]_vars => [\A r \in Requests : Ended(r) =>
                                /\ stage'[r] = stage[r]
                                /\ response'[r] = response[r]
                                /\ EnqueuedBy(r)' = EnqueuedBy(r)]_vars
  BY EndedStays
<1>2. QED
  BY <1>1, InitInv, NextInv, PTL DEF Spec, ResponseIsFinal

-----------------------------------------------------------------------------
(* No loss is silent.                                                      *)

(* A message enqueued has an observer still to come, or was warned of, or
   has left the local queue without an error. *)
Accounted(entry) ==
  \/ entry \in observers \cup warned
  \/ entry \notin Pending \cup failed

LossInv == \A entry \in Enqueued : Accounted(entry)

(* A step of the library loses count of nothing, if what leaves the queue
   with an error was in the queue. *)
LEMMA QuietStep ==
  ASSUME LossInv, Enqueued' = Enqueued, Pending' \subseteq Pending,
         failed' \subseteq failed \cup Pending, UNCHANGED <<observers, warned>>
  PROVE  LossInv'
BY DEF LossInv, Accounted

(* The library and the observers never fill the queue, and what fails was in
   it. *)
LEMMA PendingStep ==
  ASSUME KafkaTypeOK, KafkaNext
  PROVE  Pending' \subseteq Pending /\ failed' \subseteq failed \cup Pending
<1>1. ASSUME NEW x
      PROVE  x \in Pending <=> x \in unacked \/ \E q \in Partitions : x \in Range(unsent[q])
  BY DEF Pending
<1>2. ASSUME NEW x
      PROVE  x \in Pending' <=> x \in unacked' \/ \E q \in Partitions : x \in Range(unsent'[q])
  BY DEF Pending
<1>3. ASSUME NEW p \in Partitions, unsent[p] # <<>>,
             unsent' = [unsent EXCEPT ![p] = Tail(@)]
      PROVE  /\ Head(unsent[p]) \in Pending
             /\ \A q \in Partitions : Range(unsent'[q]) \subseteq Range(unsent[q])
  <2>1. unsent[p] \in Seq(Entries) /\ unsent'[p] = Tail(unsent[p])
    BY <1>3 DEF KafkaTypeOK
  <2>2. Range(unsent[p]) = {Head(unsent[p])} \cup Range(Tail(unsent[p]))
    BY <1>3, <2>1, RangeTail
  <2>3. \A q \in Partitions : q # p => unsent'[q] = unsent[q]
    BY <1>3 DEF KafkaTypeOK
  <2>4. QED
    BY <1>1, <2>1, <2>2, <2>3
<1>4. ASSUME NEW p \in Partitions, BrokerAppend(p) \/ ExpireUnsent(p)
      PROVE  Pending' \subseteq Pending /\ failed' \subseteq failed \cup Pending
  <2>1. /\ unsent[p] # <<>> /\ unsent' = [unsent EXCEPT ![p] = Tail(@)]
        /\ unacked' \subseteq unacked \cup {Head(unsent[p])}
        /\ failed' \subseteq failed \cup {Head(unsent[p])}
    BY <1>4 DEF BrokerAppend, ExpireUnsent
  <2>2. QED
    BY <1>1, <1>2, <1>3, <2>1
<1>5. ASSUME NEW entry \in unacked, DeliveryReport(entry) \/ ExpireUnacked(entry)
      PROVE  Pending' \subseteq Pending /\ failed' \subseteq failed \cup Pending
  <2>1. /\ unacked' = unacked \ {entry} /\ unsent' = unsent
        /\ failed' \subseteq failed \cup {entry}
    BY <1>5 DEF DeliveryReport, ExpireUnacked
  <2>2. QED
    BY <1>1, <1>2, <2>1
<1>6. ASSUME NEW entry \in observers, ObserveDelivery(entry)
      PROVE  Pending' = Pending /\ failed' = failed
  BY <1>6 DEF ObserveDelivery, Pending
<1>7. QED
  BY <1>4, <1>5, <1>6 DEF KafkaNext

(* produce adds at most its message to the queue. *)
LEMMA PendingProduce ==
  ASSUME KafkaTypeOK, NEW entry \in Entries, ProduceOk(entry),
         PartitionOf[entry.message.key] \in Partitions
  PROVE  Pending' \subseteq Pending \cup {entry}
<1> DEFINE p == PartitionOf[entry.message.key]
<1>1. unsent' = [unsent EXCEPT ![p] = Append(@, entry)] /\ unacked' = unacked
  BY DEF ProduceOk
<1>2. unsent[p] \in Seq(Entries)
  BY DEF KafkaTypeOK
<1>3. Range(Append(unsent[p], entry)) = Range(unsent[p]) \cup {entry}
  BY <1>2, RangeAppend
<1>4. \A q \in Partitions : Range(unsent'[q]) \subseteq Range(unsent[q]) \cup {entry}
  BY <1>1, <1>3 DEF KafkaTypeOK
<1>5. QED
  BY <1>1, <1>4 DEF Pending

(* The library's threads and the observers keep the account. *)
LEMMA LossKafka ==
  ASSUME KafkaTypeOK, LossInv, KafkaNext
  PROVE  LossInv'
<1>1. Enqueued' = Enqueued
  BY KafkaStep
<1>2. CASE \/ \E p \in Partitions : BrokerAppend(p) \/ ExpireUnsent(p)
           \/ \E entry \in unacked : DeliveryReport(entry) \/ ExpireUnacked(entry)
  <2>1. UNCHANGED <<observers, warned>>
    BY <1>2 DEF BrokerAppend, ExpireUnsent, DeliveryReport, ExpireUnacked
  <2>2. QED
    BY <1>1, <2>1, PendingStep, QuietStep
<1>3. ASSUME NEW entry \in observers, ObserveDelivery(entry)
      PROVE  LossInv'
  <2>1. /\ entry \notin Pending /\ observers' = observers \ {entry}
        /\ warned' = IF entry \in failed THEN warned \cup {entry} ELSE warned
        /\ UNCHANGED <<unsent, unacked, failed>>
    BY <1>3 DEF ObserveDelivery
  <2>2. Pending' = Pending
    BY <2>1 DEF Pending
  <2>3. QED
    BY <1>1, <2>1, <2>2 DEF LossInv, Accounted
<1>4. QED
  BY <1>2, <1>3 DEF KafkaNext

(* ... and so does a message that joins the queue, with its observer. *)
LEMMA LossProduce ==
  ASSUME KafkaTypeOK, LossInv, NEW entry \in Entries, ProduceOk(entry),
         PartitionOf[entry.message.key] \in Partitions
  PROVE  LossInv'
<1>1. Enqueued' = Enqueued \cup {entry} /\ Pending' \subseteq Pending \cup {entry}
  BY ProduceStep, PendingProduce
<1>2. observers' = observers \cup {entry} /\ UNCHANGED <<failed, warned>>
  BY DEF ProduceOk
<1>3. QED
  BY <1>1, <1>2 DEF LossInv, Accounted

(* No step breaks the account. *)
LEMMA LossNext == Inv /\ LossInv /\ [Next]_vars => LossInv'
<1> SUFFICES ASSUME Inv, LossInv, [Next]_vars PROVE LossInv'
  OBVIOUS
<1>1. KafkaTypeOK
  BY DEF Inv, TypeOK
<1>2. CASE UNCHANGED kafkaVars
  BY <1>2 DEF LossInv, Accounted, Enqueued, Pending, kafkaVars
<1>3. CASE RequestNext
  BY <1>1, <1>2, <1>3, ProducesOrNot, LossProduce DEF RequestNext
<1>4. CASE Kafka
  BY <1>1, <1>4, LossKafka DEF Kafka
<1>5. CASE UNCHANGED vars
  BY <1>2, <1>5 DEF vars
<1>6. QED
  BY <1>3, <1>4, <1>5 DEF Next, Quiescent

(* Nothing is enqueued at first. *)
LEMMA LossInit == KafkaInit => LossInv
<1> SUFFICES ASSUME KafkaInit PROVE Enqueued = {}
  BY DEF LossInv
<1>1. /\ unsent = [p \in Partitions |-> <<>>] /\ topic = [p \in Partitions |-> <<>>]
      /\ failed = {}
  BY DEF KafkaInit
<1>2. \A p \in Partitions : Range(unsent[p]) = {} /\ Range(topic[p]) = {}
  BY <1>1 DEF Range
<1>3. QED
  BY <1>1, <1>2 DEF Enqueued

(* A complete request's events are accounted for one by one. *)
LEMMA LossesAreSeen == AcceptedIsComplete /\ LossInv => NoSilentLoss
<1> SUFFICES ASSUME AcceptedIsComplete, LossInv, NEW r \in Requests,
                    response[r].status = 202, NEW i \in DOMAIN sub[r].events
             PROVE  \E entry \in EnqueuedBy(r) :
                      /\ entry.index = i
                      /\ \/ entry \in Pending
                         \/ entry \in observers
                         \/ entry \in warned
                         \/ /\ entry \notin failed
                            /\ \E p \in Partitions : entry \in Range(topic[p])
  BY DEF NoSilentLoss
<1>1. Positions(r) = DOMAIN sub[r].events
  BY DEF AcceptedIsComplete
<1>2. PICK entry \in EnqueuedBy(r) : entry.index = i
  BY <1>1 DEF Positions
<1>3. entry \in Enqueued /\ Accounted(entry)
  BY DEF EnqueuedBy, LossInv
<1>4. CASE entry \notin Pending \cup failed
  <2>1. PICK p \in Partitions : entry \in Range(unsent[p]) \cup Range(topic[p])
    BY <1>3, <1>4 DEF Enqueued
  <2>2. entry \in Range(topic[p])
    BY <1>4, <2>1 DEF Pending
  <2>3. QED
    BY <1>2, <1>4, <2>2
<1>5. QED
  BY <1>2, <1>3, <1>4 DEF Accounted

(* NoSilentLoss: an event answered with 202 is queued, or in the topic with
   no error, or its loss is logged or has an observer left to log it. *)
THEOREM LossIsObserved == Spec => []NoSilentLoss
<1>1. Init => LossInv
  BY LossInit DEF Init
<1>2. Spec => []LossInv
  BY <1>1, InitInv, NextInv, LossNext, PTL DEF Spec
<1>3. QED
  BY <1>2, LossesAreSeen, Complete, PTL

-----------------------------------------------------------------------------
(* A partition keeps the order of a batch.                                 *)

(* Entries of one request are in the order of their positions. *)
Ordered(log) ==
  \A i, j \in DOMAIN log :
    i < j /\ log[i].req = log[j].req => log[i].index < log[j].index

(* The elements of two sequences, one after the other. *)
LEMMA ConcatElements ==
  ASSUME NEW S, NEW s \in Seq(S), NEW t \in Seq(S)
  PROVE  /\ s \o t \in Seq(S)
         /\ Len(s \o t) = Len(s) + Len(t)
         /\ DOMAIN (s \o t) = 1..(Len(s) + Len(t))
         /\ \A i \in 1..(Len(s) + Len(t)) :
              (s \o t)[i] = IF i <= Len(s) THEN s[i] ELSE t[i - Len(s)]
OBVIOUS

(* A log stays ordered when an entry beyond its request's others joins it. *)
LEMMA OrderedProduce ==
  ASSUME NEW s \in Seq(Entries), NEW u \in Seq(Entries), NEW e \in Entries,
         Ordered(s \o u),
         \A x \in Range(s) \cup Range(u) : x.req = e.req => x.index < e.index
  PROVE  Ordered(s \o Append(u, e))
<1> DEFINE old == s \o u
           new == s \o Append(u, e)
           n   == Len(s) + Len(u)
<1>1. Append(u, e) \in Seq(Entries) /\ Len(Append(u, e)) = Len(u) + 1
      /\ Len(s) \in Nat /\ Len(u) \in Nat
  OBVIOUS
<1>2. \A i \in 1..Len(u) : Append(u, e)[i] = u[i]
  OBVIOUS
<1>3. Append(u, e)[Len(u) + 1] = e
  OBVIOUS
<1>4. /\ DOMAIN old = 1..n
      /\ \A i \in 1..n : old[i] = IF i <= Len(s) THEN s[i] ELSE u[i - Len(s)]
  BY ConcatElements
<1>5. /\ DOMAIN new = 1..(n + 1)
      /\ \A i \in 1..(n + 1) :
           new[i] = IF i <= Len(s) THEN s[i] ELSE Append(u, e)[i - Len(s)]
  BY <1>1, ConcatElements
<1>6. n \in Nat
  BY <1>1
<1>7. \A i \in 1..n : new[i] = old[i] /\ old[i] \in Range(s) \cup Range(u)
  <2> SUFFICES ASSUME NEW i \in 1..n
               PROVE  new[i] = old[i] /\ old[i] \in Range(s) \cup Range(u)
    OBVIOUS
  <2>1. i \in 1..(n + 1)
    BY <1>6
  <2>2. CASE i <= Len(s)
    <3>1. new[i] = s[i] /\ old[i] = s[i] /\ i \in DOMAIN s
      BY <1>1, <1>4, <1>5, <2>1, <2>2
    <3>2. QED
      BY <3>1 DEF Range
  <2>3. CASE ~(i <= Len(s))
    <3>1. i - Len(s) \in 1..Len(u) /\ DOMAIN u = 1..Len(u)
      BY <1>1, <2>3
    <3>2. new[i] = u[i - Len(s)] /\ old[i] = u[i - Len(s)]
      BY <1>2, <1>4, <1>5, <2>1, <2>3, <3>1
    <3>3. QED
      BY <3>1, <3>2 DEF Range
  <2>4. QED
    BY <2>2, <2>3
<1>8. new[n + 1] = e
  <2>1. n + 1 \in 1..(n + 1) /\ ~(n + 1 <= Len(s)) /\ n + 1 - Len(s) = Len(u) + 1
    BY <1>1
  <2>2. QED
    BY <1>3, <1>5, <2>1
<1> HIDE DEF old, new
<1>9. ASSUME NEW i \in 1..(n + 1), NEW j \in 1..(n + 1), i < j, new[i].req = new[j].req
      PROVE  new[i].index < new[j].index
  <2>1. i \in 1..n /\ (j \in 1..n \/ j = n + 1)
    BY <1>6, <1>9
  <2>2. CASE j \in 1..n
    BY <1>4, <1>7, <1>9, <2>1, <2>2 DEF Ordered, old
  <2>3. CASE j = n + 1
    BY <1>7, <1>8, <1>9, <2>1, <2>3
  <2>4. QED
    BY <2>1, <2>2, <2>3
<1>10. QED
  BY <1>5, <1>9 DEF Ordered, new

(* ... when the head of the queue is written to the topic ... *)
LEMMA OrderedAppend ==
  ASSUME NEW s \in Seq(Entries), NEW u \in Seq(Entries), u # <<>>, Ordered(s \o u)
  PROVE  Ordered(Append(s, Head(u)) \o Tail(u))
<1> DEFINE h == Append(s, Head(u))
           n == Len(s) + Len(u)
<1>1. /\ h \in Seq(Entries) /\ Tail(u) \in Seq(Entries)
      /\ Len(s) \in Nat /\ Len(u) \in Nat \ {0}
      /\ Len(h) = Len(s) + 1 /\ Len(Tail(u)) = Len(u) - 1
  OBVIOUS
<1>2. /\ \A i \in 1..Len(s) : h[i] = s[i]
      /\ h[Len(s) + 1] = u[1]
      /\ \A i \in 1..(Len(u) - 1) : Tail(u)[i] = u[i + 1]
  OBVIOUS
<1> HIDE DEF h
<1>3. /\ DOMAIN (s \o u) = 1..n
      /\ \A i \in 1..n : (s \o u)[i] = IF i <= Len(s) THEN s[i] ELSE u[i - Len(s)]
  BY ConcatElements
<1>4. /\ DOMAIN (h \o Tail(u)) = 1..n
      /\ \A i \in 1..n : (h \o Tail(u))[i] =
           IF i <= Len(s) + 1 THEN h[i] ELSE Tail(u)[i - (Len(s) + 1)]
  <2>1. Len(h) + Len(Tail(u)) = n
    BY <1>1
  <2>2. /\ DOMAIN (h \o Tail(u)) = 1..(Len(h) + Len(Tail(u)))
        /\ \A i \in 1..(Len(h) + Len(Tail(u))) : (h \o Tail(u))[i] =
             IF i <= Len(h) THEN h[i] ELSE Tail(u)[i - Len(h)]
    BY <1>1, ConcatElements
  <2>3. QED
    BY <1>1, <2>1, <2>2
<1>5. ASSUME NEW i \in 1..n
      PROVE  (h \o Tail(u))[i] = (s \o u)[i]
  <2>1. CASE i <= Len(s)
    BY <1>1, <1>2, <1>3, <1>4, <2>1
  <2>2. CASE i = Len(s) + 1
    <3>1. i - Len(s) = 1 /\ ~(i <= Len(s))
      BY <1>1, <2>2
    <3>2. QED
      BY <1>1, <1>2, <1>3, <1>4, <2>2, <3>1
  <2>3. CASE i > Len(s) + 1
    <3>1. i - (Len(s) + 1) \in 1..(Len(u) - 1) /\ i - (Len(s) + 1) + 1 = i - Len(s)
      BY <1>1, <2>3
    <3>2. QED
      BY <1>1, <1>2, <1>3, <1>4, <2>3, <3>1
  <2>4. QED
    BY <1>1, <2>1, <2>2, <2>3
<1>6. QED
  BY <1>3, <1>4, <1>5 DEF Ordered, h

(* ... and when it expires there. *)
LEMMA OrderedExpire ==
  ASSUME NEW s \in Seq(Entries), NEW u \in Seq(Entries), u # <<>>, Ordered(s \o u)
  PROVE  Ordered(s \o Tail(u))
<1> DEFINE n == Len(s) + Len(u)
           from(i) == IF i <= Len(s) THEN i ELSE i + 1
<1>1. /\ Tail(u) \in Seq(Entries) /\ Len(s) \in Nat /\ Len(u) \in Nat \ {0}
      /\ Len(Tail(u)) = Len(u) - 1
  OBVIOUS
<1>2. \A i \in 1..(Len(u) - 1) : Tail(u)[i] = u[i + 1]
  OBVIOUS
<1>3. /\ DOMAIN (s \o u) = 1..n
      /\ \A i \in 1..n : (s \o u)[i] = IF i <= Len(s) THEN s[i] ELSE u[i - Len(s)]
  BY ConcatElements
<1>4. /\ DOMAIN (s \o Tail(u)) = 1..(n - 1)
      /\ \A i \in 1..(n - 1) : (s \o Tail(u))[i] =
           IF i <= Len(s) THEN s[i] ELSE Tail(u)[i - Len(s)]
  <2>1. Len(s) + Len(Tail(u)) = n - 1
    BY <1>1
  <2>2. QED
    BY <1>1, <2>1, ConcatElements
<1>5. ASSUME NEW i \in 1..(n - 1)
      PROVE  (s \o Tail(u))[i] = (s \o u)[from(i)] /\ from(i) \in 1..n
  <2>1. CASE i <= Len(s)
    BY <1>1, <1>3, <1>4, <2>1
  <2>2. CASE ~(i <= Len(s))
    <3>1. /\ i - Len(s) \in 1..(Len(u) - 1) /\ i + 1 - Len(s) = i - Len(s) + 1
          /\ i + 1 \in 1..n /\ ~(i + 1 <= Len(s))
      BY <1>1, <2>2
    <3>2. QED
      BY <1>2, <1>3, <1>4, <2>2, <3>1
  <2>3. QED
    BY <2>1, <2>2
<1>6. ASSUME NEW i \in 1..(n - 1), NEW j \in 1..(n - 1), i < j PROVE from(i) < from(j)
  BY <1>1, <1>6
<1> HIDE DEF from
<1>7. ASSUME NEW i \in 1..(n - 1), NEW j \in 1..(n - 1), i < j,
             (s \o Tail(u))[i].req = (s \o Tail(u))[j].req
      PROVE  (s \o Tail(u))[i].index < (s \o Tail(u))[j].index
  <2>1. from(i) < from(j) /\ from(i) \in DOMAIN (s \o u) /\ from(j) \in DOMAIN (s \o u)
    BY <1>3, <1>5, <1>6, <1>7
  <2>2. (s \o u)[from(i)].req = (s \o u)[from(j)].req
    BY <1>5, <1>7
  <2>3. (s \o u)[from(i)].index < (s \o u)[from(j)].index
    BY <2>1, <2>2 DEF Ordered
  <2>4. QED
    BY <1>5, <2>3
<1>8. QED
  BY <1>4, <1>7 DEF Ordered

OrderInv == \A p \in Partitions : Ordered(topic[p] \o unsent[p])

(* The library's threads and the broker keep the order in each partition. *)
LEMMA OrderKafka ==
  ASSUME KafkaTypeOK, OrderInv, KafkaNext
  PROVE  OrderInv'
<1> SUFFICES ASSUME NEW q \in Partitions PROVE Ordered(topic'[q] \o unsent'[q])
  BY DEF OrderInv, Ordered
<1>1. /\ topic[q] \in Seq(Entries) /\ unsent[q] \in Seq(Entries)
      /\ Ordered(topic[q] \o unsent[q])
  BY DEF KafkaTypeOK, OrderInv
<1>2. CASE topic'[q] = topic[q] /\ unsent'[q] = unsent[q]
  BY <1>1, <1>2
<1>3. CASE BrokerAppend(q)
  <2>1. /\ unsent[q] # <<>> /\ unsent'[q] = Tail(unsent[q])
        /\ topic'[q] = Append(topic[q], Head(unsent[q]))
    BY <1>3 DEF BrokerAppend, KafkaTypeOK
  <2>2. QED
    BY <1>1, <2>1, OrderedAppend
<1>4. CASE ExpireUnsent(q)
  <2>1. unsent[q] # <<>> /\ unsent'[q] = Tail(unsent[q]) /\ topic'[q] = topic[q]
    BY <1>4 DEF ExpireUnsent, KafkaTypeOK
  <2>2. QED
    BY <1>1, <2>1, OrderedExpire
<1>5. ASSUME NEW p \in Partitions, p # q, BrokerAppend(p) \/ ExpireUnsent(p)
      PROVE  topic'[q] = topic[q] /\ unsent'[q] = unsent[q]
  BY <1>5 DEF BrokerAppend, ExpireUnsent, KafkaTypeOK
<1>6. ASSUME NEW entry, \/ DeliveryReport(entry) \/ ExpireUnacked(entry)
                       \/ ObserveDelivery(entry)
      PROVE  topic'[q] = topic[q] /\ unsent'[q] = unsent[q]
  BY <1>6 DEF DeliveryReport, ExpireUnacked, ObserveDelivery
<1>7. QED
  BY <1>2, <1>3, <1>4, <1>5, <1>6 DEF KafkaNext

(* A message that comes after all those of its request keeps the order. *)
LEMMA OrderProduce ==
  ASSUME KafkaTypeOK, OrderInv, NEW e \in Entries, ProduceOk(e),
         \A x \in Enqueued : x.req = e.req => x.index < e.index
  PROVE  OrderInv'
<1> DEFINE p == PartitionOf[e.message.key]
<1> SUFFICES ASSUME NEW q \in Partitions PROVE Ordered(topic'[q] \o unsent'[q])
  BY DEF OrderInv, Ordered
<1>1. /\ topic[q] \in Seq(Entries) /\ unsent[q] \in Seq(Entries)
      /\ Ordered(topic[q] \o unsent[q])
  BY DEF KafkaTypeOK, OrderInv
<1>2. topic' = topic /\ unsent' = [unsent EXCEPT ![p] = Append(@, e)]
  BY DEF ProduceOk
<1>3. CASE q = p
  <2>1. unsent'[q] = Append(unsent[q], e)
    BY <1>2, <1>3 DEF KafkaTypeOK
  <2>2. Range(topic[q]) \cup Range(unsent[q]) \subseteq Enqueued
    BY DEF Enqueued
  <2>3. QED
    BY <1>1, <1>2, <2>1, <2>2, OrderedProduce
<1>4. CASE q # p
  BY <1>1, <1>2, <1>4 DEF KafkaTypeOK
<1>5. QED
  BY <1>3, <1>4

(* A request's next event is beyond those it has published. *)
LEMMA FreshEvent ==
  ASSUME Inv, NEW r \in Requests, NEW e, e.req = r, e.index = next[r] + 1,
         NEW x \in Enqueued, x.req = r
  PROVE  x.index < e.index
<1>1. x \in EnqueuedBy(r)
  BY DEF EnqueuedBy
<1>2. PICK i \in 1..next[r] : x = EntryOf(r, i)
  BY <1>1 DEF Inv, ProgressIsPublished, PublishedInv
<1>3. x.index = i /\ next[r] \in Nat
  BY <1>2 DEF EntryOf, Inv, TypeOK, RequestTypeOK
<1>4. QED
  BY <1>3

(* A handler's next event is beyond all its earlier ones, so no step breaks
   the order. *)
LEMMA OrderNext == Inv /\ OrderInv /\ [Next]_vars => OrderInv'
<1> SUFFICES ASSUME Inv, OrderInv, [Next]_vars PROVE OrderInv'
  OBVIOUS
<1>1. CASE UNCHANGED kafkaVars
  <2>1. topic' = topic /\ unsent' = unsent
    BY <1>1 DEF kafkaVars
  <2>2. OrderInv' = \A p \in Partitions : Ordered(topic'[p] \o unsent'[p])
    BY DEF OrderInv, Ordered
  <2>3. QED
    BY <2>1, <2>2 DEF OrderInv
<1>2. CASE RequestNext
  <2>1. PICK r \in Requests : Arrival(r) \/ AwaitBody(r) \/ Running(r)
    BY <1>2 DEF RequestNext
  <2>2. CASE \E e \in Entries : ProduceOk(e) /\ e.req = r /\ e.index = next[r] + 1
    <3>1. PICK e \in Entries : ProduceOk(e) /\ e.req = r /\ e.index = next[r] + 1
      BY <2>2
    <3>2. \A x \in Enqueued : x.req = e.req => x.index < e.index
      BY <3>1, FreshEvent
    <3>3. QED
      BY <3>1, <3>2, OrderProduce DEF Inv, TypeOK
  <2>3. QED
    BY <1>1, <2>1, <2>2, ProducesOrNot
<1>3. CASE Kafka
  BY <1>3, OrderKafka DEF Kafka, Inv, TypeOK
<1>4. CASE UNCHANGED vars
  BY <1>1, <1>4 DEF vars
<1>5. QED
  BY <1>2, <1>3, <1>4 DEF Next, Quiescent

(* Empty logs are in order. *)
LEMMA OrderInit == KafkaInit => OrderInv
<1> SUFFICES ASSUME KafkaInit, NEW p \in Partitions PROVE Ordered(topic[p] \o unsent[p])
  BY DEF OrderInv
<1>1. topic[p] = <<>> /\ unsent[p] = <<>>
  BY DEF KafkaInit
<1>2. <<>> \o <<>> = <<>> /\ DOMAIN <<>> = {}
  OBVIOUS
<1>3. QED
  BY <1>1, <1>2 DEF Ordered

(* TopicKeepsBatchOrder: whatever interleaves on the queue and whatever
   expires from it, the consumers of a partition meet the events of one
   request in the order of the batch. *)
THEOREM OrderIsKept == Spec => []TopicKeepsBatchOrder
<1>1. OrderInv => TopicKeepsBatchOrder
  BY DEF OrderInv, Ordered, TopicKeepsBatchOrder
<1>2. Init => OrderInv
  BY OrderInit DEF Init
<1>3. QED
  BY <1>1, <1>2, InitInv, NextInv, OrderNext, PTL DEF Spec

-----------------------------------------------------------------------------
(* What is published says when.                                            *)

(* The two times of a valid event's message. *)
LEMMA TimesOfAMessage ==
  ASSUME NEW e \in JsonObjects \cup {NotObject}, Violations(e) = {}, NEW t \in Int
  PROVE  LET m == SerializeFlattened(Stamp(SheepOf(e), t)) IN
         /\ m.received_at = UnixSeconds(t)
         /\ m.payload.time = IF e["time"] = Null THEN UnixSeconds(t)
                             ELSE UnixSeconds(UtcInstant(e["time"]))
<1>1. e["time"] # Null => UtcInstant(e["time"]) \in Int
  BY ValidEvent, SheepAssumption DEF UtcInstant
<1>2. Null \notin Int
  BY SheepAssumption
<1>3. Stamp(SheepOf(e), t).occurred_at =
        IF e["time"] = Null THEN t ELSE UtcInstant(e["time"])
  BY <1>1, <1>2 DEF Stamp, SheepOf
<1>4. QED
  BY <1>3 DEF SerializeFlattened, Stamp

(* A request that has published was accepted, and its clock was read. *)
LEMMA PublishedMeansAccepted ==
  ASSUME Inv, NEW r \in Requests, next[r] # 0
  PROVE  /\ Refusals(sub[r]) = {} /\ now[r] \in Instants
         /\ next[r] \in Nat /\ next[r] <= Size(r)
<1>1. RequestInv(r) /\ stage[r] \in Stages /\ next[r] \in Nat /\ sub[r] \in Submissions
  BY DEF Inv, TypeOK, RequestTypeOK, ProgressIsPublished
<1>2. Len(Elements(sub[r])) \in Nat
  BY <1>1, ElementsType
<1>3. QED
  BY <1>1, <1>2 DEF RequestInv, Fits, Stages, Size

(* OneReceiptStamp: the events of a request are published with one receipt
   time, and with the client's own time where the client gave one. *)
THEOREM OneStamp == Spec => []OneReceiptStamp
<1>1. TypeOK /\ ProgressIsPublished => OneReceiptStamp
  <2> SUFFICES ASSUME Inv, NEW r \in Requests
               PROVE  \E received \in {UnixSeconds(t) : t \in Instants} :
                        \A entry \in EnqueuedBy(r) :
                          LET given == sub[r].events[entry.index]["time"] IN
                          /\ entry.message.received_at = received
                          /\ entry.message.payload.time =
                               IF given = Null THEN received
                               ELSE UnixSeconds(Rfc3339[given].local - Rfc3339[given].offset)
    BY DEF OneReceiptStamp, Inv
  <2>1. EnqueuedBy(r) = {EntryOf(r, i) : i \in 1..next[r]} /\ sub[r] \in Submissions
    BY DEF Inv, TypeOK, RequestTypeOK, ProgressIsPublished, PublishedInv
  <2>2. CASE next[r] = 0
    <3>1. EnqueuedBy(r) = {}
      BY <2>1, <2>2
    <3>2. PICK t \in Instants : TRUE
      BY IngestAssumption
    <3>3. QED
      BY <3>1, <3>2
  <2>3. CASE next[r] # 0
    <3>1. /\ Refusals(sub[r]) = {} /\ now[r] \in Instants /\ now[r] \in Int
          /\ next[r] \in Nat /\ next[r] <= Size(r)
      BY <2>3, PublishedMeansAccepted, IngestAssumption
    <3>2. /\ Elements(sub[r]) = sub[r].events
          /\ Elements(sub[r]) \in Seq(JsonObjects \cup {NotObject})
          /\ \A i \in DOMAIN Elements(sub[r]) : Violations(Elements(sub[r])[i]) = {}
      BY <2>1, <3>1, NotRefused, ElementsType
    <3>3. ASSUME NEW entry \in EnqueuedBy(r)
          PROVE  LET given == sub[r].events[entry.index]["time"] IN
                 /\ entry.message.received_at = UnixSeconds(now[r])
                 /\ entry.message.payload.time =
                      IF given = Null THEN UnixSeconds(now[r])
                      ELSE UnixSeconds(Rfc3339[given].local - Rfc3339[given].offset)
      <4>1. PICK i \in 1..next[r] : entry = EntryOf(r, i)
        BY <2>1
      <4> DEFINE e == Elements(sub[r])[i]
                 m == SerializeFlattened(Stamp(SheepOf(e), now[r]))
      <4>2. i \in DOMAIN Elements(sub[r])
        BY <3>1, <3>2 DEF Size
      <4>3. Elements(sub[r])[i] \in JsonObjects \cup {NotObject}
            /\ Violations(Elements(sub[r])[i]) = {}
        <5> DEFINE Values == JsonObjects \cup {NotObject}
        <5>1. Elements(sub[r]) \in Seq(Values)
          BY <3>2
        <5> HIDE DEF Values
        <5>2. Elements(sub[r])[i] \in Values
          BY <4>2, <5>1
        <5>3. QED
          BY <3>2, <4>2, <5>2 DEF Values
      <4>4. entry.index = i /\ entry.message = m
        BY <4>1 DEF EntryOf
      <4>5. e = sub[r].events[entry.index]
        BY <3>2, <4>4
      <4>6. /\ m.received_at = UnixSeconds(now[r])
            /\ m.payload.time = IF e["time"] = Null THEN UnixSeconds(now[r])
                                ELSE UnixSeconds(UtcInstant(e["time"]))
        BY <3>1, <4>3, TimesOfAMessage
      <4> HIDE DEF m, e
      <4>7. QED
        BY <4>4, <4>5, <4>6 DEF UtcInstant
    <3>4. QED
      BY <3>1, <3>3
  <2>4. QED
    BY <2>2, <2>3
<1>2. QED
  BY <1>1, Invariance, PTL

-----------------------------------------------------------------------------
(* What is refused says why.                                               *)

(* A reply to s names no position, or is the list of its faults. *)
Explains(s, reply) ==
  \/ \A x \in reply.errors : "index" \notin DOMAIN x
  \/ /\ ~UnsupportedMediaType(s) /\ ~BadRequest(s)
     /\ reply.errors = ValidationItems(s)

AnswerInv == \A r \in Requests : Explains(sub[r], response[r])

(* The replies that no submission decides carry no per-event errors. *)
LEMMA FixedRepliesExplain ==
  ASSUME NEW s
  PROVE  /\ \A n : Explains(s, Plain(n))
         /\ \A v \in Variants : Explains(s, IntoResponse(Error(v)))
<1>1. \A n : Plain(n).errors = {}
  BY DEF Plain
<1>2. \A v \in Variants : IntoResponse(Error(v)).errors = {[detail |-> v]}
  BY DEF IntoResponse, Error
<1>3. \A v \in Variants : "index" \notin DOMAIN [detail |-> v]
  OBVIOUS
<1>4. QED
  BY <1>1, <1>2, <1>3 DEF Explains

(* A refusal carries the errors of the submission it refuses. *)
LEMMA RefusalsExplain ==
  ASSUME NEW s \in Submissions, NEW error \in Refusals(s)
  PROVE  Explains(s, IntoResponse(error))
<1>1. \/ error \in {Error("UnsupportedMediaType"), Error("BadRequest")}
      \/ /\ ~UnsupportedMediaType(s) /\ ~BadRequest(s)
         /\ error = ValidationError(ValidationItems(s))
  BY DEF Refusals
<1>2. IntoResponse(ValidationError(ValidationItems(s))).errors = ValidationItems(s)
  BY DEF IntoResponse, ValidationError
<1>3. QED
  BY <1>1, <1>2, FixedRepliesExplain DEF Variants, Explains

(* Every step answers at most one request, and explains itself to it. *)
LEMMA AnswerStep ==
  ASSUME Inv, NEW q \in Requests, Arrival(q) \/ AwaitBody(q) \/ Running(q)
  PROVE  /\ sub' = sub
         /\ \/ response' = response
            \/ \E reply : /\ response' = [response EXCEPT ![q] = reply]
                          /\ Explains(sub[q], reply)
<1>1. sub[q] \in Submissions
  BY DEF Inv, TypeOK, RequestTypeOK
<1> DEFINE Says(reply) == Respond(q, reply) /\ Explains(sub[q], reply)
<1>2. ASSUME NEW reply, Says(reply)
      PROVE  /\ sub' = sub
             /\ response' = [response EXCEPT ![q] = reply]
             /\ Explains(sub[q], reply)
  BY <1>2 DEF Respond
<1>3. ASSUME NEW v \in Variants, RespondError(q, Error(v))
      PROVE  Says(IntoResponse(Error(v)))
  BY <1>3, FixedRepliesExplain DEF RespondError
<1>4. ASSUME NEW n, Respond(q, Plain(n))
      PROVE  Says(Plain(n))
  BY <1>4, FixedRepliesExplain
<1>5. ASSUME NEW error \in Refusals(sub[q]), RespondError(q, error)
      PROVE  Says(IntoResponse(error))
  BY <1>1, <1>5, RefusalsExplain DEF RespondError
<1> HIDE DEF Says
<1>6. CASE ReceiveHead(q) \/ Disconnect(q) \/ Accept(q) \/ Enqueue(q)
  BY <1>6 DEF ReceiveHead, Disconnect, Accept, Enqueue
<1>7. CASE Health(q) \/ Timeout(q) \/ BodyRejected(q) \/ HandlerPanic(q) \/ Finish(q)
  <2>1. PICK n : Respond(q, Plain(n))
    BY <1>7 DEF Health, Timeout, BodyRejected, HandlerPanic, Finish, Healthy, TimedOut,
       BodyRejections, Panicked, Accepted
  <2>2. QED
    BY <1>2, <1>4, <2>1
<1>8. CASE \/ NotFound(q) \/ MethodNotAllowed(q) \/ EnqueueQueueFull(q)
           \/ EnqueueBackend(q)
  <2>1. PICK v \in Variants : RespondError(q, Error(v))
    BY <1>8 DEF NotFound, MethodNotAllowed, EnqueueQueueFull, EnqueueBackend, Variants
  <2>2. QED
    BY <1>2, <1>3, <2>1
<1>9. CASE Refuse(q)
  BY <1>2, <1>5, <1>9 DEF Refuse
<1>10. QED
  BY <1>6, <1>7, <1>8, <1>9 DEF Arrival, AwaitBody, Running

(* Responses are given once, and with the errors of their own submission. *)
LEMMA AnswerNext == Inv /\ AnswerInv /\ [Next]_vars => AnswerInv'
<1> SUFFICES ASSUME Inv, AnswerInv, [Next]_vars, NEW r \in Requests
             PROVE  Explains(sub'[r], response'[r])
  BY DEF AnswerInv, Explains, UnsupportedMediaType, BadRequest, ValidationItems, Elements
<1>1. CASE sub' = sub /\ response' = response
  BY <1>1 DEF AnswerInv
<1>2. CASE RequestNext
  <2>1. PICK q \in Requests : Arrival(q) \/ AwaitBody(q) \/ Running(q)
    BY <1>2 DEF RequestNext
  <2>2. response \in [Requests -> Responses]
    BY DEF Inv, TypeOK, RequestTypeOK
  <2>3. QED
    BY <1>1, <2>1, <2>2, AnswerStep DEF AnswerInv
<1>3. CASE Kafka
  BY <1>1, <1>3 DEF Kafka, requestVars
<1>4. CASE UNCHANGED vars
  BY <1>1, <1>4 DEF vars, requestVars
<1>5. QED
  BY <1>2, <1>3, <1>4 DEF Next, Quiescent

(* No response, no errors. *)
LEMMA AnswerInit == Init => AnswerInv
BY FixedRepliesExplain DEF Init, RequestInit, AnswerInv, NoResponse

(* The attributes a fault is found in. *)
KeysOf(e) == IF e = NotObject THEN {"body"} ELSE FaultyKeys(e)

(* The faults of one event name its faulty attributes. *)
LEMMA KeysAreFaulty ==
  ASSUME NEW e \in JsonObjects \cup {NotObject}
  PROVE  /\ {f.key : f \in Violations(e)} = KeysOf(e)
         /\ \A f \in Violations(e) : "index" \notin DOMAIN f
<1>1. CASE e = NotObject
  <2>1. Violations(e) = {Fault("body", "must be a JSON object")}
    BY <1>1 DEF Violations
  <2>2. Fault("body", "must be a JSON object").key = "body"
        /\ "index" \notin DOMAIN Fault("body", "must be a JSON object")
    BY DEF Fault
  <2>3. QED
    BY <1>1, <2>1, <2>2 DEF KeysOf
<1>2. CASE e # NotObject
  <2>1. {f.key : f \in Violations(e)} = KeysOf(e)
    BY <1>2, FaultsAreExact DEF KeysOf
  <2>2. ASSUME NEW f \in Violations(e) PROVE "index" \notin DOMAIN f
    <3>1. PICK k \in RequiredKeys \cup OptionalKeys : f \in AttributeFaults(e, k)
      BY <1>2 DEF Violations
    <3>2. \E reason : f = Fault(k, reason)
      BY <1>2, <3>1, OneFaultEach
    <3>3. QED
      BY <3>2 DEF Fault
  <2>3. QED
    BY <2>1, <2>2
<1>3. QED
  BY <1>1, <1>2

(* The list of a batch's faults names its faulty events and attributes. *)
LEMMA ItemsOfABatch ==
  ASSUME NEW s \in Submissions, s.media = "batch"
  PROVE  /\ \A x \in ValidationItems(s) : "index" \in DOMAIN x
         /\ {<<x.index, x.key>> : x \in ValidationItems(s)} =
              UNION {{<<i - 1, k>> : k \in KeysOf(s.events[i])} : i \in DOMAIN s.events}
<1>1. Elements(s) = s.events /\ s.events \in Seq(JsonObjects \cup {NotObject})
  BY IngestAssumption DEF Elements
<1>2. ValidationItems(s) =
        UNION {{At(i - 1, fault) : fault \in Violations(s.events[i])}
               : i \in DOMAIN s.events}
  BY <1>1 DEF ValidationItems
<1>3. ASSUME NEW i, NEW fault
      PROVE  /\ At(i, fault).index = i /\ At(i, fault).key = fault.key
             /\ "index" \in DOMAIN At(i, fault)
  BY DEF At
<1>4. \A i \in DOMAIN s.events :
        {f.key : f \in Violations(s.events[i])} = KeysOf(s.events[i])
  BY <1>1, KeysAreFaulty
<1>5. ASSUME NEW x \in ValidationItems(s)
      PROVE  /\ "index" \in DOMAIN x
             /\ \E i \in DOMAIN s.events : \E k \in KeysOf(s.events[i]) :
                  <<x.index, x.key>> = <<i - 1, k>>
  <2>1. PICK i \in DOMAIN s.events :
          \E fault \in Violations(s.events[i]) : x = At(i - 1, fault)
    BY <1>2
  <2> PICK fault \in Violations(s.events[i]) : x = At(i - 1, fault)
    BY <2>1
  <2>2. fault.key \in KeysOf(s.events[i])
    BY <1>4
  <2>3. QED
    BY <1>3, <2>1, <2>2
<1>6. ASSUME NEW i \in DOMAIN s.events, NEW k \in KeysOf(s.events[i])
      PROVE  \E x \in ValidationItems(s) : <<x.index, x.key>> = <<i - 1, k>>
  <2>1. PICK fault \in Violations(s.events[i]) : fault.key = k
    BY <1>4
  <2>2. At(i - 1, fault) \in ValidationItems(s)
    BY <1>2
  <2>3. QED
    BY <1>3, <2>1, <2>2
<1>7. QED
  BY <1>5, <1>6

(* ValidationNamesTheFaultyEvents: the validation errors of a batch name its
   faulty events, and in each its faulty attributes, and nothing else. *)
THEOREM FaultsAreNamed == Spec => []ValidationNamesTheFaultyEvents
<1>1. TypeOK /\ AnswerInv => ValidationNamesTheFaultyEvents
  <2> SUFFICES ASSUME TypeOK, AnswerInv, NEW r \in Requests,
                      {x \in response[r].errors : "index" \in DOMAIN x} # {}
               PROVE  {<<x.index, x.key>> :
                         x \in {y \in response[r].errors : "index" \in DOMAIN y}} =
                      UNION {{<<i - 1, k>> : k \in KeysOf(sub[r].events[i])}
                             : i \in DOMAIN sub[r].events}
    BY DEF ValidationNamesTheFaultyEvents, KeysOf
  <2> DEFINE s == sub[r]
  <2>1. s \in Submissions /\ Explains(s, response[r])
    BY DEF TypeOK, RequestTypeOK, AnswerInv
  <2>2. response[r].errors = ValidationItems(s) /\ ~UnsupportedMediaType(s)
    BY <2>1 DEF Explains
  <2>3. s.media = "batch"
    <3>1. SUFFICES ASSUME s.media # "batch" PROVE FALSE
      OBVIOUS
    <3>2. ValidationItems(s) = UNION {Violations(Elements(s)[i]) : i \in DOMAIN Elements(s)}
      BY <3>1 DEF ValidationItems
    <3>3. \A x \in ValidationItems(s) : "index" \notin DOMAIN x
      BY <2>1, <3>2, KeysAreFaulty, ElementsType
    <3>4. QED
      BY <2>2, <3>3
  <2> HIDE DEF s
  <2>4. {x \in response[r].errors : "index" \in DOMAIN x} = ValidationItems(s)
    BY <2>1, <2>2, <2>3, ItemsOfABatch
  <2>5. QED
    BY <2>1, <2>3, <2>4, ItemsOfABatch DEF s
<1>2. QED
  BY <1>1, TypeCorrect, InitInv, NextInv, AnswerInit, AnswerNext, PTL DEF Spec

-----------------------------------------------------------------------------
(* A server fault is reported once.                                        *)

(* A request is answered, and a 500 is reported. *)
Replies(q, reply) ==
  /\ response' = [response EXCEPT ![q] = reply]
  /\ IF reply.status = 500
     THEN ReportException([req |-> q, handled |-> reply.envelope])
     ELSE UNCHANGED trackingVars

(* Whoever answers with a 500 reports it, and no one else reports. *)
LEMMA ReplyStep ==
  ASSUME Inv, NEW q \in Requests, Arrival(q) \/ AwaitBody(q) \/ Running(q)
  PROVE  \/ response' = response /\ UNCHANGED trackingVars
         \/ response[q].status = 0 /\ \E reply : Replies(q, reply)
<1>1. RequestInv(q) /\ sub[q] \in Submissions
  BY DEF Inv, ProgressIsPublished, TypeOK, RequestTypeOK
<1>2. stage[q] # "responded"
  BY DEF Arrival, Health, NotFound, MethodNotAllowed, ReceiveHead, AwaitBody, Timeout,
         Disconnect, BodyRejected, Refuse, HandlerPanic, Accept, Running, Enqueue,
         EnqueueQueueFull, EnqueueBackend, Finish
<1>3. response[q].status = 0
  BY <1>1, <1>2 DEF RequestInv, NoResponse, Plain
<1>4. ASSUME NEW reply, Respond(q, reply), reply.status # 500, UNCHANGED trackingVars
      PROVE  Replies(q, reply)
  BY <1>4 DEF Respond, Replies
<1>5. ASSUME NEW reply, Respond(q, reply), reply.status = 500,
             ReportException([req |-> q, handled |-> reply.envelope])
      PROVE  Replies(q, reply)
  BY <1>5 DEF Respond, Replies
<1>6. CASE ReceiveHead(q) \/ Disconnect(q) \/ Accept(q) \/ Enqueue(q)
  BY <1>6 DEF ReceiveHead, Disconnect, Accept, Enqueue
<1>7. CASE Health(q) \/ Timeout(q) \/ BodyRejected(q) \/ Finish(q)
  <2>1. PICK n \in {200, 202, 400, 408, 413} : Respond(q, Plain(n))
    BY <1>7 DEF Health, Timeout, BodyRejected, Finish, Healthy, TimedOut,
       BodyRejections, Accepted
  <2>2. Plain(n).status = n
    BY DEF Plain
  <2>3. UNCHANGED trackingVars
    BY <1>7 DEF Health, Timeout, BodyRejected, Finish
  <2>4. QED
    BY <1>3, <1>4, <2>1, <2>2, <2>3
<1>8. CASE HandlerPanic(q)
  <2>1. Panicked.status = 500 /\ Panicked.envelope = FALSE
    BY DEF Panicked, Plain
  <2>2. Respond(q, Panicked) /\ ReportException([req |-> q, handled |-> FALSE])
    BY <1>8 DEF HandlerPanic
  <2>3. QED
    BY <1>3, <1>5, <2>1, <2>2
<1>9. CASE NotFound(q) \/ MethodNotAllowed(q) \/ EnqueueQueueFull(q)
  <2>1. PICK v \in {"NotFound", "MethodNotAllowed", "ServiceUnavailable"} :
          RespondError(q, Error(v))
    BY <1>9 DEF NotFound, MethodNotAllowed, EnqueueQueueFull
  <2>2. ~ExceptionReport(Error(v)) /\ IntoResponse(Error(v)).status # 500
    BY <2>1 DEF ExceptionReport, Error, IntoResponse, StatusOf
  <2>3. QED
    BY <1>3, <1>4, <2>1, <2>2 DEF RespondError
<1>10. CASE Refuse(q)
  <2>1. PICK error \in Refusals(sub[q]) : RespondError(q, error)
    BY <1>10 DEF Refuse
  <2>2. ~ExceptionReport(error) /\ IntoResponse(error).status # 500
    BY <1>1, RefusalReplies
  <2>3. QED
    BY <1>3, <1>4, <2>1, <2>2 DEF RespondError
<1>11. CASE EnqueueBackend(q)
  <2> DEFINE reply == IntoResponse(Error("Internal"))
  <2>1. reply.status = 500 /\ reply.envelope = TRUE /\ ExceptionReport(Error("Internal"))
    BY DEF IntoResponse, Error, StatusOf, ExceptionReport
  <2>2. Respond(q, reply) /\ ReportException([req |-> q, handled |-> TRUE])
    BY <1>11, <2>1 DEF EnqueueBackend, RespondError
  <2> HIDE DEF reply
  <2>3. QED
    BY <1>3, <1>5, <2>1, <2>2
<1>12. QED
  BY <1>6, <1>7, <1>8, <1>9, <1>10, <1>11 DEF Arrival, AwaitBody, Running

(* What a new report does to the reports about each request. *)
LEMMA ReportsAppend ==
  ASSUME NEW log \in Seq(Reports), NEW x \in Reports, NEW r
  PROVE  /\ Append(log, x) \in Seq(Reports)
         /\ DOMAIN Append(log, x) = DOMAIN log \cup {Len(log) + 1}
         /\ \A i \in DOMAIN log : Append(log, x)[i] = log[i]
         /\ Append(log, x)[Len(log) + 1] = x
         /\ ReportsOf(Append(log, x), r) =
              IF x.req = r THEN ReportsOf(log, r) \cup {Len(log) + 1}
              ELSE ReportsOf(log, r)
<1>1. /\ Append(log, x) \in Seq(Reports)
      /\ DOMAIN Append(log, x) = 1..(Len(log) + 1)
      /\ DOMAIN log = 1..Len(log) /\ Len(log) \in Nat
  OBVIOUS
<1>2. 1..(Len(log) + 1) = 1..Len(log) \cup {Len(log) + 1}
  BY <1>1
<1>3. /\ \A i \in 1..Len(log) : Append(log, x)[i] = log[i]
      /\ Append(log, x)[Len(log) + 1] = x
  OBVIOUS
<1>4. QED
  BY <1>1, <1>2, <1>3 DEF ReportsOf

(* ServerFaultsReportedOnce for one request, apart from its quantifier. *)
FaultReported(r) ==
  IF response[r].status = 500 /\ sink = "posthog"
  THEN \/ ReportedIn(captured, r) /\ ReportsOf(dropped, r) = {}
       \/ ReportedIn(dropped, r) /\ ReportsOf(captured, r) = {}
  ELSE ReportsOf(captured, r) = {} /\ ReportsOf(dropped, r) = {}

(* A request no report of the step is about stays as it was reported. *)
LEMMA FaultSpared ==
  ASSUME NEW r, FaultReported(r), response'[r] = response[r], sink' = sink,
         ReportsOf(captured', r) = ReportsOf(captured, r),
         ReportsOf(dropped', r) = ReportsOf(dropped, r),
         \A i \in DOMAIN captured : captured'[i] = captured[i],
         \A i \in DOMAIN dropped : dropped'[i] = dropped[i],
         DOMAIN captured \subseteq DOMAIN captured', DOMAIN dropped \subseteq DOMAIN dropped'
  PROVE  FaultReported(r)'
<1>1. ReportedIn(captured, r) => ReportedIn(captured, r)'
  BY DEF ReportedIn, ReportsOf
<1>2. ReportedIn(dropped, r) => ReportedIn(dropped, r)'
  BY DEF ReportedIn, ReportsOf
<1>3. /\ ReportsOf(captured, r)' = ReportsOf(captured', r)
      /\ ReportsOf(dropped, r)' = ReportsOf(dropped', r)
  BY DEF ReportsOf
<1>4. QED
  BY <1>1, <1>2, <1>3 DEF FaultReported

(* The step of a request, while the client of error tracking runs. *)
LEMMA FaultStep ==
  ASSUME Inv, ServerFaultsReportedOnce, sink = "posthog" => client = "running",
         NEW q \in Requests, Arrival(q) \/ AwaitBody(q) \/ Running(q)
  PROVE  ServerFaultsReportedOnce' /\ sink' = sink /\ client' = client
<1>1. \A r \in Requests : FaultReported(r)
  BY DEF ServerFaultsReportedOnce, FaultReported
<1>2. /\ response \in [Requests -> Responses]
      /\ captured \in Seq(Reports) /\ dropped \in Seq(Reports)
  BY DEF Inv, TypeOK, RequestTypeOK, TrackingTypeOK
<1>3. ServerFaultsReportedOnce' <=> \A r \in Requests : FaultReported(r)'
  BY DEF ServerFaultsReportedOnce, FaultReported, ReportedIn, ReportsOf
<1>4. CASE response' = response /\ UNCHANGED trackingVars
  BY <1>1, <1>3, <1>4, FaultSpared DEF trackingVars
<1>5. ASSUME NEW reply, response[q].status = 0, reply.status # 500,
             response' = [response EXCEPT ![q] = reply], UNCHANGED trackingVars
      PROVE  ServerFaultsReportedOnce' /\ sink' = sink /\ client' = client
  <2>1. UNCHANGED <<sink, client, captured, dropped>>
    BY <1>5 DEF trackingVars
  <2>2. ASSUME NEW r \in Requests, r # q PROVE FaultReported(r)'
    BY <1>1, <1>2, <1>5, <2>1, <2>2, FaultSpared
  <2>3. ReportsOf(captured, q) = {} /\ ReportsOf(dropped, q) = {}
    BY <1>1, <1>5 DEF FaultReported
  <2>4. response'[q] = reply
    BY <1>2, <1>5
  <2>5. FaultReported(q)'
    BY <1>5, <2>1, <2>3, <2>4 DEF FaultReported, ReportsOf
  <2>6. QED
    BY <1>3, <2>1, <2>2, <2>5
<1>6. ASSUME NEW reply, response[q].status = 0, reply.status = 500,
             response' = [response EXCEPT ![q] = reply],
             ReportException([req |-> q, handled |-> reply.envelope])
      PROVE  ServerFaultsReportedOnce' /\ sink' = sink /\ client' = client
  <2> DEFINE x == [req |-> q, handled |-> reply.envelope]
  <2>1. ReportsOf(captured, q) = {} /\ ReportsOf(dropped, q) = {}
    BY <1>1, <1>6 DEF FaultReported
  <2>2. response'[q] = reply /\ reply \in Responses
    <3>1. response' \in [Requests -> Responses]
      <4>1. Inv'
        BY RequestStep
      <4>2. QED
        BY <4>1 DEF Inv, TypeOK, RequestTypeOK
    <3>2. response'[q] = reply
      BY <1>2, <1>6
    <3>3. QED
      BY <3>1, <3>2
  <2>3. x \in Reports /\ x.req = q /\ x.handled = response'[q].envelope
    BY <2>2 DEF Reports, Responses
  <2> HIDE DEF x
  <2>4. sink' = sink /\ client' = client
    BY <1>6 DEF ReportException
  <2>5. ASSUME NEW log \in Seq(Reports), NEW new, new = Append(log, x)
        PROVE  /\ \A r : r # q => ReportsOf(new, r) = ReportsOf(log, r)
               /\ \A i \in DOMAIN log : new[i] = log[i]
               /\ DOMAIN log \subseteq DOMAIN new
               /\ ReportsOf(log, q) = {} =>
                    \E i \in DOMAIN new : ReportsOf(new, q) = {i} /\ new[i] = x
    <3>1. /\ DOMAIN new = DOMAIN log \cup {Len(log) + 1}
          /\ \A i \in DOMAIN log : new[i] = log[i]
          /\ new[Len(log) + 1] = x
      BY <2>3, <2>5, ReportsAppend
    <3>2. ASSUME NEW r
          PROVE  ReportsOf(new, r) = IF x.req = r THEN ReportsOf(log, r) \cup {Len(log) + 1}
                                     ELSE ReportsOf(log, r)
      BY <2>3, <2>5, ReportsAppend
    <3>3. QED
      BY <2>3, <3>1, <3>2
  <2>6. CASE captured' = Append(captured, x) /\ dropped' = dropped /\ sink = "posthog"
    <3>1. ASSUME NEW r \in Requests, r # q PROVE FaultReported(r)'
      <4>1. /\ ReportsOf(captured', r) = ReportsOf(captured, r)
            /\ \A i \in DOMAIN captured : captured'[i] = captured[i]
            /\ DOMAIN captured \subseteq DOMAIN captured'
        <5>1. captured \in Seq(Reports) /\ captured' = Append(captured, x)
          BY <1>2, <2>6
        <5>2. \A s : s # q => ReportsOf(captured', s) = ReportsOf(captured, s)
          BY <2>5, <5>1
        <5>3. /\ \A i \in DOMAIN captured : captured'[i] = captured[i]
              /\ DOMAIN captured \subseteq DOMAIN captured'
          BY <2>5, <5>1
        <5>4. QED
          BY <3>1, <5>2, <5>3
      <4>2. FaultReported(r) /\ response'[r] = response[r]
        BY <1>1, <1>2, <1>6, <3>1
      <4>3. QED
        BY <2>4, <2>6, <4>1, <4>2, FaultSpared
    <3>2. PICK i \in DOMAIN captured' : ReportsOf(captured', q) = {i} /\ captured'[i] = x
      BY <1>2, <2>1, <2>5, <2>6
    <3>3. ReportedIn(captured, q)'
      BY <2>3, <3>2 DEF ReportedIn, ReportsOf
    <3>4. ReportsOf(dropped, q)' = {}
      BY <2>1, <2>6 DEF ReportsOf
    <3>5. FaultReported(q)'
      BY <1>6, <2>2, <2>4, <2>6, <3>3, <3>4 DEF FaultReported
    <3>6. QED
      BY <1>3, <2>4, <3>1, <3>5
  <2>7. CASE dropped' = Append(dropped, x) /\ captured' = captured /\ sink = "posthog"
    <3>1. ASSUME NEW r \in Requests, r # q PROVE FaultReported(r)'
      <4>1. /\ ReportsOf(dropped', r) = ReportsOf(dropped, r)
            /\ \A i \in DOMAIN dropped : dropped'[i] = dropped[i]
            /\ DOMAIN dropped \subseteq DOMAIN dropped'
        <5>1. dropped \in Seq(Reports) /\ dropped' = Append(dropped, x)
          BY <1>2, <2>7
        <5>2. \A s : s # q => ReportsOf(dropped', s) = ReportsOf(dropped, s)
          BY <2>5, <5>1
        <5>3. /\ \A i \in DOMAIN dropped : dropped'[i] = dropped[i]
              /\ DOMAIN dropped \subseteq DOMAIN dropped'
          BY <2>5, <5>1
        <5>4. QED
          BY <3>1, <5>2, <5>3
      <4>2. FaultReported(r) /\ response'[r] = response[r]
        BY <1>1, <1>2, <1>6, <3>1
      <4>3. QED
        BY <2>4, <2>7, <4>1, <4>2, FaultSpared
    <3>2. PICK i \in DOMAIN dropped' : ReportsOf(dropped', q) = {i} /\ dropped'[i] = x
      BY <1>2, <2>1, <2>5, <2>7
    <3>3. ReportedIn(dropped, q)'
      BY <2>3, <3>2 DEF ReportedIn, ReportsOf
    <3>4. ReportsOf(captured, q)' = {}
      BY <2>1, <2>7 DEF ReportsOf
    <3>5. FaultReported(q)'
      BY <1>6, <2>2, <2>4, <2>7, <3>3, <3>4 DEF FaultReported
    <3>6. QED
      BY <1>3, <2>4, <3>1, <3>5
  <2>8. CASE UNCHANGED <<captured, dropped>> /\ sink # "posthog"
    <3>1. ASSUME NEW r \in Requests, r # q PROVE FaultReported(r)'
      BY <1>1, <1>2, <1>6, <2>4, <2>8, <3>1, FaultSpared
    <3>2. FaultReported(q)'
      BY <2>1, <2>4, <2>8 DEF FaultReported, ReportsOf
    <3>3. QED
      BY <1>3, <2>4, <3>1, <3>2
  <2>9. QED
    BY <1>6, <2>6, <2>7, <2>8 DEF ReportException, x
<1>7. CASE ~(response' = response /\ UNCHANGED trackingVars)
  <2>1. response[q].status = 0
    BY <1>7, ReplyStep
  <2>2. PICK reply : Replies(q, reply)
    BY <1>7, ReplyStep
  <2>3. CASE reply.status = 500
    <3>1. /\ response' = [response EXCEPT ![q] = reply]
          /\ ReportException([req |-> q, handled |-> reply.envelope])
      BY <2>2, <2>3 DEF Replies
    <3>2. QED
      BY <1>6, <2>1, <2>3, <3>1
  <2>4. CASE reply.status # 500
    <3>1. response' = [response EXCEPT ![q] = reply] /\ UNCHANGED trackingVars
      BY <2>2, <2>4 DEF Replies
    <3>2. QED
      BY <1>5, <2>1, <2>4, <3>1
  <2>5. QED
    BY <2>3, <2>4
<1>8. QED
  BY <1>4, <1>7 DEF trackingVars

ClientInv == sink = "posthog" => client = "running"

(* Nothing answered, nothing reported. *)
LEMMA FaultStart ==
  ASSUME captured = <<>>, dropped = <<>>, \A r \in Requests : response[r] = NoResponse
  PROVE  ServerFaultsReportedOnce
<1>1. \A r : ReportsOf(captured, r) = {} /\ ReportsOf(dropped, r) = {}
  BY DEF ReportsOf
<1>2. \A r \in Requests : response[r].status # 500
  BY DEF NoResponse, Plain
<1>3. QED
  BY <1>1, <1>2 DEF ServerFaultsReportedOnce

(* ServerFaultsReportedOnce: every internal error and every panic is given to
   error tracking once, with the flag that tells them apart. *)
THEOREM FaultsReportedOnce == Spec => []ServerFaultsReportedOnce
<1> DEFINE I == ServerFaultsReportedOnce /\ ClientInv
<1>1. Init => I
  <2> SUFFICES ASSUME Init PROVE I
    OBVIOUS
  <2>1. captured = <<>> /\ dropped = <<>> /\ ClientInv
    BY DEF Init, TrackingReady, ClientInv
  <2>2. \A r \in Requests : response[r] = NoResponse
    BY DEF Init, RequestInit
  <2>3. QED
    BY <2>1, <2>2, FaultStart
<1>2. Inv /\ I /\ [Next]_vars => I'
  <2> SUFFICES ASSUME Inv, I, [Next]_vars PROVE I'
    OBVIOUS
  <2>1. CASE RequestNext
    BY <2>1, FaultStep DEF RequestNext, ClientInv
  <2>2. CASE UNCHANGED <<response, sink, client, captured, dropped>>
    BY <2>2 DEF ServerFaultsReportedOnce, ReportedIn, ReportsOf, ClientInv
  <2>3. CASE Kafka
    BY <2>2, <2>3 DEF Kafka, requestVars, trackingVars
  <2>4. CASE UNCHANGED vars
    BY <2>2, <2>4 DEF vars, requestVars, trackingVars
  <2>5. QED
    BY <2>1, <2>3, <2>4 DEF Next, Quiescent
<1>3. QED
  BY <1>1, <1>2, InitInv, NextInv, PTL DEF Spec
=============================================================================
