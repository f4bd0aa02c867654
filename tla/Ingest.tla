------------------------------- MODULE Ingest -------------------------------
(***************************************************************************)
(* Requests to the service, from the request line to the response          *)
(* (router.rs, middleware.rs, ingest/handler.rs), over the producer and    *)
(* the error tracker they share.                                           *)
(*                                                                         *)
(* A handler runs without an await once its body has arrived, so it can be *)
(* timed out or abandoned only before that; but handlers run in parallel   *)
(* on the worker threads, and the producer's threads run beside them, so   *)
(* each call to the producer is a step of its own.                         *)
(***************************************************************************)
EXTENDS SheepContract, AppError, ErrorTracking, KafkaProducer

CONSTANTS
  Requests,       \* the HTTP requests made
  Submissions,    \* what a request may carry
  MaxBatchEvents, \* config.max_batch_events
  CoreThreads,    \* worker threads of the runtime
  Instants        \* what the wall clock may read

(* A submission is [target, media, parsed, events]: what the request line
   routes to; the media type of its Content-Type ("single", "batch" or
   "other"); whether the body is malformed, a JSON array or another value;
   and the elements of the array, or the value. *)
ASSUME IngestAssumption ==
  /\ Submissions \subseteq
       [target : {"health", "unknown", "wrong method", "sheeps"},
        media  : {"single", "batch", "other"},
        parsed : {"malformed", "array", "value"},
        events : Seq(JsonObjects \cup {NotObject})]
  /\ \A s \in Submissions : s.parsed = "value" => Len(s.events) = 1
  /\ MaxBatchEvents \in Nat \ {0}
  /\ CoreThreads \in Nat \ {0}
  /\ Instants \subseteq Int /\ Instants # {}
  /\ PartitionOf \in [Texts -> Partitions]

VARIABLES
  sub,      \* what each request submits
  stage,    \* "idle", "body", "running", "responded" or "dropped"
  now,      \* the clock a handler read
  next,     \* how many of its events a handler has enqueued
  response  \* the response, once there is one

requestVars == <<sub, stage, now, next, response>>
vars == <<requestVars, trackingVars, kafkaVars>>

Ended(r) == stage[r] \in {"responded", "dropped"}

(* A worker thread is free to poll another future. *)
FreeWorker == Cardinality({r \in Requests : stage[r] = "running"}) < CoreThreads

-----------------------------------------------------------------------------
(* What the handler decides from a submission alone.                       *)

(* The values validated: an array is one non-object to the single path. *)
Elements(s) ==
  IF s.media = "single" /\ s.parsed = "array" THEN <<NotObject>> ELSE s.events

UnsupportedMediaType(s) == s.media \notin {"single", "batch"}

(* Mutant of BadRequest: the empty batch is not refused. *)
BadRequestEmptyAllowed(s) ==
  \/ s.parsed = "malformed"
  \/ s.media = "batch" /\ (s.parsed # "array" \/ Len(s.events) > MaxBatchEvents)

(* Mutant of BadRequest: one event more than the cap is let through. *)
BadRequestBeyondCap(s) ==
  \/ s.parsed = "malformed"
  \/ /\ s.media = "batch"
     /\ s.parsed # "array" \/ Len(s.events) \notin 1..(MaxBatchEvents + 1)

BadRequest(s) ==
  \/ s.parsed = "malformed"
  \/ /\ s.media = "batch"
     /\ \/ s.parsed # "array"
        \/ s.events = <<>>
        \/ Len(s.events) > MaxBatchEvents

Overflows(s) == \E i \in DOMAIN Elements(s) : NormalisationPanics(Elements(s)[i])

(* Mutant of At: positions are counted from one. *)
AtOneBased(index, fault) ==
  [index |-> index + 1, key |-> fault.key, reason |-> fault.reason]

(* Every failure of every event; a batch adds the event's zero-based index. *)
At(index, fault) == [index |-> index, key |-> fault.key, reason |-> fault.reason]

ValidationItems(s) ==
  UNION {{IF s.media = "batch" THEN At(i - 1, fault) ELSE fault :
            fault \in Violations(Elements(s)[i])} : i \in DOMAIN Elements(s)}

(* The AppError returned before anything is published, if there is one. *)
Refusals(s) ==
  CASE UnsupportedMediaType(s)    -> {Error("UnsupportedMediaType")}
    [] ~UnsupportedMediaType(s) /\ BadRequest(s) -> {Error("BadRequest")}
    [] OTHER -> IF ValidationItems(s) = {} THEN {}
                ELSE {ValidationError(ValidationItems(s))}

Size(r) == Len(Elements(sub[r]))

(* The i-th event of a request, stamped and serialized. *)
EntryOf(r, i) ==
  [req     |-> r,
   index   |-> i,
   message |-> SerializeFlattened(Stamp(SheepOf(Elements(sub[r])[i]), now[r]))]

-----------------------------------------------------------------------------
Respond(r, reply) ==
  /\ stage' = [stage EXCEPT ![r] = "responded"]
  /\ response' = [response EXCEPT ![r] = reply]
  /\ UNCHANGED <<sub, now, next>>

(* Mutant of RespondError: a panic of the sink is not contained, so that the
   panic handler answers for the handler that was about to. *)
RespondErrorUnguarded(r, error) ==
  \/ /\ Respond(r, IntoResponse(error))
     /\ IF ExceptionReport(error)
        THEN ReportException([req |-> r, handled |-> TRUE])
        ELSE UNCHANGED trackingVars
  \/ /\ ExceptionReport(error)
     /\ Respond(r, Panicked)
     /\ ReportException([req |-> r, handled |-> FALSE])

(* An AppError becomes the response; an internal one is reported first. *)
RespondError(r, error) ==
  /\ Respond(r, IntoResponse(error))
  /\ IF ExceptionReport(error)
     THEN ReportException([req |-> r, handled |-> TRUE])
     ELSE UNCHANGED trackingVars

(* Routes other than POST /api/v1/sheeps answer without reading a body. *)
Health(r) ==
  /\ stage[r] = "idle" /\ sub[r].target = "health"
  /\ Respond(r, Healthy)
  /\ UNCHANGED <<trackingVars, kafkaVars>>

NotFound(r) ==
  /\ stage[r] = "idle" /\ sub[r].target = "unknown"
  /\ RespondError(r, Error("NotFound"))
  /\ UNCHANGED kafkaVars

MethodNotAllowed(r) ==
  /\ stage[r] = "idle" /\ sub[r].target = "wrong method"
  /\ RespondError(r, Error("MethodNotAllowed"))
  /\ UNCHANGED kafkaVars

(* create_sheep is called and its Bytes extractor waits for the body. *)
ReceiveHead(r) ==
  /\ stage[r] = "idle" /\ sub[r].target = "sheeps"
  /\ stage' = [stage EXCEPT ![r] = "body"]
  /\ UNCHANGED <<sub, now, next, response, trackingVars, kafkaVars>>

(* Mutant of Timeout: it may also abort a handler between two events. *)
TimeoutWhileRunning(r) ==
  /\ stage[r] \in {"body", "running"}
  /\ Respond(r, TimedOut)
  /\ UNCHANGED <<trackingVars, kafkaVars>>

(* Mutant of Timeout: the layer is missing. *)
TimeoutNever(r) == stage[r] = "body" /\ FALSE /\ UNCHANGED vars

(* The timeout layer gives up.  Its timer is looked at only when the request's
   future is polled, and from the body's arrival to its return the handler
   runs in a single poll: it awaits nothing. *)
Timeout(r) ==
  /\ stage[r] = "body"
  /\ Respond(r, TimedOut)
  /\ UNCHANGED <<trackingVars, kafkaVars>>

(* The client goes away and its request's future is dropped. *)
Disconnect(r) ==
  /\ stage[r] = "body"
  /\ stage' = [stage EXCEPT ![r] = "dropped"]
  /\ UNCHANGED <<sub, now, next, response, trackingVars, kafkaVars>>

(* The extractor rejects the body: over its limit, or unreadable. *)
BodyRejected(r) ==
  /\ stage[r] = "body"
  /\ \E reply \in BodyRejections : Respond(r, reply)
  /\ UNCHANGED <<trackingVars, kafkaVars>>

(* The body is there: the handler refuses it. *)
Refuse(r) ==
  /\ stage[r] = "body"
  /\ UnsupportedMediaType(sub[r]) \/ BadRequest(sub[r]) \/ ~Overflows(sub[r])
  /\ \E error \in Refusals(sub[r]) : RespondError(r, error)
  /\ UNCHANGED kafkaVars

(* ... or validation panics; the panic is caught, reported and answered. *)
HandlerPanic(r) ==
  /\ stage[r] = "body"
  /\ ~UnsupportedMediaType(sub[r]) /\ ~BadRequest(sub[r]) /\ Overflows(sub[r])
  /\ Respond(r, Panicked)
  /\ ReportException([req |-> r, handled |-> FALSE])
  /\ UNCHANGED kafkaVars

(* ... or every event is valid, and the clock is read once for all of them. *)
Accept(r) ==
  /\ stage[r] = "body"
  /\ ~Overflows(sub[r]) /\ Refusals(sub[r]) = {}
  /\ stage' = [stage EXCEPT ![r] = "running"]
  /\ \E instant \in Instants : now' = [now EXCEPT ![r] = instant]
  /\ UNCHANGED <<sub, next, response, trackingVars, kafkaVars>>

(* Mutant of Enqueue: the clock is read again for every event. *)
EnqueueClockPerEvent(r) ==
  /\ stage[r] = "running" /\ next[r] < Size(r)
  /\ \E t \in Instants :
       ProduceOk([EntryOf(r, next[r] + 1) EXCEPT !.message.received_at = UnixSeconds(t)])
  /\ next' = [next EXCEPT ![r] = @ + 1]
  /\ UNCHANGED <<sub, stage, now, response, trackingVars>>

(* Mutant of Enqueue: the loop goes on after the error was answered. *)
EnqueueAfterError(r) ==
  /\ stage[r] = "running" \/ response[r].status = 503
  /\ next[r] < Size(r)
  /\ ProduceOk(EntryOf(r, next[r] + 1))
  /\ next' = [next EXCEPT ![r] = @ + 1]
  /\ UNCHANGED <<sub, stage, now, response, trackingVars>>

(* Mutant of Enqueue: the batch is published from its end. *)
EnqueueBackwards(r) ==
  /\ stage[r] = "running" /\ next[r] < Size(r)
  /\ ProduceOk(EntryOf(r, Size(r) - next[r]))
  /\ next' = [next EXCEPT ![r] = @ + 1]
  /\ UNCHANGED <<sub, stage, now, response, trackingVars>>

(* Mutant of Enqueue: the second event is skipped. *)
EnqueueSkipsOne(r) ==
  /\ stage[r] = "running" /\ next[r] < Size(r)
  /\ ProduceOk(EntryOf(r, next[r] + 1))
  /\ next' = [next EXCEPT ![r] = Size(r)]
  /\ UNCHANGED <<sub, stage, now, response, trackingVars>>

(* record_accepted for the next event, by what produce returns. *)
Enqueue(r) ==
  /\ stage[r] = "running" /\ next[r] < Size(r)
  /\ ProduceOk(EntryOf(r, next[r] + 1))
  /\ next' = [next EXCEPT ![r] = @ + 1]
  /\ UNCHANGED <<sub, stage, now, response, trackingVars>>

EnqueueQueueFull(r) ==
  /\ stage[r] = "running" /\ next[r] < Size(r)
  /\ ProduceQueueFull
  /\ RespondError(r, Error("ServiceUnavailable"))

(* Mutant of EnqueueBackend: the message was queued before the error. *)
EnqueueBackendQueued(r) ==
  /\ stage[r] = "running" /\ next[r] < Size(r)
  /\ ProduceOk(EntryOf(r, next[r] + 1))
  /\ RespondError(r, Error("Internal"))

EnqueueBackend(r) ==
  /\ stage[r] = "running" /\ next[r] < Size(r)
  /\ ProduceBackend
  /\ RespondError(r, Error("Internal"))

(* Mutant of Finish: 202 as soon as anything was enqueued. *)
FinishEarly(r) ==
  /\ stage[r] = "running" /\ next[r] > 0
  /\ Respond(r, Accepted)
  /\ UNCHANGED <<trackingVars, kafkaVars>>

Finish(r) ==
  /\ stage[r] = "running" /\ next[r] = Size(r)
  /\ Respond(r, Accepted)
  /\ UNCHANGED <<trackingVars, kafkaVars>>

-----------------------------------------------------------------------------
RequestInit ==
  /\ sub \in [Requests -> Submissions]
  /\ stage = [r \in Requests |-> "idle"]
  /\ now = [r \in Requests |-> Null]
  /\ next = [r \in Requests |-> 0]
  /\ response = [r \in Requests |-> NoResponse]

(* A server that is up and has served nothing yet. *)
Init == RequestInit /\ TrackingReady /\ KafkaInit

(* Steps of a request the program itself takes once the body is there. *)
Running(r) ==
  Enqueue(r) \/ EnqueueQueueFull(r) \/ EnqueueBackend(r) \/ Finish(r)

Arrival(r) ==
  /\ FreeWorker
  /\ Health(r) \/ NotFound(r) \/ MethodNotAllowed(r) \/ ReceiveHead(r)

AwaitBody(r) ==
  /\ FreeWorker
  /\ \/ Timeout(r) \/ Disconnect(r) \/ BodyRejected(r)
     \/ Refuse(r) \/ HandlerPanic(r) \/ Accept(r)

RequestNext == \E r \in Requests : Arrival(r) \/ AwaitBody(r) \/ Running(r)

Kafka == KafkaNext /\ UNCHANGED <<requestVars, trackingVars>>

(* Every request has ended and every delivery has been observed. *)
Quiescent ==
  /\ \A r \in Requests : Ended(r)
  /\ Pending = {} /\ observers = {}
  /\ UNCHANGED vars

Next == RequestNext \/ Kafka \/ Quiescent

Spec == Init /\ [][Next]_vars

(* Scheduling the code and its libraries provide: a handler keeps its worker
   until it returns, the request timer fires, the library serves every
   delivery report or expires the message, and spawned tasks are polled. *)
Fairness ==
  /\ \A r \in Requests : /\ WF_vars(Running(r))
                         /\ WF_vars(FreeWorker /\ Timeout(r))
  /\ \A p \in Partitions :
       WF_vars(ExpireUnsent(p) /\ UNCHANGED <<requestVars, trackingVars>>)
  /\ WF_vars(/\ \E entry \in unacked : ExpireUnacked(entry)
             /\ UNCHANGED <<requestVars, trackingVars>>)
  /\ WF_vars(/\ \E entry \in observers : ObserveDelivery(entry)
             /\ UNCHANGED <<requestVars, trackingVars>>)

FairSpec == Spec /\ Fairness

-----------------------------------------------------------------------------
(* Properties                                                              *)

Stages == {"idle", "body", "running", "responded", "dropped"}

Entries == [req : Requests, index : Nat \ {0}, message : Messages]

(* Entries of an error envelope. *)
ErrorItems ==
  {[detail |-> v] : v \in Variants} \cup UNION {ValidationItems(s) : s \in Submissions}

Responses ==
  [status : Nat, envelope : BOOLEAN, retryAfter : BOOLEAN, errors : SUBSET ErrorItems]

Reports == [req : Requests, handled : BOOLEAN]

RequestTypeOK ==
  /\ sub \in [Requests -> Submissions]
  /\ stage \in [Requests -> Stages]
  /\ now \in [Requests -> Instants \cup {Null}]
  /\ next \in [Requests -> Nat]
  /\ response \in [Requests -> Responses]

TrackingTypeOK ==
  /\ sink \in {"unset", "noop", "posthog"}
  /\ client \in {"absent", "running", "stopped"}
  /\ captured \in Seq(Reports)
  /\ dropped \in Seq(Reports)

KafkaTypeOK ==
  /\ unsent \in [Partitions -> Seq(Entries)]
  /\ topic \in [Partitions -> Seq(Entries)]
  /\ unacked \subseteq UNION {Range(topic[p]) : p \in Partitions}
  /\ failed \subseteq Entries
  /\ observers \subseteq Entries
  /\ warned \subseteq Entries

(* TypeOK: the state space of requests, tracker and producer. *)
TypeOK == RequestTypeOK /\ TrackingTypeOK /\ KafkaTypeOK

EnqueuedBy(r) == {entry \in Enqueued : entry.req = r}
Positions(r) == {entry.index : entry \in EnqueuedBy(r)}

(* The entry carries the i-th event a request submitted, keyed by its subject. *)
Carries(entry, event) ==
  /\ entry.message.key = event["subject"]
  /\ entry.message.specversion = event["specversion"]
  /\ \A k \in {"id", "type", "source", "subject", "data"} :
       entry.message.payload[k] = event[k]

(* AcceptedIsComplete: a 202 means that every event of the request, and
   nothing else, was handed to Kafka, each at most once and with its own
   content (create_sheep and record_accepted, against partial publishes). *)
AcceptedIsComplete ==
  \A r \in Requests : response[r].status = 202 =>
    /\ Positions(r) = DOMAIN sub[r].events
    /\ \A entry \in EnqueuedBy(r) : Carries(entry, sub[r].events[entry.index])
    /\ \A e1, e2 \in EnqueuedBy(r) : e1.index = e2.index => e1 = e2

(* RefusedPublishesNothing: whatever refuses a request before its events are
   accepted (the client error, the timeout, the panic, the disconnect), none
   of its events was published: batch validation is all-or-nothing. *)
RefusedPublishesNothing ==
  \A r \in Requests :
    (\/ stage[r] = "dropped"
     \/ response[r].status \in 400..499
     \/ response[r] = Panicked) => EnqueuedBy(r) = {}

(* FailurePublishesStrictPrefix: a producer failure leaves exactly the events
   before the failing one published, so at least one is not; only a full
   queue asks the client to retry (the doc comment of ingest_batch). *)
FailurePublishesStrictPrefix ==
  \A r \in Requests :
    /\ response[r].status \in {500, 503} /\ response[r].envelope
         => \E k \in 0..(Len(sub[r].events) - 1) : Positions(r) = 1..k
    /\ response[r].retryAfter <=> response[r].status = 503

(* A reply tells how far the request got: to its last event, to a producer
   failure before that, or not to its first event at all. *)
Fits(r, reply) ==
  /\ \/ /\ reply.status = 202
        /\ Refusals(sub[r]) = {} /\ now[r] \in Instants
        /\ next[r] = Size(r)
     \/ /\ reply.status \in {500, 503} /\ reply.envelope
        /\ Refusals(sub[r]) = {} /\ now[r] \in Instants
        /\ next[r] < Size(r)
     \/ /\ reply.status \notin {202, 503}
        /\ reply.status = 500 => ~reply.envelope
        /\ next[r] = 0
  /\ reply.retryAfter <=> reply.status = 503

RequestInv(r) ==
  /\ stage[r] \in {"idle", "body", "dropped"} => next[r] = 0
  /\ stage[r] = "running" =>
       Refusals(sub[r]) = {} /\ now[r] \in Instants /\ next[r] <= Size(r)
  /\ IF stage[r] = "responded" THEN Fits(r, response[r]) ELSE response[r] = NoResponse

PublishedInv(r) == EnqueuedBy(r) = {EntryOf(r, i) : i \in 1..next[r]}

(* ProgressIsPublished: at every step what Kafka was given for a request is
   the events up to the handler's position, and the response agrees with
   it.  The inductive invariant behind the three properties above. *)
ProgressIsPublished == \A r \in Requests : RequestInv(r) /\ PublishedInv(r)

(* TopicKeepsBatchOrder: however requests interleave on the shared queue,
   the events of one request that share a partition are consumed in the
   order of the batch, and none of them twice. *)
TopicKeepsBatchOrder ==
  \A p \in Partitions :
    LET log == topic[p] \o unsent[p] IN
    \A i, j \in DOMAIN log :
      i < j /\ log[i].req = log[j].req => log[i].index < log[j].index

(* OneReceiptStamp: all events of a request carry one receipt time, and the
   receipt time stands in for the client's only where the client gave none
   (stamp: a client can neither forge the one nor lose the other). *)
OneReceiptStamp ==
  \A r \in Requests : \E received \in {UnixSeconds(t) : t \in Instants} :
    \A entry \in EnqueuedBy(r) :
      LET given == sub[r].events[entry.index]["time"] IN
      /\ entry.message.received_at = received
      /\ entry.message.payload.time =
           IF given = Null THEN received
           ELSE UnixSeconds(Rfc3339[given].local - Rfc3339[given].offset)

(* ValidationNamesTheFaultyEvents: a batch answered with validation errors
   names exactly the positions of its non-conforming events, counted from
   zero, and each of their faulty attributes (ingest_batch). *)
ValidationNamesTheFaultyEvents ==
  \A r \in Requests :
    LET items == {x \in response[r].errors : "index" \in DOMAIN x} IN
    items # {} =>
      {<<x.index, x.key>> : x \in items} =
        UNION {{<<i - 1, k>> : k \in IF sub[r].events[i] = NotObject THEN {"body"}
                                     ELSE FaultyKeys(sub[r].events[i])}
               : i \in DOMAIN sub[r].events}

(* The reports about request r that a log of reports holds. *)
ReportsOf(log, r) == {i \in DOMAIN log : log[i].req = r}

ReportedIn(log, r) ==
  \E i \in DOMAIN log :
    ReportsOf(log, r) = {i} /\ log[i].handled = response[r].envelope

(* ServerFaultsReportedOnce: with error tracking on, each 500 yields one
   report, handled unless it was a panic, and nothing else yields one. *)
ServerFaultsReportedOnce ==
  \A r \in Requests :
    IF response[r].status = 500 /\ sink = "posthog"
    THEN \/ ReportedIn(captured, r) /\ ReportsOf(dropped, r) = {}
         \/ ReportedIn(dropped, r) /\ ReportsOf(captured, r) = {}
    ELSE ReportsOf(captured, r) = {} /\ ReportsOf(dropped, r) = {}

(* NoSilentLoss: an event answered with 202 is on its way, or in the topic,
   or its loss has been logged or is about to be (the spawned observer). *)
NoSilentLoss ==
  \A r \in Requests : response[r].status = 202 =>
    \A i \in DOMAIN sub[r].events : \E entry \in EnqueuedBy(r) :
      /\ entry.index = i
      /\ \/ entry \in Pending
         \/ entry \in observers
         \/ entry \in warned
         \/ /\ entry \notin failed
            /\ \E p \in Partitions : entry \in Range(topic[p])

(* ResponseIsFinal: after its response (or its drop) a request is never
   answered again and publishes nothing more: no handler outlives a timeout. *)
ResponseIsFinal ==
  [][\A r \in Requests : Ended(r) =>
       /\ stage'[r] = stage[r]
       /\ response'[r] = response[r]
       /\ EnqueuedBy(r)' = EnqueuedBy(r)]_vars

(* EveryRequestEnds: a request routed to the handler is answered or dropped. *)
EveryRequestEnds ==
  \A r \in Requests : stage[r] \in {"body", "running"} ~> Ended(r)

(* EveryDeliveryIsObserved: the outcome of each published event is known in
   the end, and the failed ones are in the log. *)
EveryDeliveryIsObserved ==
  \A r \in Requests :
    Ended(r) ~> /\ EnqueuedBy(r) \cap (Pending \cup observers) = {}
                /\ EnqueuedBy(r) \cap failed \subseteq warned
=============================================================================
