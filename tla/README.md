# countingsheep in TLA+

`countingsheep` is an HTTP service that accepts CloudEvents ("sheep") on
`POST /api/v1/sheeps`, one at a time or in batches, validates and stamps them,
and publishes each to Kafka. It answers before the broker does. These modules
model the service from a request's first line to the event in the topic, the
life of the process around it, and what the two promise to clients; TLC checks
the promises on small instances, and TLAPS proves every safety promise among them
for every value of the constants.

## 1. Inventory

| Component | Source | State | Operations | Hard part |
|---|---|---|---|---|
| Event validation | `ingest/sheep.rs` | none (pure) | `validate` and its helpers | all faults at once; normalization of the time to UTC |
| Stamping, serialization | `ingest/stamp.rs`, `ingest/producer.rs` | none | `stamp`, `serialize_flattened` | client time against receipt time, truncation to seconds |
| Text rules | `ingest/sheep.rs`, `ingest/handler.rs` | none (pure) | `is_absolute_uri`, `is_media_type`, the Content-Type gate | cutting at a separator and trimming against a grammar |
| Routes, layers, handler | `router.rs`, `middleware.rs`, `ingest/handler.rs` | one future per request | `create_sheep`, `ingest_single`, `ingest_batch`, `record_accepted`, timeout, panic handler | all-or-nothing validation, per-event publishing, timeout and disconnect against the handler |
| Error contract | `error.rs` | none | `into_response`, `exception_report` | one envelope, index per item, Retry-After |
| Kafka producer | `ingest/producer.rs` | librdkafka's queue, one observer task per message | `produce`, `flush` | full queue, delivery after the answer, order per key, lost acknowledgements |
| Error tracking | `observability/error_tracking.rs` | write-once sink, global client | `init`, `report_exception`, `dispatch`, `shutdown` | exactly one report per fault, failing sinks, order with the drain |
| Process | `bin/server.rs` | phase of `main`, open connections | start, bind, serve, signal, drain, flush, exit | order of the shutdown steps, a drain without a deadline |
| Configuration | `config/*.rs`, `countingsheep_env_vars` | environment | `from_environment`, `load_dotenv` | what may and may not abort startup; a `.env` file that breaks off |
| Log setup | `util/tracing.rs` | global subscriber and its filter | `init` | order of warning and installation; what `RUST_LOG` hides |
| Clients (external) | the comment of `ingest_batch` | tries made, answers heard | retry, give up waiting | copies, order and loss over retries and crashes |
| Test utilities | `crates/countingsheep_test_utils` | mode and record of the fake producer | `TestApp.run`, `FakeProducer::produce`, `published` | what a test can conclude about the service |

How they meet: `create_sheep` runs on one of four worker threads and has no
`await` after its body has arrived. It calls `validate` for every event, reads
the clock once, and calls `produce` for each event in turn. `produce` puts the
message into librdkafka's queue, which other handlers and librdkafka's own
threads use at the same time, and spawns a task that waits for the delivery
report. An `AppError` becomes the response, and an internal one is first
reported to the process-wide sink. The timeout layer, the panic layer and the
`Bytes` extractor answer in place of the handler.

The properties that make each part correct are listed with the runs in
section 4, the hazards at their lines in `PROJECT.json`.

## 2. Modules

| Module | Models | Notes |
|---|---|---|
| `Sheep` | `sheep.rs`, `stamp.rs`, `serialize_flattened` | operators only |
| `SheepContract` | reference: legal values of each attribute | shares no definition with the validator |
| `Validation` | one validation of one raw event | compares the two above |
| `AppError` | `error.rs` and the answers of the layers | operators only |
| `ErrorTracking` | `error_tracking.rs` | its variables and one action per operation |
| `KafkaProducer` | `producer.rs`; librdkafka and the broker (external) | its variables and one action per operation |
| `Ingest` | routes, layers, handler | composes all of the above |
| `IngestContract` | abstract: what a client may rely on | `size`, `handed`, `fate` per request |
| `IngestRefinement` | `Ingest` implements `IngestContract` | refinement mapping |
| `Server` | `bin/server.rs` | composes `Ingest` with the life of the process |
| `Startup` | `config/*.rs`, `util/tracing.rs`, the start of `main` | the part of `Server` before its listener, by itself |
| `TextRules` | the recognisers of URIs and media types, the Content-Type gate | strings as sequences of characters; reference: grammars |
| `RetryingClient` | clients that retry, and a process that dies | composes `Ingest` with its environment |
| `TestHarness` | `countingsheep_test_utils` | `Ingest`'s handler over the fake producer; implements `IngestContract` too |
| `MC*` | instances for TLC | one per module that is run |
| `SheepProofs` | lemmas about the validator's operators | used by the proofs below |
| `IngestProofs` | TLAPS proofs about the service | used by the next three |
| `RefinementProofs` | service and test harness implement the contract; `published()` | used by `ServerProofs` |
| `ServerProofs` | the life of the process | section 5 |
| `RetryProofs` | retrying clients and a process that dies | section 5 |
| `ValidationProofs`, `StartupProofs`, `TextRulesProofs` | the validator, the start, the text rules | section 5 |

### Correspondence

**Data.** An event is a record of the members `validate` looks at; each holds a
text, `Null` (absent or JSON null, which the code treats alike) or `NonString`.
The three recognisers of strings are parameters here: `AbsoluteUris` and
`MediaTypes`, which `TextRules` gives their meaning, and `Rfc3339`, a function
from the accepted strings to the local time and offset they denote. Instants are integers in ticks; `TicksPerSecond` of them
make a second, so the truncation of `unix_timestamp` is visible. `MaxInstant`
is the last instant a UTC `OffsetDateTime` can hold. Reasons of faults are kept
as far as the code distinguishes them, their wording is not.

**Requests** (`Ingest`). `stage[r]` is where the request is:

| stage | in the code |
|---|---|
| `idle` | the request line has not arrived |
| `body` | the `Bytes` extractor of `create_sheep` waits |
| `running` | the publish loop, `next[r]` events done, clock read into `now[r]` |
| `responded` | `response[r]` was handed to hyper |
| `dropped` | the client went away before its body did, the future was dropped |

`Health`, `NotFound`, `MethodNotAllowed` and `ReceiveHead` are the routes.
`Timeout`, `Disconnect` and `BodyRejected` end a request that waits for its
body. When the body is there, one of `Refuse`, `HandlerPanic` and `Accept`
happens: content type, JSON, batch shape and cap, and validation of every event
are one step, because they touch nothing shared. `Enqueue`, `EnqueueQueueFull`
and `EnqueueBackend` are one call of `record_accepted` each, by what `produce`
returns; they are steps of their own because other handlers and librdkafka
interleave there. `Finish` is the 202. A worker thread is needed to poll a
future (`FreeWorker`); a handler that is publishing keeps its own.

The timeout cannot fire while a handler publishes: its timer is looked at only
when the request's future is polled, and from the arrival of the body to its
return the handler runs within one poll, because it awaits nothing. For the same
reason the future cannot be dropped there. That is why `Timeout` and `Disconnect`
are guarded by `body`. The mutant `TimeoutWhileRunning` shows what an `await` in
the loop would break.

**Kafka** (`KafkaProducer`). `unsent` is the queue per partition, `topic` the
log, `unacked` what is written and not reported, `failed` the delivery errors,
`observers` the spawned tasks, `warned` the logged failures. `enable.idempotence`
and `acks=all` are read as: the broker keeps one copy, in queue order, per
partition. `message.timeout.ms` fails a message in the queue (`ExpireUnsent`)
or one that the broker has and whose acknowledgement was lost (`ExpireUnacked`):
a failed delivery may be in the topic. `ProduceBackend` may happen at any call.

**Error tracking** (`ErrorTracking`). A sink is unset, no-op or PostHog. A
report goes to the client (`captured`) or is dropped with a warning (`dropped`)
when the event cannot be built or the sink panics; which one is not decided by
the code, so both are allowed. A sink that panics is caught by `dispatch` and the
answer stands; the mutant `RespondErrorUnguarded` lets the panic through.

**Process** (`Server`). `phase` follows `main`: `starting`, `tracked` (after
`error_tracking::init`), `serving` (bound), `draining` (signal), `drained`
(`axum::serve` returned), `flushing` (tracking is shut down), `flushed`,
`exited`; or `failed`, `killed`. `open` holds the connections whose head has
not arrived: after the signal no connection is accepted, but one that has
begun to send a request is served. `flush` is how `producer.flush` ended, which
the code discards.

**Start** (`Startup`). One action per step of `main`: the exposure flags are
read from the process, `.env` is loaded, the log subscriber is installed, the
settings are read (the first refused one ends startup), the producer is built,
error tracking starts. A setting is unset, not UTF-8, or a string of which only
what the parsers and the log filter make of it matters.

`load_dotenv` is `dotenvy::dotenv().ok()`. dotenvy 0.15.7 sets the variables line
by line, each for which `std::env::var` fails: one that is missing, and one that
is set but not UTF-8. The first line that it cannot parse ends the load; what
came before stays set, what comes after is lost, and `.ok()` drops the error. A
`.env` file is therefore two fields, `dotenv`, the value its lines give each name,
and `unread`, the names whose lines are lost; a file that is missing or cannot be
opened gives no name a value.

The subscriber filters what it shows by `RUST_LOG`: `shown` are the levels that
pass, none before it is installed, and `Shows` says what a string lets through
(by default everything from INFO). A record of the log keeps whether it was
`seen` when it was emitted.

The properties speak of what the operator gave (`given`), not of `env`:
`Asked(v)` is the process variable if it can be read, else the `.env` line if
there is one that is not lost, else whatever the process holds. `Server` folds
all of this into `StartupFails` and `StartTracking`. Topic and client id, which
only have defaults, are left out.

**Text** (`TextRules`). A string is a sequence of characters; a character is
told apart by the tests the code makes (`is_ascii_alphabetic`, `is_whitespace`,
`is_control`, the tspecials, what `HeaderValue::to_str` lets through) and by
the four separators. `Before` and `After` are `split_once`, `Trim` is `trim`.
Upper and lower case are one name: `SingleNames` and `BatchNames` hold every
capitalization. The state is the string examined, which grows by one character
at a time, so that every string up to `MaxLength` is reached.

**Clients** (`RetryingClient`). A request is `<<c, n>>`, the n-th try of client
c; all tries of a client carry one submission. A client makes its first try, or
after 408, 500 or 503 the next one (`Try`); it may also close the connection
and try again without its answer (`GiveUpWaiting`), while the abandoned try
goes on. `doubts` are the tries abandoned so. `Crash` takes the handlers, the
queue and the observers; the topic stays, and what was only in the queue is
`lost`. Nothing in the repository is such a client: the module says what the
sentence about retries in `ingest_batch`'s comment amounts to.

**Tests** (`TestHarness`). `mode` is the fake producer's: it records, reports a
full queue, or fails, always. `TestApp.run` sends one request with its whole
body and waits, so tries do not overlap and nothing times out.

## 3. Bounds

| Run | Instance | States | Why it is enough |
|---|---|---|---|
| ingest_safety | 2 requests of 17 submissions, 2 workers, 2 partitions, queue of 2, batches up to the cap of 2 (and one of 3, refused) | 307,103 | two handlers race for the last place in the queue; a batch can be cut after its first event; two events of a batch share a partition with another request's |
| ingest_liveness | 2 requests that publish, 1 worker | 48,614 | every wait on the worker happens |
| retrying_client | 1 client, 2 tries, 1 crash, 2 workers, queue of 2 | 769,144 | tries overlap and compete for the queue; the crash falls between any two steps, before or after the answer |
| test_harness | 3 requests of 17 submissions | 65,648 | a refused, a cut and an accepted request follow each other in every order |
| text_rules | strings of at most 5 of 12 characters, one of each class | 271,453 | the shortest media type with padding and a parameter has five |
| validation_* | 50,402 events: each attribute over every class of value it can have | 100,816 | all combinations of classes; the validator looks at one attribute at a time |
| server_life | 2 requests of 4 submissions, 2 workers | 649,632 | one drains while the other publishes or panics |
| startup_* | at most 3 variables stray from a plain setting, each to any class of value, over 5 `.env` files, two of them malformed before settings that matter | 95,090 | settings meet in pairs (key and flag, process and file, credentials and protocol) or threes (key, flag and `RUST_LOG`); each meets a `.env` line that counts, one that is lost, and none |

With 17 submissions `MCSubmissions` takes every refusal, in the single and the
batch path, and every kind of success. Requests are interchangeable, so
ingest_safety uses symmetry; the runs with liveness properties do not. Three requests, or batches
of three in a queue of two, exceed the time a check should take (more than ten
million states); the proofs do not depend on the bounds.

`MaxTries`, `MaxCrashes` and `MaxLength` are the only bounds in guards.
`CHECK_DEADLOCK FALSE` is set for the validator, which stops after its step, for
`Startup`, which ends ready or failed, and for `TextRules`, which stops at the
longest string. `Ingest` may stutter explicitly when everything has ended (`Quiescent`)
and `Server` when the process is gone (`Stopped`), so TLC reports any other
state in which nothing can happen.

## 4. Runs

**ingest_safety.** `AcceptedIsComplete`: a 202 means all events, each once and
unaltered, are with Kafka. `RefusedPublishesNothing`: whatever else ended the
request early published nothing. `FailurePublishesStrictPrefix`: a 500 or 503
of the producer leaves exactly the events before the failing one.
`ProgressIsPublished` is the inductive invariant behind these three.
`TopicKeepsBatchOrder`: events of one request in one partition are consumed in
batch order, without copies. `OneReceiptStamp`, `ValidationNamesTheFaultyEvents`,
`ServerFaultsReportedOnce` relate what is published, answered and reported to
what was submitted. `NoSilentLoss`: an accepted event is under way, in the topic,
or its loss is logged. `ResponseIsFinal` (a property of steps): nothing is
answered twice or published after the answer.

**ingest_liveness.** `EveryRequestEnds`, `EveryDeliveryIsObserved`, under
`Fairness`: a handler that can run runs (its thread is preempted only by the
operating system); the request timer is polled when a worker is free;
librdkafka expires a message whose time is up; a spawned task whose report is
there is polled. Nothing is asked of the client or the broker, so the
properties hold with a broker that never answers. With one worker, `Timeout`
needs no more than weak fairness of `FreeWorker /\ Timeout(r)`: while a handler
runs the timer waits, and with finitely many requests handlers stop taking the
worker.

`ImplementsContract`, the last property of ingest_safety: `IngestContract` says
what a client may rely on. Events are handed over in order and one by one, and
the answer means all, some but not all, or none. Nothing of a submission beyond
`Cap` events is handed over, nor of an empty one; `Cap` is the configured batch
cap, which a started server has at least at 1 (`config/server.rs:85`,
`StartupTypeOK`), as `IngestAssumption` says. `handed` is read off queue, topic
and failures, not off the handler's counter.

**retrying_client.** `CopiesNeedDoubt` bounds the copies of an event by the tries
the client abandoned and the tries that were cut; the last event of a batch, and
so a single event, is never copied by a client that waits for its answers.
`CopiesAreInterchangeable`: copies meet in one partition and differ in their
receipt times only. `CrashesLoseOnlyTheQueue`: what a death of the process takes
is at most one queue, and everything else of a 202 that was heard can be found.
`FirstCopiesKeepOrder`: unless an event failed or was lost, overlapping tries
never show a consumer a later event before an earlier one.

**test_harness.** `HarnessImplementsContract`: what the tests see is a behaviour
of the same contract. `PublishedListsTheBatches`: `published()` is one whole
batch after the other. `NoTestSeesACutBatch`: the fake producer fails always or
never, so a batch that is cut in the middle, the subject of
`FailurePublishesStrictPrefix`, cannot be produced by any test of the harness.

**text_rules.** `UrisAreRecognized`, `MediaTypesAreRecognized`, `TheGateIsExact`:
cutting, trimming and inspecting decides exactly what a grammar says that names
the positions of the pieces.

**validation_contract.** `validate`, attribute by attribute, accepts exactly
what the table of `SheepContract` allows, names every faulty attribute once, and
the published second is the one in which the client's instant falls.

**server_life.** `FaultsAreReportedUntilTheEnd` restates
`ServerFaultsReportedOnce` where the sink may be unset and the client stopped.
`FlushCoversEveryAcceptedEvent` and `NothingIsPublishedAfterTheDrain` show that
the order of drain and flush in `main` leaves no race. `OnlyTwoLossesAreSilent`
says what an exit may take with it unlogged: events of a 202 that were still
queued when the flush gave up, and failures whose observer task had not run when
the runtime was dropped. `EveryDrainCompletes`
needs only the handlers, the request timer and `main`'s own steps; it excludes
connections that have not sent a request head, because those have no deadline:
such a client can hold the drain for ever. One of `main`'s steps is the call of
`posthog_rs::shutdown`, whose return the library must give: fairness of
`StopTracking` assumes it.

**startup_safety.** `ExposureNeverComesFromDotenv`; `StartsOnlyAsAsked`: port, cap
and brokers are those of a readable process variable, else of a `.env` line that
was not lost; `NoEgressUnlessAsked`: nothing leaves without a key or against a
flag that could be read; `TheReasonIsLogged`: a server without error tracking has
said why, at a level that the operator's `RUST_LOG` lets through or hides.
A `.env` line that is lost asks for nothing in these properties; what the documents
say of such lines is the matter of startup_kill_switch.

### Disagreements the runs show

* **validation_panic** (a bug). `sheep.rs:173` calls `to_offset(UtcOffset::UTC)`,
  which panics when the UTC date is past year 9999, as for
  `9999-12-31T23:59:59-01:00`. The comment above it allows two outcomes for a
  time, normalized or rejected.
* **validation_smallest**. `sheep.rs:161` requires a subject; the load test
  (`loadtest/k6/lib/payload.js:18`) calls an event without one the smallest
  valid event, and `smoke.js:35` expects 202 for it.
* **startup_warning** (a bug). `util/tracing.rs:20` promises a warning about an
  unreadable `RUST_LOG_FORMAT`; it is emitted before any subscriber is
  installed, so nobody sees it.
* **startup_kill_switch** (a bug). `.env.sample:18` says that
  `POSTHOG_ENABLED=false` disables capture even with a key; behind a malformed
  line of `.env` it is never read, the error is dropped at
  `env_vars/src/lib.rs:14`, and capture is on.

Five more were read off the code while modelling and have no run of their own:
`router.rs:27` says every path carries the errors envelope, and the timeout
(408), a caught panic (500) and the extractor's rejections (400, 413) do not
(`TimedOut`, `Panicked` and `BodyRejections` in `AppError`); `posthog.rs:18` says
a malformed `POSTHOG_ENABLED` can never break startup, and one that is not UTF-8
does, by the `?` at `posthog.rs:111` (`Refused` in `Startup`); `posthog.rs:108` says
blank values are treated as unset, and a blank `POSTHOG_ENABLED` is `Invalid`, which
turns error tracking off where unset would turn it on (`ParseEnabled`);
`env_vars/src/lib.rs:10` and `server.rs:20` say that variables of the process are
never overridden, and one that is set but not UTF-8 is (`LoadDotenv`); the delivery
failures of a completed flush are logged only by tasks that had run before the
runtime is dropped at `server.rs:68` (`Exit` in `Server`).

What the model shows and no text forbids: after a flush that timed out the
events still in the queue are lost without a log line (the first of the two
losses of `OnlyTwoLossesAreSilent`).

## 5. Proofs

The proofs assume nothing but the named ASSUMEs of the modules
(`SheepAssumption`, `KafkaAssumption`, `IngestAssumption`, `ClientAssumption`,
`ValidationAssumption`, `StartupAssumption`, `TextAssumption`), which TLC evaluates
on every run of the module that states them. They hold for any sets of requests,
submissions, texts, partitions, environments and characters, any batch cap of at
least 1, any queue capacity and partitioner, and any number of clients, tries and deaths.

**The service** (`IngestProofs`). `Invariance` is
`Spec => [](TypeOK /\ ProgressIsPublished)`; from it follow `TypeCorrect`,
`Complete` (`AcceptedIsComplete`), `Refused` (`RefusedPublishesNothing`),
`StrictPrefix` (`FailurePublishesStrictPrefix`) and `Final` (`ResponseIsFinal`).
The promises are not inductive: nothing in a state in which a handler is running
says what it has published. `ProgressIsPublished` adds that, for every request at
every moment, the entries in the queue, the topic and the failures that carry
its tag are exactly `EntryOf(r, 1) .. EntryOf(r, next[r])` (`PublishedInv`), and
that stage, response, clock and counter agree (`RequestInv`, `Fits`). Every step
of Kafka's threads leaves `Enqueued` unchanged (`KafkaStep`), `ProduceOk` adds
exactly its entry (`ProduceStep`), only `Enqueue` does both that and move the
counter, and a response is chosen by the guard under which it is given. A step of
a handler is described once, without Kafka (`HandlerStep`): it keeps the types,
touches only its own request, and either holds the counter or advances it by one
event. The proofs about the harness and the retrying clients use it too.

What becomes of an event after the hand-over is proved over that invariant:

* `LossIsObserved` (`NoSilentLoss`) needs `LossInv`: a message that was enqueued
  has an observer, or a warning, or has left the queue without an error. What
  fails was in the queue (`PendingStep`), and its observer leaves only after it.
* `OrderIsKept` (`TopicKeepsBatchOrder`) is inductive over the topic followed by
  the queue: the broker moves an entry from one to the other (`OrderedAppend`),
  an expiry takes one out (`OrderedExpire`), and a handler's next entry is
  beyond all its earlier ones (`OrderedProduce`, from `ProgressIsPublished`).
* `FaultsAreNamed` (`ValidationNamesTheFaultyEvents`) needs `AnswerInv`: a
  response with per-event errors carries the `ValidationItems` of its submission.
* `FaultsReportedOnce` (`ServerFaultsReportedOnce`) needs that a running client
  stands behind a PostHog sink; a step answers with a 500 and reports it, or
  does neither (`ReplyStep`).
* `OneStamp` (`OneReceiptStamp`).

**The contract** (`RefinementProofs`). `Implements` is `Spec => ImplementsContract`.
A step by the handler's counter is a step of the contract (`CountedMove`,
`CountedAdvance`): it hands an event over exactly when it moves the counter, and
the answer names the contract's action because it fits the counter (`Told`). The
positions Kafka was given are `1..next[r]` (`PositionsAre`), so the same holds of
the queue, the topic and the failures that the mapping reads. What is handed over
is within the cap, because a batch beyond it never gets to the loop (`WithinCap`).

**The tests** (`RefinementProofs`). `HarnessImplements`, `BatchesAreListed`,
`NoCutBatches`. The invariant `HInv` keeps what `RequestInv` says of each request
and adds that one request is under way at a time (`OneUnderWay`), that the record
lists each request's events once and up to its counter, those of a batch one
after the other and those of the publishing handler last (`ListInv`), and that
nothing is counted while the producer refuses (`ModeInv`). `ListInv` needs
`OneUnderWay`: two handlers would interleave their batches.

**The process** (`ServerProofs`). `ServerTypeCorrect`, `ReportedToTheEnd`,
`FlushCovers` and `DrainIsFinal` (a property of steps) follow from one invariant
beside those of the service: nothing is answered or reported before error
tracking is set up (`StartInv`); the client runs as long as a request may
(`ReporterInv`); after the drain there is no open connection and no handler
(`DrainInv`); a completed flush has left the queue empty, and no phase that
publishes follows it (`FlushInv`). A request's step therefore happens only while
the server serves or drains (`ServedBeforeTheEnd`), and there the lemmas about
the service apply. `ServerImplements`, `ServerAnswersOnce`, `ServerAccounts` and
`ServerKeepsOrder` carry the service's promises over to the whole process: for
the service a step of the process is one of its own or touches neither requests
nor Kafka (`ServiceOrTracking`). `ServerAccounts` is `NoSilentLoss` while the
process is up, and says nothing of the queue and the tasks that an exit drops;
for those there is `ExitLosses` (`OnlyTwoLossesAreSilent`), from the accounting of
the service (`ServerLosses`) and from what ended the flush (`FlushInv`).

**Retries and crashes** (`RetryProofs`), for any number of clients, tries and
deaths: `RetryTypes`, `CopiesAreBounded`, `CopiesAgree`, `CrashesAreBounded`,
`OrderSurvivesRetries`, `OrderSurvivesDeaths`. A crash breaks
`ProgressIsPublished`: events leave the queue and the response never comes. The
invariant `RInv` therefore counts what was lost as given (`GivenInv`: queue,
topic, failures and `lost` together hold a request's events up to its counter)
and lets a request be dropped in the middle of its batch (`Killed`). It adds that
every try but the last was abandoned or answered with a failure, and that none
after the last has begun (`History`); that a message lies in the partition of its
key (`PlacedInv`); and that the queue is within its capacity, so that as many
capacities as there were crashes bound what is lost (`QueueInv`, `LostInv`).
`CopiesAreBounded` maps the copies of an event one-to-one to its last try and the
tries that were given up or cut (`CopyNeedsDoubt`). `OrderSurvivesRetries` holds
because the try that published the later event had published the earlier one,
into the same partition, and nothing swaps the two (`EarlierIsNearer`).

**The start** (`StartupProofs`). `TypeCorrect`, `NeverFromDotenv`, `AsAsked`,
`NoEgress`, `ReasonLogged`, for every environment and every `.env` file, malformed
ones and unreadable values included. The invariant says that the environment is
the given one until `.env` is loaded, and what `LoadDotenv` makes of it after that
(`EnvInv`), that the subscriber shows what `RUST_LOG` asks for once it is there
(`SubscriberInv`), that a configuration is what the environment says and nothing in it
was refused (`ConfigInv`), and that the last word of the log is why nothing is
captured (`TrackingInv`).

**The validator** (`ValidationProofs`, over `SheepProofs`). `ContractExact`,
`FaultsReported`, `InstantPublished`, `TypeCorrect`. `OneFaultEach` compares the
check of each attribute with the table of legal values; `FaultsAreExact` makes a
bijection of faults and faulty attributes, from which the counts agree.

**The text rules** (`TextRulesProofs`). `UrisRecognized`, `MediaTypesRecognized`,
`GateIsExact`: for strings of every length. Each decision is compared with its
grammar in both directions, from what `Before`, `After` and `Trim` cut off;
`FirstAt` and the ends of `Trim` are least or greatest positions, which exist
because finite sets are well-founded under inclusion (`LeastPosition`).

Model-checked only: the liveness properties `EveryRequestEnds`,
`EveryDeliveryIsObserved` and `EveryDrainCompletes` (fairness and ENABLED are
beyond the prover). Every other property of a passing run is a theorem. The four
disagreements of section 4 are counterexamples of TLC.

## 6. Not modelled

Trace and compression layers, the text of log lines, error details and PostHog
events. The PostHog client's own buffer. The RFC 3339 parser. The size of
librdkafka's queue in kilobytes (only the number of messages bounds it). The
writing of a response to a slow client: a request counts as responded when the
response is handed to hyper. Keep-alive connections that carry several requests.
What tokio, hyper, librdkafka, Kafka and PostHog do inside. The accessors of the
test harness that only take a response apart, and the redacting `Debug`
implementations of the configuration: they change no state and decide nothing.
No code under `src/` was left whose operations change state and are not an action.

## 7. Plan

Done: all modules of section 2, the proofs of section 5.

Left: two clients in `RetryingClient` and three requests in `Ingest`, which exceed
the time a check should take in TLC (the proofs cover both), and what a retrying
client can conclude across a drain, which would compose `RetryingClient` with
`Server`.
