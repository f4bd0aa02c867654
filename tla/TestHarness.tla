---------------------------- MODULE TestHarness ----------------------------
(***************************************************************************)
(* The in-process test harness (crates/countingsheep_test_utils): the      *)
(* handler of module Ingest behind no socket, over a producer that records *)
(* or fails, in one mode for its whole life.  TestApp.run sends a request  *)
(* whose body is complete and waits for the response, so requests do not   *)
(* overlap, nothing times out and nobody disconnects; error tracking is    *)
(* never initialized.                                                      *)
(*                                                                         *)
(* The module says what the integration tests can conclude about the       *)
(* service, and which of its behaviours they cannot show.                  *)
(***************************************************************************)
EXTENDS IngestRefinement

VARIABLES
  mode,    \* FakeProducer.mode
  produced \* FakeProducer.produced

fakeVars == <<mode, produced>>
harnessVars == <<vars, fakeVars>>

HarnessInit ==
  /\ RequestInit /\ TrackingInit /\ KafkaInit
  /\ mode \in {"record", "queue full", "backend"}
  /\ produced = <<>>

UnderWay(r) == stage[r] \in {"body", "running"}

-----------------------------------------------------------------------------
(* The test sends its next request once the last one was answered. *)
Run(r) ==
  /\ \A q \in Requests : ~UnderWay(q)
  /\ Health(r) \/ NotFound(r) \/ MethodNotAllowed(r) \/ ReceiveHead(r)
  /\ UNCHANGED fakeVars

Handle(r) ==
  /\ Refuse(r) \/ HandlerPanic(r) \/ Accept(r) \/ Finish(r)
  /\ UNCHANGED fakeVars

Producing(r) == stage[r] = "running" /\ next[r] < Size(r)

FakeRecord(r) ==
  /\ Producing(r) /\ mode = "record"
  /\ produced' = Append(produced, EntryOf(r, next[r] + 1))
  /\ next' = [next EXCEPT ![r] = @ + 1]
  /\ UNCHANGED <<sub, stage, now, response, trackingVars, kafkaVars, mode>>

(* Mutant of FakeQueueFull: the message is pushed before the mode is read. *)
FakeQueueFullRecords(r) ==
  /\ Producing(r) /\ mode = "queue full"
  /\ produced' = Append(produced, EntryOf(r, next[r] + 1))
  /\ RespondError(r, Error("ServiceUnavailable"))
  /\ UNCHANGED <<kafkaVars, mode>>

FakeQueueFull(r) ==
  /\ Producing(r) /\ mode = "queue full"
  /\ RespondError(r, Error("ServiceUnavailable"))
  /\ UNCHANGED <<kafkaVars, fakeVars>>

FakeBackend(r) ==
  /\ Producing(r) /\ mode = "backend"
  /\ RespondError(r, Error("Internal"))
  /\ UNCHANGED <<kafkaVars, fakeVars>>

TestEnds ==
  /\ \A r \in Requests : ~UnderWay(r)
  /\ UNCHANGED harnessVars

HarnessNext ==
  \/ \E r \in Requests :
       Run(r) \/ Handle(r) \/ FakeRecord(r) \/ FakeQueueFull(r) \/ FakeBackend(r)
  \/ TestEnds

HarnessSpec == HarnessInit /\ [][HarnessNext]_harnessVars

-----------------------------------------------------------------------------
(* Properties                                                              *)

(* Where the events of a request are in published(), and which they are. *)
PlacesOf(r) == {i \in DOMAIN produced : produced[i].req = r}
PublishedPositions(r) == {produced[i].index : i \in PlacesOf(r)}

Observed == INSTANCE IngestContract WITH
  Cap    <- MaxBatchEvents,
  size   <- [r \in Requests |-> Size(r)],
  handed <- [r \in Requests |-> PublishedPositions(r)],
  fate   <- [r \in Requests |-> FateOf(r)]

(* HarnessImplementsContract: what a test sees, with what was handed over
   read off published(), is a behaviour of the service's contract: a test
   cannot pass or fail by an answer the contract excludes. *)
HarnessImplementsContract == Observed!Spec

(* PublishedListsTheBatches: published() is one whole batch after the other:
   each accepted request's events in order, contiguous, and nothing of any
   other request, so that tests may compare it with a list. *)
PublishedListsTheBatches ==
  (\A r \in Requests : ~UnderWay(r)) =>
    /\ \A r \in Requests : PlacesOf(r) # {} => response[r].status = 202
    /\ \A i \in DOMAIN produced :
         LET entry == produced[i] IN
         \/ entry.index = 1
         \/ i > 1 /\ produced[i - 1].req = entry.req
                  /\ produced[i - 1].index = entry.index - 1
    /\ \A r \in Requests : response[r].status = 202 => Cardinality(PlacesOf(r)) = Size(r)

(* NoTestSeesACutBatch: with this producer a request that fails has published
   nothing, so the strict prefixes of FailurePublishesStrictPrefix (Ingest)
   are out of the reach of every test written with the harness. *)
NoTestSeesACutBatch ==
  \A r \in Requests : response[r].status \in {500, 503} => PlacesOf(r) = {}
=============================================================================
