---------------------------- MODULE ServerProofs ----------------------------
(***************************************************************************)
(* Proofs about the life of the process: what Ingest promises of a server  *)
(* that runs still holds while it starts, drains, flushes and stops.       *)
(***************************************************************************)
EXTENDS Server, RefinementProofs

-----------------------------------------------------------------------------
(* The invariant.                                                          *)

Phases == {"starting", "tracked", "serving", "draining", "drained",
           "flushing", "flushed", "exited", "failed", "killed"}

LifeTypeOK ==
  /\ phase \in Phases
  /\ open \subseteq {r \in Requests : stage[r] = "idle"}
  /\ flush \in {"none", "complete", "timed out"}

(* Nothing is served before error tracking has been set up. *)
StartInv ==
  phase = "starting" =>
    /\ sink = "unset" /\ captured = <<>> /\ dropped = <<>>
    /\ \A r \in Requests : response[r] = NoResponse

(* Error tracking runs as long as a request may. *)
ReporterInv ==
  phase \in {"starting", "tracked", "serving", "draining", "drained"} => ClientInv

(* No request is left once the drain is over. *)
DrainInv ==
  AfterDrain => open = {} /\ \A r \in Requests : stage[r] \notin {"body", "running"}

(* A completed flush leaves nothing, and nothing comes after it; no process
   exits without a flush. *)
FlushInv ==
  /\ flush = "complete" => Pending = {} /\ phase \in {"flushed", "exited", "killed"}
  /\ phase \in {"flushed", "exited"} => flush # "none"

LifeInv == LifeTypeOK /\ StartInv /\ ReporterInv /\ DrainInv /\ FlushInv

SInv == Inv /\ ServerFaultsReportedOnce /\ LifeInv

-----------------------------------------------------------------------------
(* Steps of main that leave the service as it is.                          *)

(* What main does to itself changes nothing of the service. *)
LEMMA SameVars ==
  ASSUME Inv, ServerFaultsReportedOnce, UNCHANGED vars
  PROVE  /\ Inv' /\ ServerFaultsReportedOnce'
         /\ UNCHANGED <<sub, stage, now, next, response, sink, client, captured, dropped>>
         /\ Pending' = Pending /\ Enqueued' = Enqueued
         /\ \A r : (response[r] = NoResponse)' <=> response[r] = NoResponse
<1>1. Inv'
  BY NextInv
<1>2. UNCHANGED <<sub, stage, now, next, response, sink, client, captured, dropped>>
  BY DEF vars, requestVars, trackingVars
<1>3. ServerFaultsReportedOnce'
  BY <1>2 DEF ServerFaultsReportedOnce, ReportedIn, ReportsOf
<1>4. Pending' = Pending /\ Enqueued' = Enqueued
  BY DEF vars, kafkaVars, Pending, Enqueued
<1>5. QED
  BY <1>1, <1>2, <1>3, <1>4

(* main moves on, or a client opens or closes a connection. *)
LEMMA QuietLife ==
  ASSUME SInv, UNCHANGED vars,
         \/ StartupFails \/ Bind \/ BindFails \/ Signal \/ Drained
         \/ FlushComplete \/ FlushTimesOut \/ Exit \/ Kill \/ Stopped
         \/ \E r \in Requests : Connect(r) \/ CloseHead(r)
  PROVE  SInv'
<1>1. /\ Inv' /\ ServerFaultsReportedOnce'
      /\ UNCHANGED <<stage, response, sink, client, captured, dropped>>
      /\ Pending' = Pending
  BY SameVars DEF SInv
<1>2. LifeTypeOK /\ StartInv /\ ReporterInv /\ DrainInv /\ FlushInv
  BY DEF SInv, LifeInv
<1>3. LifeTypeOK'
  BY <1>1, <1>2 DEF LifeTypeOK, Phases, StartupFails, Bind, BindFails, Signal, Drained,
     FlushComplete, FlushTimesOut, EndFlush, Exit, Kill, Stopped, MoveTo, Connect,
     CloseHead, serverVars, lifeVars
<1>4. phase' = "starting" => phase = "starting"
  BY DEF StartupFails, Bind, BindFails, Signal, Drained, FlushComplete, FlushTimesOut,
     EndFlush, Exit, Kill, Stopped, MoveTo, Connect, CloseHead, serverVars, lifeVars
<1>5. StartInv'
  BY <1>1, <1>2, <1>4 DEF StartInv, NoResponse, Plain
<1>6. ReporterInv'
  <2>1. phase' \in {"starting", "tracked", "serving", "draining", "drained"}
          => phase \in {"starting", "tracked", "serving", "draining", "drained"}
    BY DEF StartupFails, Bind, BindFails, Signal, Drained, FlushComplete, FlushTimesOut,
       EndFlush, Exit, Kill, Stopped, MoveTo, Connect, CloseHead, serverVars, lifeVars
  <2>2. QED
    BY <1>1, <1>2, <2>1 DEF ReporterInv, ClientInv
<1>7. DrainInv'
  BY <1>1, <1>2 DEF DrainInv, AfterDrain, Up, StartupFails, Bind, BindFails, Signal,
     Drained, FlushComplete, FlushTimesOut, EndFlush, Exit, Kill, Stopped, MoveTo,
     Connect, CloseHead, serverVars, lifeVars
<1>8. FlushInv'
  BY <1>1, <1>2 DEF FlushInv, StartupFails, Bind, BindFails, Signal, Drained,
     FlushComplete, FlushTimesOut, EndFlush, Exit, Kill, Stopped, MoveTo, Connect,
     CloseHead, serverVars, lifeVars
<1>9. QED
  BY <1>1, <1>3, <1>5, <1>6, <1>7, <1>8 DEF SInv, LifeInv

(* Steps that only concern error tracking. *)
LEMMA TrackingStep ==
  ASSUME Inv, TrackingTypeOK', UNCHANGED <<requestVars, kafkaVars>>
  PROVE  Inv' /\ Pending' = Pending /\ Enqueued' = Enqueued
<1>1. KafkaTypeOK' /\ Enqueued' = Enqueued
  BY KafkaUnchanged DEF Inv, TypeOK
<1>2. RequestTypeOK' /\ ProgressIsPublished'
  BY <1>1, RequestsUnchanged DEF Inv, TypeOK
<1>3. Pending' = Pending
  BY DEF Pending, kafkaVars
<1>4. QED
  BY <1>1, <1>2, <1>3 DEF Inv, TypeOK

(* Error tracking is set up before anything could have been reported. *)
LEMMA StartStep ==
  ASSUME SInv, StartTracking
  PROVE  SInv'
<1>1. /\ phase = "starting" /\ phase' = "tracked" /\ open' = open /\ flush' = flush
      /\ UNCHANGED <<requestVars, kafkaVars>>
  BY DEF StartTracking, MoveTo
<1>2. PICK active \in BOOLEAN : InitTracking(active)
  BY DEF StartTracking
<1>3. /\ sink = "unset" /\ captured = <<>> /\ dropped = <<>>
      /\ \A r \in Requests : response[r] = NoResponse
  BY <1>1 DEF SInv, LifeInv, StartInv
<1>4. /\ captured' = <<>> /\ dropped' = <<>>
      /\ \/ client' = "running" /\ sink' = "posthog"
         \/ client' = client /\ sink' = "noop"
  BY <1>2, <1>3 DEF InitTracking
<1>5. UNCHANGED <<stage, response>>
  BY <1>1 DEF requestVars
<1>6. TrackingTypeOK'
  BY <1>4 DEF TrackingTypeOK, SInv, Inv, TypeOK
<1>7. Inv' /\ Pending' = Pending
  BY <1>1, <1>6, TrackingStep DEF SInv
<1>8. ServerFaultsReportedOnce'
  <2>1. \A r : ReportsOf(captured, r)' = {} /\ ReportsOf(dropped, r)' = {}
    BY <1>4 DEF ReportsOf
  <2>2. \A r \in Requests : response'[r].status # 500
    BY <1>3, <1>5 DEF NoResponse, Plain
  <2>3. QED
    BY <2>1, <2>2 DEF ServerFaultsReportedOnce
<1>9. LifeInv'
  BY <1>1, <1>4, <1>5, <1>7 DEF SInv, LifeInv, LifeTypeOK, Phases, StartInv, ReporterInv,
     ClientInv, DrainInv, AfterDrain, FlushInv
<1>10. QED
  BY <1>7, <1>8, <1>9 DEF SInv

(* Error tracking stops when no request is left to report. *)
LEMMA StopStep ==
  ASSUME SInv, StopTracking
  PROVE  SInv'
<1>1. /\ phase = "drained" /\ phase' = "flushing" /\ open' = open /\ flush' = flush
      /\ UNCHANGED <<requestVars, kafkaVars>>
      /\ client' = (IF client = "running" THEN "stopped" ELSE client)
      /\ UNCHANGED <<sink, captured, dropped>>
  BY DEF StopTracking, MoveTo, ShutdownTracking
<1>2. UNCHANGED <<stage, response>>
  BY <1>1 DEF requestVars
<1>3. TrackingTypeOK'
  BY <1>1 DEF TrackingTypeOK, SInv, Inv, TypeOK
<1>4. Inv' /\ Pending' = Pending
  BY <1>1, <1>3, TrackingStep DEF SInv
<1>5. ServerFaultsReportedOnce'
  BY <1>1, <1>2 DEF SInv, ServerFaultsReportedOnce, ReportedIn, ReportsOf
<1>6. LifeInv'
  BY <1>1, <1>2, <1>4 DEF SInv, LifeInv, LifeTypeOK, Phases, StartInv, ReporterInv,
     DrainInv, AfterDrain, FlushInv
<1>7. QED
  BY <1>4, <1>5, <1>6 DEF SInv

-----------------------------------------------------------------------------
(* Steps of the service.                                                   *)

(* Deliveries go on in every phase, and only empty the queue. *)
LEMMA DeliverStep ==
  ASSUME SInv, Deliver
  PROVE  SInv' /\ Enqueued' = Enqueued /\ response' = response
<1>1. Kafka /\ UNCHANGED <<phase, open, flush>>
  BY DEF Deliver, lifeVars
<1>2. KafkaNext /\ KafkaTypeOK
  BY <1>1 DEF Kafka, SInv, Inv, TypeOK
<1>3. Inv'
  BY <1>1, KafkaActionStep DEF SInv
<1>4. Enqueued' = Enqueued /\ Pending' \subseteq Pending
  BY <1>2, KafkaStep, PendingStep
<1>5. UNCHANGED <<stage, response, sink, client, captured, dropped>>
  BY <1>1 DEF Kafka, requestVars, trackingVars
<1>6. ServerFaultsReportedOnce'
  BY <1>5 DEF SInv, ServerFaultsReportedOnce, ReportedIn, ReportsOf
<1>7. LifeInv'
  BY <1>1, <1>4, <1>5 DEF SInv, LifeInv, LifeTypeOK, StartInv, ReporterInv, ClientInv,
     DrainInv, AfterDrain, FlushInv
<1>8. QED
  BY <1>3, <1>4, <1>5, <1>6, <1>7 DEF SInv

(* A request takes a step only while the server serves or drains. *)
LEMMA ServedBeforeTheEnd ==
  ASSUME SInv, NEW r \in Requests, Serve(r) \/ Continue(r)
  PROVE  /\ phase \in {"serving", "draining"} /\ phase' = phase /\ flush' = flush
         /\ Arrival(r) \/ AwaitBody(r) \/ Running(r)
         /\ Serve(r) => open' = open \ {r}
         /\ Continue(r) => open' = open /\ stage[r] \in {"body", "running"}
<1>1. /\ Up /\ phase' = phase /\ flush' = flush
      /\ Arrival(r) \/ AwaitBody(r) \/ Running(r)
      /\ Serve(r) => r \in open /\ open' = open \ {r}
      /\ Continue(r) => open' = open /\ (AwaitBody(r) \/ Running(r))
  BY DEF Serve, Continue, lifeVars
<1>2. AwaitBody(r) \/ Running(r) => stage[r] \in {"body", "running"}
  BY DEF AwaitBody, Timeout, Disconnect, BodyRejected, Refuse, HandlerPanic, Accept,
     Running, Enqueue, EnqueueQueueFull, EnqueueBackend, Finish
<1>3. ~AfterDrain
  BY <1>1, <1>2 DEF SInv, LifeInv, DrainInv
<1>4. phase \in {"serving", "draining"}
  BY <1>1, <1>3 DEF Up, AfterDrain
<1>5. QED
  BY <1>1, <1>2, <1>4

(* A step of a request moves no other request. *)
LEMMA OthersStay ==
  ASSUME Inv, NEW q \in Requests, Arrival(q) \/ AwaitBody(q) \/ Running(q)
  PROVE  \A r \in Requests \ {q} : stage'[r] = stage[r]
<1>1. stage \in [Requests -> Stages]
  BY DEF Inv, TypeOK, RequestTypeOK
<1>2. stage' = stage \/ \E s : stage' = [stage EXCEPT ![q] = s]
  BY DEF Arrival, Health, NotFound, MethodNotAllowed, ReceiveHead, AwaitBody, Timeout,
     Disconnect, BodyRejected, Refuse, HandlerPanic, Accept, Running, Enqueue,
     EnqueueQueueFull, EnqueueBackend, Finish, RespondError, Respond
<1>3. QED
  BY <1>1, <1>2

(* A request's step while the server serves or drains. *)
LEMMA ServiceStep ==
  ASSUME SInv, NEW q \in Requests, Serve(q) \/ Continue(q)
  PROVE  SInv'
<1>1. /\ phase \in {"serving", "draining"} /\ phase' = phase /\ flush' = flush
      /\ Arrival(q) \/ AwaitBody(q) \/ Running(q)
      /\ Serve(q) => open' = open \ {q}
      /\ Continue(q) => open' = open /\ stage[q] \in {"body", "running"}
  BY ServedBeforeTheEnd
<1>2. Inv /\ ServerFaultsReportedOnce /\ ClientInv
  BY <1>1 DEF SInv, LifeInv, ReporterInv
<1>3. Inv'
  BY <1>1, <1>2, RequestStep
<1>4. ServerFaultsReportedOnce' /\ sink' = sink /\ client' = client
  BY <1>1, <1>2, FaultStep DEF ClientInv
<1>5. \A r \in Requests \ {q} : stage'[r] = stage[r]
  BY <1>1, <1>2, OthersStay
<1>6. open' \subseteq {r \in Requests : stage'[r] = "idle"}
  <2>1. open \subseteq {r \in Requests : stage[r] = "idle"}
    BY DEF SInv, LifeInv, LifeTypeOK
  <2>2. open' \subseteq open /\ q \notin open'
    BY <1>1, <2>1
  <2>3. QED
    BY <1>5, <2>1, <2>2
<1>7. LifeInv'
  BY <1>1, <1>2, <1>4, <1>6 DEF SInv, LifeInv, LifeTypeOK, StartInv, ReporterInv,
     ClientInv, DrainInv, AfterDrain, FlushInv
<1>8. QED
  BY <1>3, <1>4, <1>7 DEF SInv

-----------------------------------------------------------------------------
(* Theorems.                                                               *)

(* A process that starts. *)
LEMMA ServerInitInv == ServerInit => SInv
<1> SUFFICES ASSUME ServerInit PROVE SInv
  OBVIOUS
<1>1. /\ RequestInit /\ TrackingInit /\ KafkaInit
      /\ phase = "starting" /\ open = {} /\ flush = "none"
  BY DEF ServerInit
<1>2. TrackingTypeOK
  BY <1>1 DEF TrackingInit, TrackingTypeOK
<1>3. Inv
  BY <1>1, <1>2, FreshInv
<1>4. \A r \in Requests : response[r] = NoResponse
  BY <1>1 DEF RequestInit
<1>5. sink = "unset" /\ captured = <<>> /\ dropped = <<>>
  BY <1>1 DEF TrackingInit
<1>6. ServerFaultsReportedOnce
  BY <1>4, <1>5, FaultStart
<1>7. LifeInv
  BY <1>1, <1>4, <1>5 DEF LifeInv, LifeTypeOK, Phases, StartInv, ReporterInv, ClientInv,
     DrainInv, AfterDrain, FlushInv
<1>8. QED
  BY <1>3, <1>6, <1>7 DEF SInv

(* Every step of the process preserves the invariant. *)
LEMMA ServerNextInv == SInv /\ [ServerNext]_serverVars => SInv'
<1> SUFFICES ASSUME SInv, [ServerNext]_serverVars PROVE SInv'
  OBVIOUS
<1>1. CASE Life
  <2>1. CASE StartTracking
    BY <2>1, StartStep
  <2>2. CASE StopTracking
    BY <2>2, StopStep
  <2>3. CASE ~StartTracking /\ ~StopTracking
    <3>1. UNCHANGED vars
      BY <1>1, <2>3 DEF Life, StartupFails, Bind, BindFails, Signal, Drained,
         FlushComplete, FlushTimesOut, EndFlush, Exit, Kill, Stopped, serverVars
    <3>2. QED
      BY <1>1, <2>3, <3>1, QuietLife DEF Life
  <2>4. QED
    BY <2>1, <2>2, <2>3
<1>2. CASE Deliver
  BY <1>2, DeliverStep
<1>3. ASSUME NEW r \in Requests, Connect(r) \/ CloseHead(r) PROVE SInv'
  <2>1. UNCHANGED vars
    BY <1>3 DEF Connect, CloseHead
  <2>2. QED
    BY <1>3, <2>1, QuietLife
<1>4. ASSUME NEW r \in Requests, Serve(r) \/ Continue(r) PROVE SInv'
  BY <1>4, ServiceStep
<1>5. CASE UNCHANGED serverVars
  <2>1. UNCHANGED vars /\ UNCHANGED <<phase, open, flush>>
    BY <1>5 DEF serverVars, lifeVars
  <2>2. /\ Inv' /\ ServerFaultsReportedOnce' /\ Pending' = Pending
        /\ UNCHANGED <<stage, response, sink, client, captured, dropped>>
    BY <2>1, SameVars DEF SInv
  <2>3. LifeInv'
    BY <2>1, <2>2 DEF SInv, LifeInv, LifeTypeOK, StartInv, ReporterInv, ClientInv,
       DrainInv, AfterDrain, FlushInv
  <2>4. QED
    BY <2>2, <2>3 DEF SInv
<1>6. QED
  BY <1>1, <1>2, <1>3, <1>4, <1>5 DEF ServerNext

(* The invariant holds in every state of the process. *)
LEMMA ServerInvariance == ServerSpec => []SInv
BY ServerInitInv, ServerNextInv, PTL DEF ServerSpec

(* ServerTypeOK, in every state of the process. *)
THEOREM ServerTypeCorrect == ServerSpec => []ServerTypeOK
<1>1. SInv => ServerTypeOK
  BY DEF SInv, Inv, LifeInv, LifeTypeOK, Phases, ServerTypeOK
<1>2. QED
  BY <1>1, ServerInvariance, PTL

(* Each server fault is reported once, in whatever phase it happens: error
   tracking starts before the first request and stops after the last. *)
THEOREM ReportedToTheEnd == ServerSpec => []FaultsAreReportedUntilTheEnd
<1>1. SInv => FaultsAreReportedUntilTheEnd
  BY DEF SInv, FaultsAreReportedUntilTheEnd
<1>2. QED
  BY <1>1, ServerInvariance, PTL

(* A server that exits after a completed flush has given the topic, or seen
   fail, each event of each request it had answered with 202. *)
THEOREM FlushCovers == ServerSpec => []FlushCoversEveryAcceptedEvent
<1>1. SInv => FlushCoversEveryAcceptedEvent
  <2> SUFFICES ASSUME SInv, flush = "complete", NEW r \in Requests,
                      response[r].status = 202, NEW i \in DOMAIN sub[r].events
               PROVE  \E entry \in EnqueuedBy(r) \ Pending :
                        /\ entry.index = i
                        /\ \/ \E p \in Partitions : entry \in Range(topic[p])
                           \/ entry \in failed
    BY DEF FlushCoversEveryAcceptedEvent
  <2>1. Pending = {} /\ AcceptedIsComplete
    BY Completeness DEF SInv, Inv, LifeInv, FlushInv
  <2>2. Positions(r) = DOMAIN sub[r].events
    BY <2>1 DEF AcceptedIsComplete
  <2>3. PICK entry \in EnqueuedBy(r) : entry.index = i
    BY <2>2 DEF Positions
  <2>4. entry \in failed \/ \E p \in Partitions : entry \in Range(unsent[p]) \cup Range(topic[p])
    BY DEF EnqueuedBy, Enqueued
  <2>5. \A p \in Partitions : entry \notin Range(unsent[p])
    BY <2>1 DEF Pending
  <2>6. QED
    BY <2>1, <2>3, <2>4, <2>5
<1>2. QED
  BY <1>1, ServerInvariance, PTL

(* Once the drain is over Kafka is given nothing and no one is answered. *)
THEOREM DrainIsFinal == ServerSpec => NothingIsPublishedAfterTheDrain
<1>1. ASSUME SInv, [ServerNext]_serverVars, AfterDrain
      PROVE  Enqueued' = Enqueued /\ response' = response
  <2>1. CASE UNCHANGED <<requestVars, kafkaVars>>
    BY <2>1 DEF requestVars, kafkaVars, Enqueued
  <2>2. CASE Life
    <3>1. UNCHANGED <<requestVars, kafkaVars>>
      BY <2>2 DEF Life, StartupFails, StartTracking, Bind, BindFails, Signal, Drained,
         StopTracking, FlushComplete, FlushTimesOut, EndFlush, Exit, Kill, Stopped,
         serverVars, vars
    <3>2. QED
      BY <2>1, <3>1
  <2>3. CASE Deliver
    BY <1>1, <2>3, DeliverStep
  <2>4. ASSUME NEW r \in Requests, Serve(r) \/ Continue(r) PROVE FALSE
    BY <1>1, <2>4, ServedBeforeTheEnd DEF AfterDrain
  <2>5. ASSUME NEW r \in Requests, Connect(r) \/ CloseHead(r)
        PROVE  UNCHANGED <<requestVars, kafkaVars>>
    BY <2>5 DEF Connect, CloseHead, vars
  <2>6. CASE UNCHANGED serverVars
    BY <2>1, <2>6 DEF serverVars, vars
  <2>7. QED
    BY <1>1, <2>1, <2>2, <2>3, <2>4, <2>5, <2>6 DEF ServerNext
<1>2. SInv /\ [ServerNext]_serverVars
        => [AfterDrain => Enqueued' = Enqueued /\ response' = response]_serverVars
  BY <1>1
<1>3. QED
  BY <1>2, ServerInvariance, PTL DEF ServerSpec, NothingIsPublishedAfterTheDrain

-----------------------------------------------------------------------------
(* The service's promises, kept by the whole process.                      *)

(* For the service a step of the process is one of its own, or starts or
   stops error tracking, or nothing. *)
LEMMA ServiceOrTracking ==
  ASSUME [ServerNext]_serverVars
  PROVE  [Next]_vars \/ UNCHANGED <<requestVars, kafkaVars>>
<1>1. Life => UNCHANGED <<requestVars, kafkaVars>>
  BY DEF Life, StartupFails, StartTracking, Bind, BindFails, Signal, Drained,
     StopTracking, FlushComplete, FlushTimesOut, EndFlush, Exit, Kill, Stopped,
     serverVars, vars
<1>2. Deliver => Next
  BY DEF Deliver, Next
<1>3. ASSUME NEW r \in Requests
      PROVE  /\ Connect(r) \/ CloseHead(r) => UNCHANGED <<requestVars, kafkaVars>>
             /\ Serve(r) \/ Continue(r) => Next
  BY DEF Connect, CloseHead, Serve, Continue, Next, RequestNext, vars
<1>4. QED
  BY <1>1, <1>2, <1>3 DEF ServerNext, serverVars

(* A process, from its start to its end, keeps the contract with its clients:
   neither the drain, nor the end of error tracking, nor a kill makes it answer
   what it did not do. *)
THEOREM ServerImplements == ServerSpec => ImplementsContract
<1>1. ServerInit => Contract!Init
  BY ServerInitInv, MappedInit DEF ServerInit, SInv
<1>2. SInv /\ SInv' /\ [ServerNext]_serverVars => [Contract!Next]_(Contract!vars)
  BY ServiceOrTracking, MappedNext DEF SInv
<1>3. QED
  BY <1>1, <1>2, ServerInvariance, PTL DEF ServerSpec, ImplementsContract, Contract!Spec

(* No phase of the process answers a request twice, or publishes for one that
   has ended. *)
THEOREM ServerAnswersOnce == ServerSpec => ResponseIsFinal
<1>1. SInv /\ [ServerNext]_serverVars
        => [\A r \in Requests : Ended(r) =>
              /\ stage'[r] = stage[r]
              /\ response'[r] = response[r]
              /\ EnqueuedBy(r)' = EnqueuedBy(r)]_vars
  BY ServiceOrTracking, EndedStays DEF SInv
<1>2. QED
  BY <1>1, ServerInvariance, PTL DEF ServerSpec, ResponseIsFinal

(* Up to its end the process loses count of no message. *)
LEMMA ServerLosses == ServerSpec => [](SInv /\ LossInv /\ AcceptedIsComplete)
<1>1. ServerInit => LossInv
  BY LossInit DEF ServerInit
<1>2. SInv /\ LossInv /\ [ServerNext]_serverVars => LossInv'
  <2> SUFFICES ASSUME SInv, LossInv, [ServerNext]_serverVars PROVE LossInv'
    OBVIOUS
  <2>1. CASE [Next]_vars
    BY <2>1, LossNext DEF SInv
  <2>2. CASE UNCHANGED kafkaVars
    BY <2>2 DEF LossInv, Accounted, Enqueued, Pending, kafkaVars
  <2>3. QED
    BY <2>1, <2>2, ServiceOrTracking
<1>3. SInv => AcceptedIsComplete
  BY Completeness DEF SInv, Inv
<1>4. QED
  BY <1>1, <1>2, <1>3, ServerInvariance, PTL DEF ServerSpec

(* NoSilentLoss, as long as there is a queue to wait in and there are tasks to
   observe deliveries: while the server serves, drains and flushes. *)
THEOREM ServerAccounts == ServerSpec => [](Up => NoSilentLoss)
BY ServerLosses, LossesAreSeen, PTL

(* OnlyTwoLossesAreSilent: once the queue and the tasks are gone, an event of
   a 202 is delivered, or its loss was logged, or it is one of the two kinds
   that go without a word. *)
THEOREM ExitLosses == ServerSpec => []OnlyTwoLossesAreSilent
<1>1. SInv /\ LossInv /\ AcceptedIsComplete => OnlyTwoLossesAreSilent
  <2> DEFINE Delivered(e) == /\ e \notin Pending \cup failed
                             /\ \E p \in Partitions : e \in Range(topic[p])
             Known(e) == \/ Delivered(e)
                         \/ e \in warned
                         \/ flush = "timed out" /\ e \in Pending
                         \/ e \in failed \cap observers
  <2> SUFFICES ASSUME SInv, LossInv, AcceptedIsComplete, phase = "exited",
                      NEW r \in Requests, response[r].status = 202,
                      NEW i \in DOMAIN sub[r].events
               PROVE  \E entry \in EnqueuedBy(r) : entry.index = i /\ Known(entry)
    BY DEF OnlyTwoLossesAreSilent
  <2>1. Positions(r) = DOMAIN sub[r].events
    BY DEF AcceptedIsComplete
  <2>2. PICK entry \in EnqueuedBy(r) : entry.index = i
    BY <2>1 DEF Positions
  <2>3. entry \in failed \/ \E p \in Partitions : entry \in Range(unsent[p]) \cup Range(topic[p])
    BY DEF EnqueuedBy, Enqueued
  <2>4. entry \in observers \cup warned \/ entry \notin Pending \cup failed
    <3>1. entry \in Enqueued
      BY DEF EnqueuedBy
    <3>2. QED
      BY <3>1 DEF LossInv, Accounted
  <2>5. ASSUME entry \in Pending PROVE Known(entry)
    <3>1. flush = "timed out"
      BY <2>5 DEF SInv, LifeInv, LifeTypeOK, FlushInv
    <3>2. QED
      BY <2>5, <3>1
  <2>6. ASSUME entry \in failed PROVE Known(entry)
    BY <2>4, <2>6
  <2>7. ASSUME entry \notin Pending \cup failed PROVE Known(entry)
    <3>1. \A p \in Partitions : entry \notin Range(unsent[p])
      BY <2>7 DEF Pending
    <3>2. Delivered(entry)
      BY <2>3, <2>7, <3>1
    <3> HIDE DEF Delivered
    <3>3. QED
      BY <3>2
  <2>8. Known(entry)
    BY <2>5, <2>6, <2>7
  <2> HIDE DEF Known
  <2>9. QED
    BY <2>2, <2>8
<1>2. QED
  BY <1>1, ServerLosses, PTL

(* Consumers see the batch order whatever phase published. *)
THEOREM ServerKeepsOrder == ServerSpec => []TopicKeepsBatchOrder
<1>1. ServerInit => OrderInv
  BY OrderInit DEF ServerInit
<1>2. SInv /\ OrderInv /\ [ServerNext]_serverVars => OrderInv'
  <2> SUFFICES ASSUME SInv, OrderInv, [ServerNext]_serverVars PROVE OrderInv'
    OBVIOUS
  <2>1. CASE [Next]_vars
    BY <2>1, OrderNext DEF SInv
  <2>2. CASE UNCHANGED <<requestVars, kafkaVars>>
    <3>1. topic' = topic /\ unsent' = unsent
      BY <2>2 DEF kafkaVars
    <3>2. OrderInv' = \A p \in Partitions : Ordered(topic'[p] \o unsent'[p])
      BY DEF OrderInv, Ordered
    <3>3. QED
      BY <3>1, <3>2 DEF OrderInv
  <2>3. QED
    BY <2>1, <2>2, ServiceOrTracking
<1>3. OrderInv => TopicKeepsBatchOrder
  BY DEF OrderInv, Ordered, TopicKeepsBatchOrder
<1>4. QED
  BY <1>1, <1>2, <1>3, ServerInvariance, PTL DEF ServerSpec
=============================================================================
