------------------------------- MODULE Server -------------------------------
(***************************************************************************)
(* The life of the process (bin/server.rs) around the requests of module   *)
(* Ingest: error tracking starts, the listener is bound, connections are   *)
(* served until a signal, in-flight ones are drained, error tracking is    *)
(* stopped, the producer is flushed for a bounded time, and the runtime is *)
(* dropped with whatever tasks it still holds.                             *)
(***************************************************************************)
EXTENDS Ingest

VARIABLES
  phase, \* where main is
  open,  \* requests whose connection is open and whose head has not arrived
  flush  \* how producer.flush ended: "none", "complete" or "timed out"

lifeVars == <<phase, open, flush>>
serverVars == <<vars, lifeVars>>

ServerInit ==
  /\ RequestInit /\ TrackingInit /\ KafkaInit
  /\ phase = "starting"
  /\ open = {}
  /\ flush = "none"

(* Workers and librdkafka's threads run from init until the runtime drops. *)
Up == phase \in {"serving", "draining", "drained", "flushing", "flushed"}

MoveTo(new) == phase' = new /\ UNCHANGED <<open, flush>>

-----------------------------------------------------------------------------
(* The environment, the config or the Kafka client is refused: main returns. *)
StartupFails ==
  /\ phase = "starting"
  /\ MoveTo("failed")
  /\ UNCHANGED vars

StartTracking ==
  /\ phase = "starting"
  /\ \E active \in BOOLEAN : InitTracking(active)
  /\ MoveTo("tracked")
  /\ UNCHANGED <<requestVars, kafkaVars>>

Bind ==
  /\ phase = "tracked"
  /\ MoveTo("serving")
  /\ UNCHANGED vars

BindFails ==
  /\ phase = "tracked"
  /\ MoveTo("failed")
  /\ UNCHANGED vars

(* A connection is accepted; its client may take any time to send a head. *)
Connect(r) ==
  /\ phase = "serving" /\ stage[r] = "idle" /\ r \notin open
  /\ open' = open \cup {r}
  /\ UNCHANGED <<phase, flush, vars>>

(* The client closes without having sent a head. *)
CloseHead(r) ==
  /\ Up /\ r \in open
  /\ open' = open \ {r}
  /\ UNCHANGED <<phase, flush, vars>>

(* Mutant of Serve: the connection is still taken to wait for a head. *)
ServeKeepsHead(r) ==
  /\ Up /\ r \in open
  /\ Arrival(r)
  /\ UNCHANGED lifeVars

(* The head of an open connection arrives; it is served even in the drain. *)
Serve(r) ==
  /\ Up /\ r \in open
  /\ Arrival(r)
  /\ open' = open \ {r}
  /\ UNCHANGED <<phase, flush>>

Continue(r) ==
  /\ Up
  /\ AwaitBody(r) \/ Running(r)
  /\ UNCHANGED lifeVars

Deliver == Up /\ Kafka /\ UNCHANGED lifeVars

(* Mutant of Signal: error tracking stops as soon as the signal arrives. *)
SignalStopsTracking ==
  /\ phase = "serving"
  /\ MoveTo("draining")
  /\ ShutdownTracking
  /\ UNCHANGED <<requestVars, kafkaVars>>

(* SIGINT or SIGTERM: nothing more is accepted.  A second one is ignored. *)
Signal ==
  /\ phase = "serving"
  /\ MoveTo("draining")
  /\ UNCHANGED vars

(* Mutant of Drained: it waits for handlers only, not for open heads. *)
DrainedWithOpenHeads ==
  /\ phase = "draining"
  /\ \A r \in Requests : stage[r] \notin {"body", "running"}
  /\ MoveTo("drained")
  /\ UNCHANGED vars

(* Mutant of Drained: it does not wait for handlers. *)
DrainedWithHandlers ==
  /\ phase = "draining" /\ open = {}
  /\ MoveTo("drained")
  /\ UNCHANGED vars

(* axum::serve returns when its last connection has closed.  There is no
   deadline: a client that never finishes its head holds the drain. *)
Drained ==
  /\ phase = "draining"
  /\ open = {}
  /\ \A r \in Requests : stage[r] \notin {"body", "running"}
  /\ MoveTo("drained")
  /\ UNCHANGED vars

StopTracking ==
  /\ phase = "drained"
  /\ ShutdownTracking
  /\ MoveTo("flushing")
  /\ UNCHANGED <<requestVars, kafkaVars>>

EndFlush(result) ==
  /\ phase = "flushing"
  /\ phase' = "flushed" /\ flush' = result
  /\ UNCHANGED <<open, vars>>

(* Mutant of FlushComplete: flush returns at once and says all is delivered. *)
FlushAtOnce == EndFlush("complete")

FlushComplete == Pending = {} /\ EndFlush("complete")

(* Mutant of FlushTimesOut: flush waits for the queue however long. *)
FlushForever == FALSE /\ EndFlush("timed out")

(* The 30 s are the message timeout too, so either may be first; the result
   of the flush is discarded. *)
FlushTimesOut == EndFlush("timed out")

(* The runtime is dropped: no task and no library thread runs any more. *)
Exit ==
  /\ phase = "flushed"
  /\ MoveTo("exited")
  /\ UNCHANGED vars

(* The process is killed, or a signal arrives before its handler is there. *)
Kill ==
  /\ phase \notin {"failed", "exited", "killed"}
  /\ MoveTo("killed")
  /\ UNCHANGED vars

Stopped ==
  /\ phase \in {"failed", "exited", "killed"}
  /\ UNCHANGED serverVars

-----------------------------------------------------------------------------
Life ==
  \/ StartupFails \/ StartTracking \/ Bind \/ BindFails \/ Signal \/ Drained
  \/ StopTracking \/ FlushComplete \/ FlushTimesOut \/ Exit \/ Kill \/ Stopped

ServerNext ==
  \/ Life
  \/ Deliver
  \/ \E r \in Requests : Connect(r) \/ CloseHead(r) \/ Serve(r) \/ Continue(r)

ServerSpec == ServerInit /\ [][ServerNext]_serverVars

(* Handlers and the request timer run, and main takes its next step; nothing
   is asked of the clients, of Kafka, or of the order between flush and
   message timeouts. *)
ServerFairness ==
  /\ \A r \in Requests :
       /\ WF_serverVars(Up /\ Running(r) /\ UNCHANGED lifeVars)
       /\ WF_serverVars(Up /\ FreeWorker /\ Timeout(r) /\ UNCHANGED lifeVars)
  /\ WF_serverVars(Drained)
  /\ WF_serverVars(StopTracking)
  /\ WF_serverVars(FlushTimesOut)
  /\ WF_serverVars(Exit)

FairServerSpec == ServerSpec /\ ServerFairness

-----------------------------------------------------------------------------
(* Properties                                                              *)

(* ServerTypeOK: the state space of the process. *)
ServerTypeOK ==
  /\ TypeOK
  /\ phase \in {"starting", "tracked", "serving", "draining", "drained",
                "flushing", "flushed", "exited", "failed", "killed"}
  /\ open \subseteq {r \in Requests : stage[r] = "idle"}
  /\ flush \in {"none", "complete", "timed out"}

(* FaultsAreReportedUntilTheEnd: a handler's fault is reported exactly once
   even while the server drains, because error tracking outlives the last
   connection and precedes the first (main's order of init, bind, serve and
   shutdown). *)
FaultsAreReportedUntilTheEnd == ServerFaultsReportedOnce

(* FlushCoversEveryAcceptedEvent: a completed flush leaves no event of a 202
   in the local queue: each is in the topic, or its delivery has failed. *)
FlushCoversEveryAcceptedEvent ==
  phase = "exited" /\ flush = "complete" =>
    \A r \in Requests : response[r].status = 202 =>
      \A i \in DOMAIN sub[r].events : \E entry \in EnqueuedBy(r) \ Pending :
        /\ entry.index = i
        /\ \/ \E p \in Partitions : entry \in Range(topic[p])
           \/ entry \in failed

(* OnlyTwoLossesAreSilent: of the events it had answered with 202, a process
   that has exited is sure of those the topic has without an error, and logged
   the loss of others; the only ones to go without a word were still queued
   when the flush gave up, or failed with their observer task never run. *)
OnlyTwoLossesAreSilent ==
  phase = "exited" =>
    \A r \in Requests : response[r].status = 202 =>
      \A i \in DOMAIN sub[r].events : \E entry \in EnqueuedBy(r) :
        /\ entry.index = i
        /\ \/ /\ entry \notin Pending \cup failed
              /\ \E p \in Partitions : entry \in Range(topic[p])
           \/ entry \in warned
           \/ flush = "timed out" /\ entry \in Pending
           \/ entry \in failed \cap observers

AfterDrain == phase \in {"drained", "flushing", "flushed", "exited"}

(* NothingIsPublishedAfterTheDrain: once the drain is over no handler gives
   Kafka another event, so the flush cannot race a producer. *)
NothingIsPublishedAfterTheDrain ==
  [][AfterDrain => Enqueued' = Enqueued /\ response' = response]_serverVars

(* EveryDrainCompletes: a draining server whose open connections have sent
   their heads exits by itself, with slow bodies and with Kafka down. *)
EveryDrainCompletes ==
  phase = "draining" /\ open = {} ~> phase \in {"exited", "killed"}
=============================================================================
