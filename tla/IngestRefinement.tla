-------------------------- MODULE IngestRefinement --------------------------
(***************************************************************************)
(* Ingest implements IngestContract.  The fate of a request is read off    *)
(* its response, and what it handed over off the producer's queue, topic   *)
(* and failures, not off the handler's own counter.                        *)
(***************************************************************************)
EXTENDS Ingest

FateOf(r) ==
  CASE ~Ended(r) -> "open"
    [] Ended(r) /\ response[r].status = 202 -> "accepted"
    [] Ended(r) /\ response[r].status \in {500, 503} /\ response[r].envelope -> "failed"
    [] OTHER -> "unpublished"

Contract == INSTANCE IngestContract WITH
  Cap    <- MaxBatchEvents,
  size   <- [r \in Requests |-> Size(r)],
  handed <- [r \in Requests |-> Positions(r)],
  fate   <- [r \in Requests |-> FateOf(r)]

(* ImplementsContract: every step of the service is a step of the contract
   for the request that takes it, or changes nothing a client relies on. *)
ImplementsContract == Contract!Spec
=============================================================================
