--------------------------- MODULE IngestContract ---------------------------
(***************************************************************************)
(* What POST /api/v1/sheeps promises its clients, with nothing said about  *)
(* how: a request hands its events over one by one and in order, and its   *)
(* answer tells the client which of three things happened to them.         *)
(***************************************************************************)
EXTENDS Integers

CONSTANTS
  Requests,
  Cap \* how many events a request may submit

VARIABLES
  size,   \* how many events each request submits
  handed, \* the positions of those handed over to Kafka
  fate    \* "open", "accepted", "failed" or "unpublished"

vars == <<size, handed, fate>>

Init ==
  /\ size \in [Requests -> Nat]
  /\ handed = [r \in Requests |-> {}]
  /\ fate = [r \in Requests |-> "open"]

(* The next event of an open request is handed over; of one that submits too
   many, none is. *)
HandOver(r) ==
  /\ fate[r] = "open" /\ size[r] <= Cap
  /\ \E k \in 1..size[r] :
       /\ handed[r] = 1..(k - 1)
       /\ handed' = [handed EXCEPT ![r] = 1..k]
  /\ UNCHANGED <<size, fate>>

Conclude(r, f) ==
  /\ fate[r] = "open"
  /\ fate' = [fate EXCEPT ![r] = f]
  /\ UNCHANGED <<size, handed>>

(* All of its events, and at least one, have been handed over. *)
Accept(r) == size[r] > 0 /\ handed[r] = 1..size[r] /\ Conclude(r, "accepted")

(* Some event could not be handed over; those before it have been. *)
Fail(r) == handed[r] # 1..size[r] /\ Conclude(r, "failed")

(* The request is refused, or given up, or carries no events. *)
Decline(r) == handed[r] = {} /\ Conclude(r, "unpublished")

Next == \E r \in Requests : HandOver(r) \/ Accept(r) \/ Fail(r) \/ Decline(r)

Spec == Init /\ [][Next]_vars
=============================================================================
